------------------------- MODULE PacketServerProofs -------------------------
(****************************************************************************)
(* What the packet server guarantees for every network: any number of      *)
(* nodes, outsiders, workers, packets and TTLs.  The inductive invariant    *)
(* says of every packet, task and handler in progress what the step that    *)
(* created it established.                                                  *)
(****************************************************************************)
EXTENDS PacketServer, TLAPS

\* The packets and tasks that HopsBounded allows; a handler's task was heard.
GoodPacket == {m \in Packet : m.hops + m.ttl = m.born}

GoodTask(n) ==
  {t \in Task : /\ t.send => t.ttl > 0 /\ t.hops + t.ttl = t.born
                /\ ~t.send => \E p \in Peer : <<t.key, p>> \in heard[n]}

\* A handler that has yet to add its session holds a verified certificate;
\* past that point the session is in the pool.
HandJustified(n, w) ==
  hand[n][w] # None =>
    IF hand[n][w].pc = "add"
      THEN Sender(hand[n][w]) \in Vouched(n)
      ELSE Sender(hand[n][w]) \in sessions[n]

NetInv == \A m \in DOMAIN net : m \in GoodPacket /\ net[m] \in Nat \ {0}

ServerTyped ==
  /\ slot \in [Node -> Address]
  /\ hand \in [Node -> [Worker -> Job \cup {None}]]
  /\ sessions \in [Node -> SUBSET Peer]
  /\ routes \in [Node -> [Peer -> Route \cup {None}]]
  /\ greeting \in [Node -> SUBSET Peer]
  /\ injected \in 0..MaxInjected

CacheTyped ==
  /\ cache \in [Node -> [list : Seq(Key \cup {Blank}), map : SUBSET Key]]
  /\ \A n \in Node : Len(cache[n].list) = CacheSize
  /\ seen \in [Node -> [Key -> Nat]]
  /\ passed \in [Node -> Nat]

TaskInv ==
  /\ heard \in [Node -> SUBSET (Key \X Peer)]
  /\ tasks \in [Node -> Seq(Task)]
  /\ \A n \in Node : tasks[n] \in Seq(GoodTask(n))

HandInv == \A n \in Node, w \in Worker : HandJustified(n, w)

IInv ==
  /\ NetInv
  /\ ServerTyped
  /\ CacheTyped
  /\ TaskInv
  /\ RoutesVerified
  /\ HandInv

-----------------------------------------------------------------------------
\* The invariant implies the properties that are wanted of every state.
LEMMA IInvSuffices == IInv => TypeOK /\ HopsBounded /\ RoutesVerified
<1> SUFFICES ASSUME IInv PROVE TypeOK /\ HopsBounded /\ RoutesVerified
  OBVIOUS
<1>1. TypeOK
  BY DEF IInv, NetInv, ServerTyped, CacheTyped, TaskInv, TypeOK, GoodPacket
<1>2. HopsBounded
  <2>1. \A m \in DOMAIN net : m.hops + m.ttl = m.born
    BY DEF IInv, NetInv, GoodPacket
  <2>2. ASSUME NEW n \in Node, NEW i \in 1..Len(tasks[n])
        PROVE  tasks[n][i] \in GoodTask(n)
    BY <2>2 DEF IInv, TaskInv
  <2> QED BY <2>1, <2>2 DEF HopsBounded, GoodTask
<1> QED BY <1>1, <1>2 DEF IInv

\* Adding to and removing from the bag of packets (send and accept).
LEMMA NetAdd ==
  ASSUME NetInv, NEW m \in GoodPacket, net' = BagAdd(net, m)
  PROVE  NetInv'
<1>1. CASE m \in DOMAIN net
  BY <1>1 DEF NetInv, BagAdd, GoodPacket
<1>2. CASE m \notin DOMAIN net
  BY <1>2 DEF NetInv, BagAdd, GoodPacket
<1> QED BY <1>1, <1>2

LEMMA NetRemove ==
  ASSUME NetInv, NEW m \in DOMAIN net, net' = BagRemove(net, m)
  PROVE  NetInv'
<1>1. CASE net[m] = 1
  BY <1>1 DEF NetInv, BagRemove, GoodPacket
<1>2. CASE net[m] # 1
  BY <1>2 DEF NetInv, BagRemove, GoodPacket
<1> QED BY <1>1, <1>2

LEMMA NetSwap ==
  ASSUME NetInv, NEW m \in DOMAIN net, NEW o \in GoodPacket,
         net' = BagAdd(BagRemove(net, m), o)
  PROVE  NetInv'
<1> DEFINE less == BagRemove(net, m)
<1>1. \A e \in DOMAIN less : e \in GoodPacket /\ less[e] \in Nat \ {0}
  <2>1. CASE net[m] = 1
    BY <2>1 DEF NetInv, BagRemove
  <2>2. CASE net[m] # 1
    BY <2>2 DEF NetInv, BagRemove
  <2> QED BY <2>1, <2>2
<1>2. net' = BagAdd(less, o)
  OBVIOUS
<1> HIDE DEF less
<1>3. CASE o \in DOMAIN less
  BY <1>1, <1>2, <1>3 DEF NetInv, BagAdd, GoodPacket
<1>4. CASE o \notin DOMAIN less
  BY <1>1, <1>2, <1>4 DEF NetInv, BagAdd, GoodPacket
<1> QED BY <1>3, <1>4

\* A sequence over a set is one over every larger set.
LEMMA SeqGrows ==
  ASSUME NEW S, NEW T, S \subseteq T, NEW s \in Seq(S)
  PROVE  s \in Seq(T)
OBVIOUS

\* is_cached keeps the length of the list (fifo_cache.h:31-39).
LEMMA RememberTyped ==
  ASSUME NEW c \in [list : Seq(Key \cup {Blank}), map : SUBSET Key],
         Len(c.list) = CacheSize, NEW k \in Key
  PROVE  /\ Remember(c, k) \in [list : Seq(Key \cup {Blank}), map : SUBSET Key]
         /\ Len(Remember(c, k).list) = CacheSize
<1> DEFINE room == EvictFirst(c)
<1>1. CacheSize \in Nat /\ CacheSize >= 1
  BY CacheSizeAssumption
<1>2. room.list = Tail(c.list) /\ room.map \subseteq Key
  BY <1>1 DEF EvictFirst
<1>3. room.list \in Seq(Key \cup {Blank}) /\ Len(room.list) = CacheSize - 1
  BY <1>1, <1>2
<1>4. Remember(c, k) = [list |-> Append(room.list, k), map |-> room.map \cup {k}]
  BY DEF Remember
<1> HIDE DEF room
<1> QED BY <1>1, <1>2, <1>3, <1>4

\* read_callback takes the packet off the connection and into the cache.
LEMMA ReadsInv ==
  ASSUME NetInv, CacheTyped, NEW n \in Node, NEW m \in DOMAIN net, Reads(n, m)
  PROVE  NetInv' /\ CacheTyped'
<1>1. m.key \in Key
  BY DEF NetInv, GoodPacket, Packet
<1>2. NetInv'
  BY NetRemove DEF Reads
<1>3. CacheTyped'
  <2> DEFINE c == Remember(cache[n], m.key)
  <2>1. /\ c \in [list : Seq(Key \cup {Blank}), map : SUBSET Key]
        /\ Len(c.list) = CacheSize
    BY <1>1, RememberTyped DEF CacheTyped
  <2>2. /\ cache' = [cache EXCEPT ![n] = c]
        /\ seen' = [seen EXCEPT ![n][m.key] = @ + 1]
        /\ passed' = [passed EXCEPT ![n] = @ + 1]
    BY DEF Reads
  <2> HIDE DEF c
  <2> QED BY <1>1, <2>1, <2>2 DEF CacheTyped
<1> QED BY <1>2, <1>3

\* submit() and a worker taking the first task, while nothing new is heard.
LEMMA SubmitInv ==
  ASSUME TaskInv, NEW n \in Node, NEW ts \in Seq(GoodTask(n)),
         Submit(n, ts), UNCHANGED heard
  PROVE  TaskInv'
<1>1. \A o \in Node : GoodTask(o)' = GoodTask(o)
  BY DEF GoodTask
<1>2. GoodTask(n) \subseteq Task
  BY DEF GoodTask
<1>3. tasks' = [tasks EXCEPT ![n] = tasks[n] \o ts]
  BY DEF Submit
<1>4. ts \in Seq(Task)
  BY <1>2, SeqGrows
<1>5. tasks[n] \o ts \in Seq(Task) /\ tasks[n] \o ts \in Seq(GoodTask(n))
  BY <1>4 DEF TaskInv
<1> QED BY <1>1, <1>3, <1>5 DEF TaskInv

LEMMA TakeInv ==
  ASSUME TaskInv, NEW n \in Node, tasks[n] # << >>,
         tasks' = [tasks EXCEPT ![n] = Tail(@)], UNCHANGED heard
  PROVE  TaskInv'
<1>1. \A o \in Node : GoodTask(o)' = GoodTask(o)
  BY DEF GoodTask
<1>2. Tail(tasks[n]) \in Seq(Task) /\ Tail(tasks[n]) \in Seq(GoodTask(n))
  BY DEF TaskInv
<1> QED BY <1>1, <1>2 DEF TaskInv

LEMMA HeadGood ==
  ASSUME TaskInv, NEW n \in Node, tasks[n] # << >>
  PROVE  Head(tasks[n]) \in GoodTask(n)
BY DEF TaskInv

\* What send_pkg submits is good: its TTL is InitTtl and it made no hop.
LEMMA SendPkgInv ==
  ASSUME TaskInv, NEW n \in Node, NEW p \in Peer, NEW ip \in Address,
         SendPkg(n, p, ip), UNCHANGED heard
  PROVE  TaskInv'
<1>1. PICK k \in OwnHello(n, p) : Submit(n, <<SendTask(k, InitTtl, 0, InitTtl, ip)>>)
  BY DEF SendPkg
<1>2. k \in Key
  BY DEF OwnHello
<1>3. SendTask(k, InitTtl, 0, InitTtl, ip) \in GoodTask(n)
  BY <1>2, TtlAssumption DEF SendTask, GoodTask, Task, Ttl
<1>4. <<SendTask(k, InitTtl, 0, InitTtl, ip)>> \in Seq(GoodTask(n))
  BY <1>3
<1> QED BY <1>1, <1>4, SubmitInv

\* A step that leaves handlers, sessions, routes and history alone.
LEMMA HandlersIdle ==
  ASSUME RoutesVerified, HandInv, UNCHANGED <<hand, sessions, routes, heard>>
  PROVE  RoutesVerified' /\ HandInv'
BY DEF RoutesVerified, HandInv, HandJustified, Vouched, Routed, Sender

-----------------------------------------------------------------------------
LEMMA InitIInv == Init => IInv
<1> SUFFICES ASSUME Init PROVE IInv
  OBVIOUS
<1>1. NetInv
  BY DEF Init, NetInv, EmptyBag, SetToBag
<1>2. ServerTyped
  BY CandidatesAssumption, InjectedAssumption DEF Init, ServerTyped, Address
<1>3. CacheTyped
  BY CacheSizeAssumption DEF Init, CacheTyped, NewCache
<1>4. TaskInv
  BY DEF Init, TaskInv
<1>5. RoutesVerified
  BY DEF Init, RoutesVerified, Routed
<1>6. HandInv
  BY DEF Init, HandInv, HandJustified
<1> QED BY <1>1, <1>2, <1>3, <1>4, <1>5, <1>6 DEF IInv

\* The steps of outsiders and of start().
LEMMA GreetInv ==
  ASSUME IInv, NEW n \in Node, NEW p \in Peer, Greet(n, p)
  PROVE  IInv'
<1> USE DEF IInv
<1>1. NetInv' /\ CacheTyped'
  BY DEF Greet, historyVars, NetInv, CacheTyped
<1>2. ServerTyped'
  BY DEF Greet, historyVars, ServerTyped
<1>3. TaskInv'
  BY SendPkgInv DEF Greet, historyVars, Address
<1>4. RoutesVerified' /\ HandInv'
  BY HandlersIdle DEF Greet, historyVars
<1> QED BY <1>1, <1>2, <1>3, <1>4

LEMMA InjectInv ==
  ASSUME IInv, NEW n \in Node, NEW p \in Outsider, NEW k \in Key,
         NEW ttl \in Ttl, Inject(n, p, k, ttl)
  PROVE  IInv'
<1> USE DEF IInv
<1>1. NetInv'
  <2> DEFINE m == [to |-> n, from |-> p, key |-> k, ttl |-> ttl, hops |-> 0,
                   born |-> ttl, accepted |-> FALSE]
  <2>1. m \in GoodPacket
    BY TtlAssumption DEF GoodPacket, Packet, Peer, Ttl
  <2>2. net' = BagAdd(net, m)
    BY DEF Inject
  <2> QED BY <2>1, <2>2, NetAdd
<1>2. ServerTyped'
  BY InjectedAssumption DEF Inject, serverVars, historyVars, ServerTyped
<1>3. CacheTyped' /\ TaskInv'
  BY DEF Inject, serverVars, historyVars, CacheTyped, TaskInv, GoodTask
<1>4. RoutesVerified' /\ HandInv'
  BY HandlersIdle DEF Inject, serverVars, historyVars
<1> QED BY <1>1, <1>2, <1>3, <1>4

-----------------------------------------------------------------------------
\* The listening thread.
LEMMA ListenerInv ==
  ASSUME IInv, NEW n \in Node, NEW m \in DOMAIN net, ListenerStep(n, m)
  PROVE  IInv'
<1> USE DEF IInv
<1>1. m \in GoodPacket /\ m \in Packet
  BY DEF NetInv, GoodPacket
<1>2. CASE Accept(n, m)
  <2>1. [m EXCEPT !.accepted = TRUE] \in GoodPacket
    BY <1>1 DEF GoodPacket, Packet
  <2>2. NetInv'
    BY <1>2, <2>1, NetSwap DEF Accept
  <2>3. ServerTyped'
    BY <1>1, <1>2 DEF Accept, serverVars, historyVars, ServerTyped, Packet, Address
  <2>4. CacheTyped' /\ TaskInv'
    BY <1>2 DEF Accept, serverVars, historyVars, CacheTyped, TaskInv, GoodTask
  <2>5. RoutesVerified' /\ HandInv'
    BY <1>2, HandlersIdle DEF Accept, serverVars, historyVars
  <2> QED BY <2>2, <2>3, <2>4, <2>5
<1>3. CASE Abandon(n, m) \/ Disconnect(n, m)
  <2>1. NetInv'
    BY <1>3, NetRemove DEF Abandon, Disconnect
  <2>2. ServerTyped' /\ CacheTyped' /\ TaskInv'
    BY <1>3
    DEF Abandon, Disconnect, serverVars, historyVars, ServerTyped, CacheTyped, TaskInv, GoodTask
  <2>3. RoutesVerified' /\ HandInv'
    BY <1>3, HandlersIdle DEF Abandon, Disconnect, serverVars, historyVars
  <2> QED BY <2>1, <2>2, <2>3
<1>4. ASSUME Reads(n, m), NEW ip \in Address
      PROVE  SendTask(m.key, m.ttl, m.hops, m.born, ip) \in GoodTask(n)
  <2>1. m.ttl > 0 /\ m.hops + m.ttl = m.born
    BY <1>1, <1>4, TtlAssumption DEF Reads, GoodPacket, Packet, Ttl
  <2> QED BY <1>1, <2>1 DEF SendTask, GoodTask, Task, Packet
<1>8. \A p \in Routed(n) : routes[n][p].ip \in Address
  BY DEF Routed, ServerTyped, Route
<1>5. CASE Redirect(n, m)
  <2>1. NetInv' /\ CacheTyped'
    BY <1>5, ReadsInv DEF Redirect
  <2>2. ServerTyped'
    BY <1>5 DEF Redirect, ServerTyped
  <2>3. TaskInv'
    <3> DEFINE t(ip) == SendTask(m.key, m.ttl, m.hops, m.born, ip)
    <3>1. PICK ip \in {routes[n][Body[m.key].receiver].ip, Garbage} :
            Submit(n, <<t(ip)>>)
      BY <1>5 DEF Redirect
    <3>2. ip \in Address
      BY <1>5, <1>8, <3>1 DEF Redirect, Address
    <3>3. t(ip) \in GoodTask(n)
      BY <1>4, <1>5, <3>2 DEF Redirect
    <3> HIDE DEF t
    <3>4. <<t(ip)>> \in Seq(GoodTask(n))
      BY <3>3
    <3>5. UNCHANGED heard
      BY <1>5 DEF Redirect
    <3> QED BY <3>1, <3>4, <3>5, SubmitInv
  <2>4. RoutesVerified' /\ HandInv'
    BY <1>5, HandlersIdle DEF Redirect
  <2> QED BY <2>1, <2>2, <2>3, <2>4
<1>6. CASE Broadcast(n, m)
  <2>1. NetInv' /\ CacheTyped'
    BY <1>6, ReadsInv DEF Broadcast
  <2>2. ServerTyped'
    BY <1>6 DEF Broadcast, ServerTyped
  <2>3. TaskInv'
    <3> DEFINE copies(order) ==
          [i \in 1..Len(order) |->
             SendTask(m.key, m.ttl, m.hops, m.born, routes[n][order[i]].ip)]
    <3>1. PICK met \in SUBSET Routed(n) :
            \E order \in SetToSeqs(met) : Submit(n, copies(order))
      BY <1>6 DEF Broadcast
    <3>8. PICK order \in SetToSeqs(met) : Submit(n, copies(order))
      BY <3>1
    <3>2. Cardinality(met) \in Nat
      BY <3>1, PeerAssumption DEF Routed
    <3>3. order \in [1..Cardinality(met) -> met]
      BY <3>8 DEF SetToSeqs
    <3>4. Len(order) \in Nat /\ \A i \in 1..Len(order) : order[i] \in Routed(n)
      BY <3>2, <3>3
    <3>5. \A i \in 1..Len(order) :
            SendTask(m.key, m.ttl, m.hops, m.born, routes[n][order[i]].ip) \in GoodTask(n)
      BY <1>4, <1>6, <1>8, <3>4 DEF Broadcast
    <3>6. copies(order) \in Seq(GoodTask(n))
      BY <3>4, <3>5
    <3>7. UNCHANGED heard
      BY <1>6 DEF Broadcast
    <3> HIDE DEF copies
    <3> QED BY <3>8, <3>6, <3>7, SubmitInv
  <2>4. RoutesVerified' /\ HandInv'
    BY <1>6, HandlersIdle DEF Broadcast
  <2> QED BY <2>1, <2>2, <2>3, <2>4
<1>7. CASE Deliver(n, m)
  <2>1. NetInv' /\ CacheTyped'
    BY <1>7, ReadsInv DEF Deliver
  <2>2. ServerTyped'
    BY <1>7 DEF Deliver, ServerTyped
  <2>3. /\ heard' = [heard EXCEPT ![n] = @ \cup {<<m.key, m.from>>}]
        /\ heard' \in [Node -> SUBSET (Key \X Peer)]
        /\ \A o \in Node : heard[o] \subseteq heard'[o]
        /\ <<m.key, m.from>> \in heard'[n]
    BY <1>1, <1>7 DEF Deliver, TaskInv, Packet
  <2>4. TaskInv'
    <3> DEFINE t == HandleTask(m.key, m.ttl)
    <3>1. \A o \in Node : GoodTask(o) \subseteq GoodTask(o)'
      BY <2>3 DEF GoodTask
    <3>2. t \in Task /\ t \in GoodTask(n)'
      BY <1>1, <2>3, TtlAssumption DEF HandleTask, GoodTask, Task, Packet, Address, Ttl
    <3> HIDE DEF t
    <3>3. \A o \in Node : tasks[o] \in Seq(GoodTask(o)')
      BY <3>1, SeqGrows DEF TaskInv
    <3>4. tasks' = [tasks EXCEPT ![n] = tasks[n] \o <<t>>]
      BY <1>7 DEF Deliver, Submit, t
    <3>5. tasks[n] \o <<t>> \in Seq(Task) /\ tasks[n] \o <<t>> \in Seq(GoodTask(n)')
      BY <3>2, <3>3 DEF TaskInv
    <3>6. \A o \in Node : tasks'[o] \in Seq(GoodTask(o)')
      BY <3>3, <3>4, <3>5 DEF TaskInv
    <3> QED BY <2>3, <3>4, <3>5, <3>6 DEF TaskInv
  <2>5. \A o \in Node : Vouched(o) \subseteq Vouched(o)'
    BY <2>3 DEF Vouched
  <2>6. RoutesVerified' /\ HandInv'
    <3>1. UNCHANGED <<hand, sessions, routes>>
      BY <1>7 DEF Deliver
    <3>2. \A o \in Node : Routed(o)' = Routed(o)
      BY <3>1 DEF Routed
    <3> QED BY <2>5, <3>1, <3>2 DEF RoutesVerified, HandInv, HandJustified, Sender
  <2> QED BY <2>1, <2>2, <2>4, <2>6
<1> QED BY <1>2, <1>3, <1>5, <1>6, <1>7 DEF ListenerStep

-----------------------------------------------------------------------------
\* The tasks a worker finishes at once.
LEMMA SendInv ==
  ASSUME IInv, NEW n \in Node, NEW w \in Worker,
         Send(n, w) \/ SendFails(n, w) \/ HandleOther(n, w)
  PROVE  IInv'
<1> USE DEF IInv
<1>1. /\ tasks[n] # << >>
      /\ tasks' = [tasks EXCEPT ![n] = Tail(@)]
      /\ UNCHANGED <<slot, cache, hand, sessions, routes, greeting, injected,
                     seen, passed, heard>>
  BY DEF Send, SendFails, HandleOther, Handles, Takes, historyVars
<1>2. NetInv'
  <2>1. CASE Send(n, w)
    <3> DEFINE t == Head(tasks[n])
               m == [to |-> t.to, from |-> n, key |-> t.key,
                     ttl |-> Decremented(t.ttl), hops |-> t.hops + 1,
                     born |-> t.born, accepted |-> FALSE]
    <3>1. t \in GoodTask(n)
      BY <1>1, HeadGood
    <3>2. t.send /\ t.to \in Peer /\ net' = BagAdd(net, m)
      BY <2>1 DEF Send
    <3>3. t \in Task /\ t.ttl > 0 /\ t.hops + t.ttl = t.born
      BY <3>1, <3>2 DEF GoodTask
    <3> HIDE DEF t
    <3>4. Decremented(t.ttl) = t.ttl - 1 /\ t.ttl - 1 \in Ttl
      BY <3>3, TtlAssumption DEF Task, Ttl, Decremented
    <3>5. m \in GoodPacket
      BY <3>2, <3>3, <3>4, TtlAssumption DEF Task, Ttl, GoodPacket, Packet, Peer
    <3> QED BY <3>2, <3>5, NetAdd
  <2>2. CASE UNCHANGED net
    BY <2>2 DEF NetInv
  <2> QED BY <2>1, <2>2 DEF SendFails, HandleOther
<1>3. ServerTyped' /\ CacheTyped'
  BY <1>1 DEF ServerTyped, CacheTyped
<1>4. TaskInv'
  BY <1>1, TakeInv
<1>5. RoutesVerified' /\ HandInv'
  BY <1>1, HandlersIdle
<1> QED BY <1>2, <1>3, <1>4, <1>5

\* The hello handler starts: the session it will add is vouched for.
LEMMA HelloBeginsInv ==
  ASSUME IInv, NEW n \in Node, NEW w \in Worker, HelloBegins(n, w)
  PROVE  IInv'
<1> USE DEF IInv
<1> DEFINE t == Head(tasks[n])
           b == Body[t.key]
           job(pc) == [pc |-> pc, key |-> t.key, ttl |-> t.ttl, ip |-> Garbage,
                       raced |-> FALSE]
           next == CASE b.sender \in sessions[n] -> job("address")
                     [] b.sender \notin sessions[n] /\ b.cert -> job("add")
                     [] OTHER -> None
<1>1. /\ tasks[n] # << >>
      /\ tasks' = [tasks EXCEPT ![n] = Tail(@)]
      /\ ~t.send
      /\ b.hello
      /\ hand' = [hand EXCEPT ![n][w] = next]
      /\ UNCHANGED <<net, slot, cache, sessions, routes, greeting, injected,
                     seen, passed, heard>>
  BY DEF HelloBegins, Handles, Takes, historyVars
<1>2. t \in GoodTask(n)
  BY <1>1, HeadGood
<1>3. t \in Task /\ \E p \in Peer : <<t.key, p>> \in heard[n]
  BY <1>1, <1>2 DEF GoodTask
<1>4. \A pc \in {"add", "address"} :
         job(pc) \in Job /\ job(pc).pc = pc /\ Sender(job(pc)) = b.sender
  BY <1>3 DEF Job, Task, Address, Sender
<1>5. b.cert => b.sender \in Vouched(n)
  <2>1. PICK p \in Peer : <<t.key, p>> \in heard[n]
    BY <1>3
  <2>2. <<t.key, p>>[1] = t.key
    OBVIOUS
  <2> QED BY <1>1, <2>1, <2>2 DEF Vouched
<1>6. next \in Job \cup {None}
  BY <1>4
<1>7. next # None =>
        IF next.pc = "add" THEN Sender(next) \in Vouched(n)
                           ELSE Sender(next) \in sessions[n]
  BY <1>4, <1>5
<1> HIDE DEF next, t, b
<1>8. ServerTyped'
  BY <1>1, <1>6 DEF ServerTyped
<1>9. NetInv' /\ CacheTyped' /\ TaskInv'
  BY <1>1, TakeInv DEF NetInv, CacheTyped
<1>10. \A o \in Node : Routed(o)' = Routed(o) /\ Vouched(o)' = Vouched(o)
  BY <1>1 DEF Routed, Vouched
<1>11. RoutesVerified'
  BY <1>1, <1>10 DEF RoutesVerified
<1>12. HandInv'
  <2> SUFFICES ASSUME NEW o \in Node, NEW v \in Worker PROVE HandJustified(o, v)'
    BY DEF HandInv
  <2>1. CASE o = n /\ v = w
    BY <1>1, <1>7, <1>10, <2>1 DEF ServerTyped, HandJustified, Sender
  <2>2. CASE ~(o = n /\ v = w)
    <3>1. hand'[o][v] = hand[o][v]
      BY <1>1, <2>2 DEF ServerTyped
    <3> QED BY <1>1, <1>10, <3>1 DEF HandInv, HandJustified, Sender
  <2> QED BY <2>1, <2>2
<1> QED BY <1>8, <1>9, <1>11, <1>12

\* A handler in progress moves on to a job of the same hello, or returns, while
\* the pool of sessions only grows.
LEMMA HandMoves ==
  ASSUME ServerTyped, HandInv, NEW n \in Node, NEW w \in Worker,
         NEW j \in Job \cup {None},
         hand' = [hand EXCEPT ![n][w] = j],
         j # None => j.pc # "add" /\ Sender(j) \in sessions'[n],
         UNCHANGED heard,
         \A o \in Node : sessions[o] \subseteq sessions'[o]
  PROVE  HandInv'
<1> SUFFICES ASSUME NEW o \in Node, NEW v \in Worker PROVE HandJustified(o, v)'
  BY DEF HandInv
<1>1. Vouched(o)' = Vouched(o)
  BY DEF Vouched
<1>2. CASE o = n /\ v = w
  BY <1>2 DEF ServerTyped, HandJustified, Sender
<1>3. CASE ~(o = n /\ v = w)
  <2>1. hand'[o][v] = hand[o][v]
    BY <1>3 DEF ServerTyped
  <2> QED BY <1>1, <2>1 DEF HandInv, HandJustified, Sender
<1> QED BY <1>2, <1>3

\* What a worker in the hello handler holds.
LEMMA HandHolds ==
  ASSUME ServerTyped, HandInv, NEW n \in Node, NEW w \in Worker, hand[n][w] # None
  PROVE  /\ hand[n][w] \in Job
         /\ Sender(hand[n][w]) \in Peer
         /\ hand[n][w].pc # "add" => Sender(hand[n][w]) \in sessions[n]
         /\ hand[n][w].pc = "add" => Sender(hand[n][w]) \in Vouched(n)
<1>1. hand[n][w] \in Job
  BY DEF ServerTyped
<1>2. Sender(hand[n][w]) \in Peer
  BY <1>1, BodyAssumption DEF Job, Sender, BodyType
<1> QED BY <1>1, <1>2 DEF HandInv, HandJustified

\* The steps of the hello handler after its first.
LEMMA AddInstanceInv ==
  ASSUME IInv, NEW n \in Node, NEW w \in Worker, AddInstance(n, w)
  PROVE  IInv'
<1> USE DEF IInv
<1> DEFINE j == hand[n][w]
           next == [j EXCEPT !.pc = "address"]
<1>1. /\ j # None
      /\ j.pc = "add"
      /\ sessions' = [sessions EXCEPT ![n] = @ \cup {Sender(j)}]
      /\ hand' = [hand EXCEPT ![n][w] = next]
      /\ UNCHANGED <<net, slot, cache, tasks, routes, greeting, injected,
                     seen, passed, heard>>
  BY DEF AddInstance, At, Advance, historyVars
<1>2. j \in Job /\ Sender(j) \in Peer /\ Sender(j) \in Vouched(n)
  BY <1>1, HandHolds
<1>3. next \in Job /\ next.pc = "address" /\ Sender(next) = Sender(j)
  BY <1>2 DEF Job, Sender
<1> HIDE DEF next, j
<1>4. ServerTyped'
  BY <1>1, <1>2, <1>3 DEF ServerTyped
<1>5. NetInv' /\ CacheTyped' /\ TaskInv'
  BY <1>1 DEF NetInv, CacheTyped, TaskInv, GoodTask
<1>6. /\ \A o \in Node : sessions[o] \subseteq sessions'[o]
      /\ Sender(j) \in sessions'[n]
  BY <1>1 DEF ServerTyped
<1>7. HandInv'
  BY <1>1, <1>3, <1>6, HandMoves
<1>8. RoutesVerified'
  <2>1. \A o \in Node : Routed(o)' = Routed(o) /\ Vouched(o)' = Vouched(o)
    BY <1>1 DEF Routed, Vouched
  <2> QED BY <1>1, <1>2, <2>1 DEF RoutesVerified, ServerTyped
<1> QED BY <1>4, <1>5, <1>7, <1>8

LEMMA ReadAddressInv ==
  ASSUME IInv, NEW n \in Node, NEW w \in Worker, ReadAddress(n, w)
  PROVE  IInv'
<1> USE DEF IInv
<1> DEFINE j == hand[n][w]
           next(ip, call) == [j EXCEPT !.ip = ip, !.pc = call]
<1>1. /\ j # None
      /\ j.pc = "address"
      /\ UNCHANGED <<net, slot, cache, tasks, sessions, routes, greeting, injected,
                     seen, passed, heard>>
  BY DEF ReadAddress, At, historyVars
<1>2. PICK ip \in {slot[n], Garbage}, call \in {"update", "insert"} :
        hand' = [hand EXCEPT ![n][w] = next(ip, call)]
  BY DEF ReadAddress
<1>3. j \in Job /\ Sender(j) \in sessions[n]
  BY <1>1, HandHolds
<1>4. ip \in Address
  BY <1>2 DEF ServerTyped, Address
<1>5. /\ next(ip, call) \in Job
      /\ next(ip, call).pc # "add" /\ Sender(next(ip, call)) = Sender(j)
  BY <1>3, <1>4 DEF Job, Sender
<1> HIDE DEF next, j
<1>6. ServerTyped'
  BY <1>1, <1>2, <1>5 DEF ServerTyped
<1>7. NetInv' /\ CacheTyped' /\ TaskInv'
  BY <1>1 DEF NetInv, CacheTyped, TaskInv, GoodTask
<1>8. HandInv'
  BY <1>1, <1>2, <1>3, <1>5, HandMoves
<1>9. RoutesVerified'
  BY <1>1 DEF RoutesVerified, Routed, Vouched
<1> QED BY <1>6, <1>7, <1>8, <1>9

\* A handler that is to update finishes with the table, and one that is to add
\* finds the route there.
LEMMA UpdateInv ==
  ASSUME IInv, NEW n \in Node, NEW w \in Worker,
         UpdateRoute(n, w) \/ UpdateRefused(n, w) \/ RouteExists(n, w)
  PROVE  IInv'
<1> USE DEF IInv
<1> DEFINE j == hand[n][w]
           new == [ip |-> j.ip, ttl |-> j.ttl]
<1>1. /\ j # None
      /\ j.pc \in {"update", "insert"}
      /\ UNCHANGED <<net, slot, cache, tasks, sessions, greeting, injected,
                     seen, passed, heard>>
  BY DEF UpdateRoute, UpdateRefused, RouteExists, At, historyVars
<1>2. j \in Job /\ Sender(j) \in Peer /\ Sender(j) \in sessions[n]
  BY <1>1, HandHolds
<1>3. PICK r \in {new, routes[n][Sender(j)]} :
        routes' = [routes EXCEPT ![n][Sender(j)] = r]
  <2>1. CASE UpdateRoute(n, w)
    BY <2>1 DEF UpdateRoute
  <2>2. CASE UpdateRefused(n, w) \/ RouteExists(n, w)
    <3>1. routes' = routes
      BY <2>2 DEF UpdateRefused, RouteExists
    <3>2. routes = [routes EXCEPT ![n][Sender(j)] = routes[n][Sender(j)]]
      BY <1>2 DEF ServerTyped
    <3> QED BY <3>1, <3>2
  <2> QED BY <2>1, <2>2
<1>4. PICK next \in {None, [j EXCEPT !.pc = "reply"]} :
        hand' = [hand EXCEPT ![n][w] = next]
  BY DEF UpdateRoute, UpdateRefused, RouteExists, Advance, Return
<1>5. new \in Route
  BY <1>2 DEF Job, Route
<1>6. /\ next \in Job \cup {None}
      /\ next # None => next.pc # "add" /\ Sender(next) = Sender(j)
  BY <1>2, <1>4 DEF Job, Sender
<1> HIDE DEF j, new
<1>7. ServerTyped'
  BY <1>1, <1>2, <1>3, <1>4, <1>5, <1>6 DEF ServerTyped
<1>8. NetInv' /\ CacheTyped' /\ TaskInv'
  BY <1>1 DEF NetInv, CacheTyped, TaskInv, GoodTask
<1>9. HandInv'
  BY <1>1, <1>2, <1>4, <1>6, HandMoves
<1>10. RoutesVerified'
  <2>1. \A o \in Node : Vouched(o)' = Vouched(o)
    BY <1>1 DEF Vouched
  <2>2. \A o \in Node : Routed(o)' \subseteq sessions[o]
    BY <1>2, <1>3 DEF RoutesVerified, Routed, ServerTyped
  <2> QED BY <1>1, <2>1, <2>2 DEF RoutesVerified
<1> QED BY <1>7, <1>8, <1>9, <1>10

\* Starting to insert changes the places and the marks of insertions only.
LEMMA InsertBeginsInv ==
  ASSUME IInv, NEW n \in Node, NEW w \in Worker, InsertBegins(n, w)
  PROVE  IInv'
<1> USE DEF IInv
<1> DEFINE moved(v) ==
             IF v = w
               THEN [hand[n][w] EXCEPT !.pc = "inserting", !.raced = Inserting(n) # {}]
             ELSE IF v \in Inserting(n) THEN [hand[n][v] EXCEPT !.raced = TRUE]
             ELSE hand[n][v]
<1>1. /\ hand[n][w] # None
      /\ hand[n][w].pc = "insert"
      /\ hand' = [hand EXCEPT ![n] = [v \in Worker |-> moved(v)]]
      /\ UNCHANGED <<net, slot, cache, tasks, sessions, routes, greeting, injected,
                     seen, passed, heard>>
  BY DEF InsertBegins, At, historyVars
<1>2. ASSUME NEW v \in Worker
      PROVE  /\ moved(v) \in Job \cup {None}
             /\ moved(v) # None =>
                  IF moved(v).pc = "add" THEN Sender(moved(v)) \in Vouched(n)
                                         ELSE Sender(moved(v)) \in sessions[n]
  <2>1. CASE v = w
    <3>1. hand[n][w] \in Job /\ Sender(hand[n][w]) \in sessions[n]
      BY <1>1, HandHolds
    <3>2. /\ moved(v) \in Job /\ moved(v).pc = "inserting"
          /\ Sender(moved(v)) = Sender(hand[n][w])
      BY <2>1, <3>1 DEF Job, Sender
    <3> QED BY <3>1, <3>2
  <2>2. CASE v # w /\ v \in Inserting(n)
    <3>1. hand[n][v] # None /\ hand[n][v].pc = "inserting"
      BY <2>2 DEF Inserting, At
    <3>2. hand[n][v] \in Job /\ Sender(hand[n][v]) \in sessions[n]
      BY <3>1, HandHolds
    <3>3. /\ moved(v) \in Job /\ moved(v).pc = "inserting"
          /\ Sender(moved(v)) = Sender(hand[n][v])
      BY <2>2, <3>1, <3>2 DEF Job, Sender
    <3> QED BY <3>2, <3>3
  <2>3. CASE v # w /\ v \notin Inserting(n)
    <3>1. moved(v) = hand[n][v]
      BY <2>3
    <3>2. hand[n][v] \in Job \cup {None}
      BY DEF ServerTyped
    <3> HIDE DEF moved
    <3> QED BY <3>1, <3>2 DEF HandInv, HandJustified
  <2> QED BY <2>1, <2>2, <2>3
<1> HIDE DEF moved
<1>3. ServerTyped'
  BY <1>1, <1>2 DEF ServerTyped
<1>4. NetInv' /\ CacheTyped' /\ TaskInv'
  BY <1>1 DEF NetInv, CacheTyped, TaskInv, GoodTask
<1>5. \A o \in Node : Routed(o)' = Routed(o) /\ Vouched(o)' = Vouched(o)
  BY <1>1 DEF Routed, Vouched
<1>6. RoutesVerified'
  BY <1>1, <1>5 DEF RoutesVerified
<1>7. HandInv'
  <2> SUFFICES ASSUME NEW o \in Node, NEW v \in Worker PROVE HandJustified(o, v)'
    BY DEF HandInv
  <2>1. CASE o = n
    <3>1. hand'[o][v] = moved(v)
      BY <1>1, <2>1 DEF ServerTyped
    <3> QED BY <1>1, <1>2, <1>5, <2>1, <3>1 DEF HandJustified, Sender
  <2>2. CASE o # n
    <3>1. hand'[o][v] = hand[o][v]
      BY <1>1, <2>2 DEF ServerTyped
    <3> QED BY <1>1, <1>5, <3>1 DEF HandInv, HandJustified, Sender
  <2> QED BY <2>1, <2>2
<1> QED BY <1>3, <1>4, <1>6, <1>7

\* The end of an insertion adds the route of a peer with a session, and may
\* lose others.
LEMMA InsertEndsInv ==
  ASSUME IInv, NEW n \in Node, NEW w \in Worker, InsertEnds(n, w)
  PROVE  IInv'
<1> USE DEF IInv
<1> DEFINE j == hand[n][w]
           new == [ip |-> j.ip, ttl |-> j.ttl]
           left(lost) == [p \in Peer |->
                            CASE p \in lost -> None
                              [] p \notin lost /\ p = Sender(j) /\ routes[n][p] = None -> new
                              [] OTHER -> routes[n][p]]
<1>1. /\ j # None
      /\ j.pc = "inserting"
      /\ hand' = [hand EXCEPT ![n][w] = None]
      /\ UNCHANGED <<net, slot, cache, tasks, sessions, greeting, injected,
                     seen, passed, heard>>
  BY DEF InsertEnds, At, Return, historyVars
<1>2. PICK lost \in SUBSET Peer : routes' = [routes EXCEPT ![n] = left(lost)]
  BY DEF InsertEnds
<1>3. j \in Job /\ Sender(j) \in Peer /\ Sender(j) \in sessions[n]
  BY <1>1, HandHolds
<1>4. new \in Route
  BY <1>3 DEF Job, Route
<1>5. \A p \in Peer : left(lost)[p] \in {None, routes[n][p]} \cup
                                       (IF p = Sender(j) THEN {new} ELSE {})
  OBVIOUS
<1>6. left(lost) = [p \in Peer |-> left(lost)[p]]
  OBVIOUS
<1> HIDE DEF j, new, left
<1>7. left(lost) \in [Peer -> Route \cup {None}]
  BY <1>4, <1>5, <1>6 DEF ServerTyped
<1>8. ServerTyped'
  BY <1>1, <1>2, <1>7 DEF ServerTyped
<1>9. NetInv' /\ CacheTyped' /\ TaskInv'
  BY <1>1 DEF NetInv, CacheTyped, TaskInv, GoodTask
<1>10. HandInv'
  BY <1>1, HandMoves
<1>11. RoutesVerified'
  <2>1. \A o \in Node : Vouched(o)' = Vouched(o)
    BY <1>1 DEF Vouched
  <2>2. /\ routes'[n] = left(lost)
        /\ \A o \in Node \ {n} : routes'[o] = routes[o]
    BY <1>2 DEF ServerTyped
  <2>3. ASSUME NEW o \in Node, NEW p \in Peer, routes'[o][p] # None
        PROVE  p \in sessions[o]
    BY <1>3, <1>5, <2>2, <2>3 DEF RoutesVerified, Routed
  <2> QED BY <1>1, <2>1, <2>3 DEF RoutesVerified, Routed
<1> QED BY <1>8, <1>9, <1>10, <1>11

LEMMA ReplyInv ==
  ASSUME IInv, NEW n \in Node, NEW w \in Worker, Reply(n, w)
  PROVE  IInv'
<1> USE DEF IInv
<1>1. /\ hand[n][w] # None
      /\ hand' = [hand EXCEPT ![n][w] = None]
      /\ SendPkg(n, Sender(hand[n][w]), hand[n][w].ip)
      /\ UNCHANGED <<net, slot, cache, sessions, routes, greeting, injected,
                     seen, passed, heard>>
  BY DEF Reply, At, Return, historyVars
<1>2. Sender(hand[n][w]) \in Peer /\ hand[n][w].ip \in Address
  BY <1>1, HandHolds DEF Job
<1>3. ServerTyped'
  BY <1>1, <1>2 DEF ServerTyped
<1>4. NetInv' /\ CacheTyped'
  BY <1>1 DEF NetInv, CacheTyped
<1>5. TaskInv'
  BY <1>1, <1>2, SendPkgInv
<1>6. HandInv'
  BY <1>1, HandMoves
<1>7. RoutesVerified'
  BY <1>1 DEF RoutesVerified, Routed, Vouched
<1> QED BY <1>3, <1>4, <1>5, <1>6, <1>7

-----------------------------------------------------------------------------
LEMMA NextIInv == IInv /\ [Next]_vars => IInv'
<1> SUFFICES ASSUME IInv, [Next]_vars PROVE IInv'
  OBVIOUS
<1>1. CASE UNCHANGED vars
  BY <1>1 DEF vars, serverVars, historyVars, IInv, NetInv, ServerTyped, CacheTyped,
              TaskInv, GoodTask, RoutesVerified, HandInv, HandJustified, Routed,
              Vouched, Sender
<1>2. CASE Next
  <2>1. PICK n \in Node :
          \/ \E p \in Peer : Greet(n, p)
          \/ \E p \in Outsider, k \in Key, ttl \in Ttl : Inject(n, p, k, ttl)
          \/ \E m \in DOMAIN net : ListenerStep(n, m)
          \/ \E w \in Worker : WorkerStep(n, w)
    BY <1>2 DEF Next
  <2>2. ASSUME NEW w \in Worker, WorkerStep(n, w) PROVE IInv'
    BY <2>2, SendInv, HelloBeginsInv, AddInstanceInv, ReadAddressInv,
       UpdateInv, InsertBeginsInv, InsertEndsInv, ReplyInv DEF WorkerStep
  <2> QED BY <2>1, <2>2, GreetInv, InjectInv, ListenerInv
<1> QED BY <1>1, <1>2

\* The types of the packet server's state, over any run (p2p_server_context.cc,
\* hello_message.tcc): every queue entry, route and handler is well formed.
THEOREM ServerTypeCorrect == Spec => []TypeOK
<1>1. Spec => []IInv
  BY InitIInv, NextIInv, PTL DEF Spec
<1> QED BY <1>1, IInvSuffices, PTL

\* In every network, whatever loops its routes form and whatever the caches
\* have forgotten, a packet dies after at most as many hops as the TTL it was
\* sent with, and its TTL never wraps (p2p_server_context.cc:256, packet_tasks.cc:33).
THEOREM PacketsDie == Spec => []HopsBounded
<1>1. Spec => []IInv
  BY InitIInv, NextIInv, PTL DEF Spec
<1> QED BY <1>1, IInvSuffices, PTL

\* However many workers handle hellos at once, only peers with a session have
\* a route and only verified certificates make a session
\* (hello_message.tcc:32-74).
THEOREM OnlyVerifiedPeers == Spec => []RoutesVerified
<1>1. Spec => []IInv
  BY InitIInv, NextIInv, PTL DEF Spec
<1> QED BY <1>1, IInvSuffices, PTL

\* However the handlers interleave, no step exchanges a route for one with a
\* larger TTL, and the only step that loses a route is the end of an insertion
\* that overlapped another one (hello_message.tcc:64-74, routing_table.h:43-84).
THEOREM RoutesImprove == Spec => RoutesOnlyImprove
<1> DEFINE A == \A n \in Node : \A p \in Routed(n) :
                  \/ routes'[n][p] = routes[n][p]
                  \/ routes'[n][p] # None /\ routes'[n][p].ttl < routes[n][p].ttl
                  \/ routes'[n][p] = None /\ RacedInsertEnds(n)
<1>1. ASSUME IInv, [Next]_vars PROVE [A]_vars
  <2>1. CASE UNCHANGED routes
    BY <2>1
  <2>2. ASSUME NEW n \in Node, NEW w \in Worker, UpdateRoute(n, w)
        PROVE  A
    <3> DEFINE j == hand[n][w]
               r == [ip |-> j.ip, ttl |-> j.ttl]
    <3>1. j \in Job /\ Sender(j) \in Peer
      BY <2>2, <1>1, HandHolds DEF UpdateRoute, At, IInv
    <3>2. /\ routes' = [routes EXCEPT ![n][Sender(j)] = r]
          /\ routes[n][Sender(j)].ttl > j.ttl
      BY <2>2 DEF UpdateRoute
    <3>3. r \in Route /\ r # None /\ r.ttl = j.ttl
      BY <3>1, NoneAssumption DEF Job, Route
    <3>4. routes \in [Node -> [Peer -> Route \cup {None}]]
      BY <1>1 DEF IInv, ServerTyped
    <3> HIDE DEF j, r
    <3> SUFFICES ASSUME NEW o \in Node, NEW p \in Routed(o)
                 PROVE  \/ routes'[o][p] = routes[o][p]
                        \/ routes'[o][p] # None /\ routes'[o][p].ttl < routes[o][p].ttl
      OBVIOUS
    <3>5. p \in Peer /\ routes[o][p] \in Route
      BY <3>4 DEF Routed
    <3>6. CASE o = n /\ p = Sender(j)
      <4>1. routes'[o][p] = r
        BY <3>2, <3>4, <3>5, <3>6
      <4>2. routes[o][p].ttl \in Nat /\ r.ttl \in Nat
        BY <3>3, <3>5, TtlAssumption DEF Route, Ttl
      <4> QED BY <3>2, <3>3, <3>6, <4>1, <4>2
    <3>7. CASE ~(o = n /\ p = Sender(j))
      BY <3>2, <3>4, <3>5, <3>7
    <3> QED BY <3>6, <3>7
  <2>3. ASSUME NEW n \in Node, NEW w \in Worker, InsertEnds(n, w)
        PROVE  A
    <3> DEFINE j == hand[n][w]
               left(lost) == [p \in Peer |->
                                CASE p \in lost -> None
                                  [] p \notin lost /\ p = Sender(j) /\ routes[n][p] = None ->
                                       [ip |-> j.ip, ttl |-> j.ttl]
                                  [] OTHER -> routes[n][p]]
    <3>1. routes \in [Node -> [Peer -> Route \cup {None}]]
      BY <1>1 DEF IInv, ServerTyped
    <3>2. PICK lost \in (IF j.raced THEN SUBSET Peer ELSE {{}}) :
            routes' = [routes EXCEPT ![n] = left(lost)]
      BY <2>3 DEF InsertEnds
    <3>3. /\ At(n, w, "inserting")
          /\ hand' = [hand EXCEPT ![n][w] = None]
      BY <2>3 DEF InsertEnds, Return
    <3>4. hand'[n][w] = None
      BY <1>1, <3>3 DEF IInv, ServerTyped
    <3>5. ASSUME NEW p \in Routed(n), left(lost)[p] # routes[n][p]
          PROVE  p \in lost /\ left(lost)[p] = None
      BY <3>5 DEF Routed
    <3>6. ASSUME NEW p \in Routed(n), left(lost)[p] # routes[n][p]
          PROVE  left(lost)[p] = None /\ RacedInsertEnds(n)
      BY <3>2, <3>3, <3>4, <3>5, <3>6 DEF RacedInsertEnds
    <3> HIDE DEF left
    <3>7. routes'[n] = left(lost) /\ \A o \in Node \ {n} : routes'[o] = routes[o]
      BY <3>1, <3>2
    <3> QED BY <3>6, <3>7
  <2>4. CASE Next
    <3>1. PICK n \in Node :
            \/ \E p \in Peer : Greet(n, p)
            \/ \E p \in Outsider, k \in Key, ttl \in Ttl : Inject(n, p, k, ttl)
            \/ \E m \in DOMAIN net : ListenerStep(n, m)
            \/ \E w \in Worker : WorkerStep(n, w)
      BY <2>4 DEF Next
    <3>2. (\E p \in Peer : Greet(n, p)) => UNCHANGED routes
      BY DEF Greet
    <3>3. (\E p \in Outsider, k \in Key, ttl \in Ttl : Inject(n, p, k, ttl))
            => UNCHANGED routes
      BY DEF Inject, serverVars
    <3>4. (\E m \in DOMAIN net : ListenerStep(n, m)) => UNCHANGED routes
      BY DEF ListenerStep, Accept, Abandon, Disconnect, Redirect, Broadcast, Deliver, serverVars
    <3>5. ASSUME NEW w \in Worker, WorkerStep(n, w) PROVE [A]_vars
      <4>1. CASE UpdateRoute(n, w)
        BY <2>2, <4>1
      <4>2. CASE InsertEnds(n, w)
        BY <2>3, <4>2
      <4>3. CASE \/ Send(n, w) \/ SendFails(n, w) \/ HandleOther(n, w)
                 \/ HelloBegins(n, w) \/ AddInstance(n, w) \/ ReadAddress(n, w)
                 \/ UpdateRefused(n, w) \/ Reply(n, w) \/ RouteExists(n, w)
                 \/ InsertBegins(n, w)
        <5>1. UNCHANGED routes
          BY <4>3 DEF Send, SendFails, HandleOther, HelloBegins, AddInstance,
                      ReadAddress, UpdateRefused, Reply, RouteExists, InsertBegins
        <5> QED BY <2>1, <5>1
      <4> QED BY <3>5, <4>1, <4>2, <4>3 DEF WorkerStep
    <3> QED BY <2>1, <3>1, <3>2, <3>3, <3>4, <3>5
  <2>5. CASE UNCHANGED vars
    BY <2>5
  <2> QED BY <1>1, <2>4, <2>5
<1>2. Spec => []IInv
  BY InitIInv, NextIInv, PTL DEF Spec
<1> QED BY <1>1, <1>2, PTL DEF Spec, RoutesOnlyImprove

-----------------------------------------------------------------------------
(* A signature passes once per window of the cache.                         *)

\* What a signature's passes have cost: a window of CacheSize + 1 each.
Cost(n, k) == seen[n][k] * (CacheSize + 1)

\* The list and the set of a cache agree on every signature but the empty one.
Consistent(c) ==
  \A k \in Key \ {Blank} :
    /\ \A i, j \in 1..CacheSize : c.list[i] = k /\ c.list[j] = k => i = j
    /\ k \in c.map <=> \E i \in 1..CacheSize : c.list[i] = k

\* The passes of a node cover that cost, but for the places a signature still
\* has to move up in the list.
PassesPaid ==
  \A n \in Node :
    /\ Consistent(cache[n])
    /\ \A k \in Key \ {Blank} :
         /\ k \notin cache[n].map => Cost(n, k) <= passed[n]
         /\ \A i \in 1..CacheSize : cache[n].list[i] = k => Cost(n, k) <= passed[n] + i

\* A miss moves the list up by one place (fifo_cache.h:31-39).
LEMMA RememberMoves ==
  ASSUME NEW c \in [list : Seq(Key \cup {Blank}), map : SUBSET Key],
         Len(c.list) = CacheSize, NEW k \in Key
  PROVE  /\ \A i \in 1..CacheSize :
              Remember(c, k).list[i] = IF i = CacheSize THEN k ELSE c.list[i + 1]
         /\ Remember(c, k).map = (c.map \ {c.list[1]}) \cup {k}
<1> DEFINE room == EvictFirst(c)
<1>1. CacheSize \in Nat /\ CacheSize >= 1
  BY CacheSizeAssumption
<1>2. room.list = Tail(c.list) /\ room.map = c.map \ {c.list[1]}
  BY <1>1 DEF EvictFirst
<1>3. /\ room.list \in Seq(Key \cup {Blank}) /\ Len(room.list) = CacheSize - 1
      /\ \A i \in 1..(CacheSize - 1) : room.list[i] = c.list[i + 1]
  BY <1>1, <1>2
<1>4. Remember(c, k) = [list |-> Append(room.list, k), map |-> room.map \cup {k}]
  BY DEF Remember
<1> HIDE DEF room
<1> QED BY <1>1, <1>2, <1>3, <1>4

\* So list and set keep agreeing (fifo_cache.h:31-39).
LEMMA RememberConsistent ==
  ASSUME NEW c, NEW d, NEW k \in Key, Consistent(c), k \notin c.map,
         \A i \in 1..CacheSize : d.list[i] = IF i = CacheSize THEN k ELSE c.list[i + 1],
         d.map = (c.map \ {c.list[1]}) \cup {k}
  PROVE  Consistent(d)
<1>1. CacheSize \in Nat /\ CacheSize >= 1
  BY CacheSizeAssumption
<1>2. \A i \in 1..CacheSize :
        i = CacheSize \/ (i + 1 \in 1..CacheSize /\ i + 1 # 1 /\ d.list[i] = c.list[i + 1])
  BY <1>1
<1>3. d.list[CacheSize] = k
  BY <1>1
<1>4. \A i \in 1..CacheSize : i # 1 => i - 1 \in 1..CacheSize /\ d.list[i - 1] = c.list[i]
  <2> SUFFICES ASSUME NEW i \in 1..CacheSize, i # 1
               PROVE  i - 1 \in 1..CacheSize /\ d.list[i - 1] = c.list[i]
    OBVIOUS
  <2>1. i - 1 \in 1..CacheSize /\ i - 1 # CacheSize /\ (i - 1) + 1 = i
    BY <1>1
  <2> QED BY <2>1
<1> SUFFICES ASSUME NEW q \in Key \ {Blank}
             PROVE  /\ \A i, j \in 1..CacheSize : d.list[i] = q /\ d.list[j] = q => i = j
                    /\ q \in d.map <=> \E i \in 1..CacheSize : d.list[i] = q
  BY DEF Consistent
<1>5. /\ \A i, j \in 1..CacheSize : c.list[i] = q /\ c.list[j] = q => i = j
      /\ q \in c.map <=> \E i \in 1..CacheSize : c.list[i] = q
  BY DEF Consistent
<1>6. CASE q = k
  <2>1. \A i \in 1..CacheSize : d.list[i] = q => i = CacheSize
    BY <1>2, <1>5, <1>6
  <2>2. CacheSize \in 1..CacheSize
    BY <1>1
  <2> QED BY <1>3, <1>6, <2>1, <2>2
<1>7. CASE q # k
  <2>1. \A i \in 1..CacheSize :
          d.list[i] = q => i + 1 \in 1..CacheSize /\ i + 1 # 1 /\ c.list[i + 1] = q
    BY <1>2, <1>3, <1>7
  <2>2. ASSUME NEW i \in 1..CacheSize, NEW j \in 1..CacheSize,
               d.list[i] = q, d.list[j] = q
        PROVE  i = j
    <3>1. i + 1 = j + 1
      BY <1>5, <2>1, <2>2
    <3> QED BY <3>1
  <2>3. ASSUME q \in d.map PROVE \E i \in 1..CacheSize : d.list[i] = q
    <3>1. q \in c.map /\ q # c.list[1]
      BY <1>7, <2>3
    <3>2. PICK i \in 1..CacheSize : c.list[i] = q
      BY <1>5, <3>1
    <3>3. i # 1
      BY <3>1, <3>2
    <3> QED BY <1>4, <3>2, <3>3
  <2>4. ASSUME NEW i \in 1..CacheSize, d.list[i] = q PROVE q \in d.map
    <3>1. i + 1 \in 1..CacheSize /\ i + 1 # 1 /\ c.list[i + 1] = q
      BY <2>1, <2>4
    <3>2. 1 \in 1..CacheSize
      BY <1>1
    <3>3. c.list[1] # q
      BY <1>5, <3>1, <3>2
    <3> QED BY <1>5, <3>1, <3>3
  <2> QED BY <2>2, <2>3, <2>4
<1> QED BY <1>6, <1>7

\* One more pass costs one more window.
LEMMA OneMoreWindow ==
  ASSUME NEW s \in Nat
  PROVE  /\ s * (CacheSize + 1) \in Nat
         /\ (s + 1) * (CacheSize + 1) = s * (CacheSize + 1) + CacheSize + 1
BY CacheSizeAssumption

\* Only read_callback changes what a node has let through.
LEMMA OnlyReads ==
  ASSUME Next
  PROVE  UNCHANGED <<cache, seen, passed>> \/ \E n \in Node, m \in DOMAIN net : Reads(n, m)
<1>1. PICK n \in Node :
        \/ \E p \in Peer : Greet(n, p)
        \/ \E p \in Outsider, k \in Key, ttl \in Ttl : Inject(n, p, k, ttl)
        \/ \E m \in DOMAIN net : ListenerStep(n, m)
        \/ \E w \in Worker : WorkerStep(n, w)
  BY DEF Next
<1> USE DEF serverVars, historyVars
<1>2. (\E p \in Peer : Greet(n, p)) => UNCHANGED <<cache, seen, passed>>
  BY DEF Greet
<1>3. (\E p \in Outsider, k \in Key, ttl \in Ttl : Inject(n, p, k, ttl))
         => UNCHANGED <<cache, seen, passed>>
  BY DEF Inject
<1>4. ASSUME NEW m \in DOMAIN net, ListenerStep(n, m)
      PROVE  UNCHANGED <<cache, seen, passed>> \/ Reads(n, m)
  BY <1>4 DEF ListenerStep, Accept, Abandon, Disconnect, Redirect, Broadcast, Deliver
<1>5. ASSUME NEW w \in Worker, WorkerStep(n, w) PROVE UNCHANGED <<cache, seen, passed>>
  BY <1>5 DEF WorkerStep, Send, SendFails, HandleOther, HelloBegins, AddInstance,
              ReadAddress, UpdateRoute, UpdateRefused, Reply, RouteExists,
              InsertBegins, InsertEnds
<1> QED BY <1>1, <1>2, <1>3, <1>4, <1>5

LEMMA NextPaid == IInv /\ PassesPaid /\ [Next]_vars => PassesPaid'
<1> SUFFICES ASSUME IInv, PassesPaid, [Next]_vars PROVE PassesPaid'
  OBVIOUS
<1>1. CASE UNCHANGED <<cache, seen, passed>>
  BY <1>1 DEF PassesPaid, Consistent, Cost
<1>2. ASSUME NEW n \in Node, NEW m \in DOMAIN net, Reads(n, m)
      PROVE  PassesPaid'
  <2> DEFINE c == cache[n]
             d == Remember(cache[n], m.key)
  <2>1. m.key \in Key
    BY DEF IInv, NetInv, GoodPacket, Packet
  <2>2. /\ c \in [list : Seq(Key \cup {Blank}), map : SUBSET Key]
        /\ Len(c.list) = CacheSize
    BY DEF IInv, CacheTyped
  <2>3. Consistent(c) /\ m.key \notin c.map
    BY <1>2 DEF PassesPaid, Reads, IsCached
  <2>4. /\ \A i \in 1..CacheSize :
              d.list[i] = IF i = CacheSize THEN m.key ELSE c.list[i + 1]
        /\ d.map = (c.map \ {c.list[1]}) \cup {m.key}
    BY <2>1, <2>2, RememberMoves
  <2>5. /\ cache' = [cache EXCEPT ![n] = d]
        /\ seen' = [seen EXCEPT ![n][m.key] = @ + 1]
        /\ passed' = [passed EXCEPT ![n] = @ + 1]
    BY <1>2 DEF Reads
  <2> HIDE DEF d
  <2>6. Consistent(d)
    BY <2>1, <2>3, <2>4, RememberConsistent
  <2>7. /\ cache'[n] = d
        /\ passed'[n] = passed[n] + 1 /\ passed[n] \in Nat
        /\ \A o \in Node \ {n} : /\ cache'[o] = cache[o]
                                 /\ seen'[o] = seen[o]
                                 /\ passed'[o] = passed[o]
        /\ seen[n][m.key] \in Nat /\ seen'[n][m.key] = seen[n][m.key] + 1
        /\ \A k \in Key \ {m.key} : seen'[n][k] = seen[n][k]
    BY <2>1, <2>5 DEF IInv, CacheTyped
  <2>8. CacheSize \in Nat /\ CacheSize >= 1
    BY CacheSizeAssumption
  <2>9. ASSUME NEW k \in Key \ {Blank}
        PROVE  /\ k \notin d.map => Cost(n, k)' <= passed[n] + 1
               /\ \A i \in 1..CacheSize : d.list[i] = k => Cost(n, k)' <= passed[n] + 1 + i
    <3> DEFINE old == Cost(n, k)
    <3>1. /\ k \notin c.map => old <= passed[n]
          /\ \A i \in 1..CacheSize : c.list[i] = k => old <= passed[n] + i
          /\ k \in c.map <=> \E i \in 1..CacheSize : c.list[i] = k
      BY DEF PassesPaid, Consistent
    <3>2. old \in Nat
      BY OneMoreWindow DEF Cost, IInv, CacheTyped
    <3>3. CASE k = m.key
      <4>1. Cost(n, k)' = old + CacheSize + 1
        BY <2>7, <3>3, OneMoreWindow DEF Cost
      <4>2. old <= passed[n]
        BY <2>3, <3>1, <3>3
      <4>3. k \in d.map
        BY <2>4, <3>3
      <4>4. \A i \in 1..CacheSize : d.list[i] = k => i = CacheSize
        <5> SUFFICES ASSUME NEW i \in 1..CacheSize, d.list[i] = k, i # CacheSize
                     PROVE  FALSE
          OBVIOUS
        <5>1. i + 1 \in 1..CacheSize /\ c.list[i + 1] = k
          BY <2>4, <2>8
        <5> QED BY <5>1, <2>3, <3>1, <3>3
      <4> HIDE DEF old
      <4>5. old + CacheSize + 1 <= passed[n] + 1 + CacheSize
        BY <4>2, <3>2, <2>7, <2>8
      <4> QED BY <4>1, <4>3, <4>4, <4>5
    <3>4. CASE k # m.key
      <4>1. Cost(n, k)' = old
        BY <2>7, <3>4 DEF Cost
      <4> HIDE DEF old
      <4>2. ASSUME k \notin d.map PROVE old <= passed[n] + 1
        <5>1. CASE k \notin c.map
          BY <5>1, <3>1, <3>2, <2>7
        <5>2. CASE k \in c.map
          <6>1. c.list[1] = k
            BY <4>2, <5>2, <2>4
          <6>2. 1 \in 1..CacheSize
            BY <2>8
          <6> QED BY <6>1, <6>2, <3>1
        <5> QED BY <5>1, <5>2
      <4>3. ASSUME NEW i \in 1..CacheSize, d.list[i] = k
            PROVE  old <= passed[n] + 1 + i
        <5>1. i + 1 \in 1..CacheSize /\ c.list[i + 1] = k
          BY <4>3, <3>4, <2>4, <2>8
        <5>2. old <= passed[n] + (i + 1)
          BY <5>1, <3>1
        <5> QED BY <5>2, <3>2, <2>7
      <4> QED BY <4>1, <4>2, <4>3
    <3> QED BY <3>3, <3>4
  <2>10. ASSUME NEW o \in Node \ {n}, NEW k \in Key PROVE Cost(o, k)' = Cost(o, k)
    BY <2>7 DEF Cost
  <2> SUFFICES ASSUME NEW o \in Node
               PROVE  /\ Consistent(cache'[o])
                      /\ \A k \in Key \ {Blank} :
                           /\ k \notin cache'[o].map => Cost(o, k)' <= passed'[o]
                           /\ \A i \in 1..CacheSize :
                                cache'[o].list[i] = k => Cost(o, k)' <= passed'[o] + i
    BY DEF PassesPaid, Consistent
  <2>11. CASE o = n
    BY <2>6, <2>7, <2>9, <2>11
  <2>12. CASE o # n
    BY <2>7, <2>10, <2>12 DEF PassesPaid
  <2> QED BY <2>11, <2>12
<1> QED BY <1>1, <1>2, OnlyReads DEF vars, serverVars, historyVars

\* In every network, for every cache size and whatever comes back, a node lets a
\* signature through at most once in CacheSize + 1 passes (p2p_server_context.cc:
\* 260, fifo_cache.h:27-44); the empty signature is the one exception.
THEOREM PacketsSeenOncePerWindow == Spec => []SeenOncePerWindow
<1>1. Init => PassesPaid
  <2> SUFFICES ASSUME Init, NEW n \in Node
               PROVE  /\ Consistent(cache[n])
                      /\ \A k \in Key \ {Blank} :
                           /\ Cost(n, k) <= passed[n]
                           /\ \A i \in 1..CacheSize : Cost(n, k) <= passed[n] + i
    BY DEF PassesPaid
  <2>1. /\ cache[n] = NewCache /\ passed[n] = 0
        /\ \A k \in Key : seen[n][k] = 0
    BY DEF Init
  <2>2. \A k \in Key : Cost(n, k) = 0
    <3>1. 0 * (CacheSize + 1) = 0
      BY CacheSizeAssumption
    <3> QED BY <2>1, <3>1 DEF Cost
  <2>3. Consistent(NewCache)
    BY DEF Consistent, NewCache
  <2> QED BY <2>1, <2>2, <2>3
<1>2. IInv /\ PassesPaid => SeenOncePerWindow
  <2> SUFFICES ASSUME IInv, PassesPaid, NEW n \in Node, NEW k \in Key \ {Blank}
               PROVE  Cost(n, k) <= passed[n] + CacheSize
    BY DEF SeenOncePerWindow, Cost
  <2>1. Cost(n, k) \in Nat /\ passed[n] \in Nat
    BY OneMoreWindow DEF Cost, IInv, CacheTyped
  <2>2. CacheSize \in Nat
    BY CacheSizeAssumption
  <2>3. CASE k \notin cache[n].map
    BY <2>1, <2>2, <2>3 DEF PassesPaid
  <2>4. CASE k \in cache[n].map
    <3>1. PICK i \in 1..CacheSize : cache[n].list[i] = k
      BY <2>4 DEF PassesPaid, Consistent
    <3>2. Cost(n, k) <= passed[n] + i
      BY <3>1 DEF PassesPaid
    <3> QED BY <2>1, <2>2, <3>1, <3>2
  <2> QED BY <2>3, <2>4
<1> QED BY <1>1, <1>2, InitIInv, NextIInv, NextPaid, PTL DEF Spec
=============================================================================
