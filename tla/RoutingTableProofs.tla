------------------------- MODULE RoutingTableProofs -------------------------
(****************************************************************************)
(* The routing table keeps whole routes, loses no update, never deadlocks   *)
(* and implements the atomic map of RouteStore, for every number of         *)
(* workers, peers and addresses, and although insertions race.              *)
(****************************************************************************)
EXTENDS RoutingTable, TLAPS

\* A worker inside the handler works on a route that was offered.
CallOffered == \A w \in Worker : pc[w] # "idle" => call[w] \in offers

\* The lock: insertions keep it shared, the two assignments keep it exclusive,
\* and the two exclude each other.
LockDiscipline ==
  /\ \A w \in Worker : pc[w] = "insert" <=> w \in readers
  /\ \A w \in Worker : pc[w] = "store" <=> writer = w
  /\ writer # None => readers = {}

\* The iterator that try_update_table keeps over the lock upgrade is live, and
\* between the assignments the entry is half way to the caller's route.
IteratorLive ==
  \A w \in Worker :
    /\ pc[w] \in {"upgrade", "store"} => table[call[w].dest] # None
    /\ pc[w] = "store" => /\ table[call[w].dest].ip = call[w].ip
                          /\ table[call[w].dest].ttl > call[w].ttl

\* WholeRoutes, also for the entries that the writer is not changing.
WholeUnlessWritten ==
  \A d \in Dest : table[d] # None =>
    \/ [dest |-> d, ip |-> table[d].ip, ttl |-> table[d].ttl] \in offers
    \/ writer # None /\ call[writer].dest = d

IInv == TypeOK /\ CallOffered /\ LockDiscipline /\ IteratorLive
        /\ WholeUnlessWritten /\ NoLostUpdate

LEMMA InitIInv == Init => IInv
BY BoundsAssumption, NoneAssumption
   DEF Init, IInv, TypeOK, CallOffered, LockDiscipline, IteratorLive,
       WholeUnlessWritten, NoLostUpdate

\* A worker in the handler has arguments, not the initial None.
LEMMA CallTyped ==
  ASSUME TypeOK, CallOffered, NEW w \in Worker, pc[w] # "idle"
  PROVE  /\ call[w] \in Call
         /\ call[w].dest \in Dest /\ call[w].ip \in Ip /\ call[w].ttl \in Ttl
<1>1. call[w] \in Call
  BY DEF TypeOK, CallOffered
<1> QED BY <1>1 DEF Call

\* A step that leaves table, lock and history alone, and moves one worker to a
\* place where the invariant asks nothing more of it.
LEMMA Moves ==
  ASSUME IInv, NEW w \in Worker, NEW label,
         label \in {"can_delivered", "add", "update", "idle", "upgrade"},
         pc[w] \notin {"insert", "store"},
         label = "upgrade" => table[call[w].dest] # None,
         label # "idle" => pc[w] # "idle",
         GoTo(w, label),
         UNCHANGED <<table, lock, call, calls, loop, offers>>,
         raced' \subseteq Worker,
         settled' \in [Dest -> 0..MaxTtl],
         \A d \in Dest : table[d] # None => table[d].ttl <= settled'[d]
  PROVE  IInv'
<1> USE DEF IInv, lock, loop, GoTo
<1>1. TypeOK'
  BY DEF TypeOK
<1>2. CallOffered'
  BY DEF CallOffered, TypeOK
<1>3. LockDiscipline'
  BY DEF LockDiscipline, TypeOK
<1>4. IteratorLive'
  BY DEF IteratorLive, TypeOK
<1>5. WholeUnlessWritten' /\ NoLostUpdate'
  BY DEF WholeUnlessWritten, NoLostUpdate
<1> QED BY <1>1, <1>2, <1>3, <1>4, <1>5

\* What settling does: the type is kept and only the entry of d goes down.
LEMMA Settles ==
  ASSUME TypeOK, NoLostUpdate, NEW d \in Dest, NEW t \in Ttl,
         table[d] # None => table[d].ttl <= t
  PROVE  /\ Settle(d, t) \in [Dest -> 0..MaxTtl]
         /\ \A e \in Dest : table[e] # None => table[e].ttl <= Settle(d, t)[e]
<1>1. t \in 0..MaxTtl
  BY BoundsAssumption DEF Ttl
<1> QED BY <1>1 DEF Settle, TypeOK, NoLostUpdate

LEMMA HelloIInv == ASSUME IInv, NEW w \in Worker, NEW c \in Call, Hello(w, c) PROVE IInv'
<1> USE DEF IInv, Hello, lock, loop, GoTo
<1>1. TypeOK'
  BY BoundsAssumption DEF TypeOK
<1>2. CallOffered'
  BY DEF CallOffered, TypeOK
<1>3. LockDiscipline'
  BY DEF LockDiscipline, TypeOK
<1>4. IteratorLive'
  BY DEF IteratorLive, TypeOK
<1>5. WholeUnlessWritten'
  <2> SUFFICES ASSUME NEW d \in Dest, table[d] # None
               PROVE  \/ [dest |-> d, ip |-> table[d].ip, ttl |-> table[d].ttl] \in offers'
                      \/ writer # None /\ call'[writer].dest = d
    BY DEF WholeUnlessWritten
  <2>1. writer # None => writer \in Worker /\ writer # w
    BY DEF LockDiscipline, TypeOK
  <2> QED BY <2>1 DEF WholeUnlessWritten, TypeOK
<1>6. NoLostUpdate'
  BY DEF NoLostUpdate
<1> QED BY <1>1, <1>2, <1>3, <1>4, <1>5, <1>6

LEMMA AddBeginIInv == ASSUME IInv, NEW w \in Worker, AddBegin(w) PROVE IInv'
<1> USE DEF IInv, AddBegin, lock, loop, history, GoTo
<1>1. TypeOK'
  BY DEF TypeOK, Inserting
<1>2. CallOffered'
  BY DEF CallOffered, TypeOK
<1>3. LockDiscipline'
  BY DEF LockDiscipline, TypeOK
<1>4. IteratorLive'
  BY DEF IteratorLive, TypeOK
<1>5. WholeUnlessWritten' /\ NoLostUpdate'
  BY DEF WholeUnlessWritten, NoLostUpdate
<1> QED BY <1>1, <1>2, <1>3, <1>4, <1>5

LEMMA AddEndIInv == ASSUME IInv, NEW w \in Worker, AddEnd(w) PROVE IInv'
<1> USE DEF IInv
<1> DEFINE c == call[w]
<1>1. PICK lost \in SUBSET Dest :
        LET linked == c.dest \notin lost /\ table[c.dest] = None
        IN  /\ table' = [d \in Dest |->
                          IF d \in lost THEN None
                          ELSE IF linked /\ d = c.dest THEN [ip |-> c.ip, ttl |-> c.ttl]
                          ELSE table[d]]
            /\ settled' = IF linked THEN [settled EXCEPT ![c.dest] = c.ttl] ELSE settled
            /\ pc' = [u \in Worker |->
                       IF u = w THEN "idle"
                       ELSE IF pc[u] = "upgrade" /\ call[u].dest \in lost THEN "orphan"
                       ELSE pc[u]]
  BY DEF AddEnd
<1>2. pc[w] = "insert" /\ readers' = readers \ {w} /\ raced' = raced \ {w}
      /\ UNCHANGED <<writer, call, calls, looked, hop, offers>>
  BY DEF AddEnd, loop
<1>3. c \in Call /\ c.dest \in Dest /\ c.ip \in Ip /\ c.ttl \in Ttl /\ c \in offers
  BY <1>2, CallTyped DEF CallOffered
<1>4. writer = None /\ \A u \in Worker : pc[u] # "store"
  BY <1>2, NoneAssumption DEF LockDiscipline
<1>5. TypeOK'
  <2>1. table' \in [Dest -> Route \cup {None}]
    BY <1>1, <1>3 DEF TypeOK, Route
  <2>2. settled' \in [Dest -> 0..MaxTtl]
    BY <1>1, <1>3, BoundsAssumption DEF TypeOK, Ttl
  <2>3. pc' \in [Worker -> {"idle", "can_delivered", "add", "insert", "update",
                            "upgrade", "store", "orphan"}]
    BY <1>1 DEF TypeOK
  <2> QED BY <1>2, <2>1, <2>2, <2>3 DEF TypeOK
<1>6. CallOffered'
  BY <1>1, <1>2 DEF CallOffered
<1>7. LockDiscipline'
  BY <1>1, <1>2, <1>4 DEF LockDiscipline
<1>8. IteratorLive'
  <2> SUFFICES ASSUME NEW u \in Worker, pc'[u] \in {"upgrade", "store"}
               PROVE  table'[call[u].dest] # None /\ pc'[u] # "store"
    BY <1>2 DEF IteratorLive
  <2>1. u # w /\ pc[u] = "upgrade" /\ pc'[u] = "upgrade" /\ call[u].dest \notin lost
    BY <1>1, <1>4
  <2>2. call[u].dest \in Dest
    BY <2>1, CallTyped
  <2>3. table[call[u].dest] # None
    BY <2>1 DEF IteratorLive
  <2>4. [ip |-> c.ip, ttl |-> c.ttl] # None
    BY <1>3, NoneAssumption DEF Route
  <2> QED BY <1>1, <2>1, <2>2, <2>3, <2>4
<1>9. WholeUnlessWritten'
  <2> SUFFICES ASSUME NEW d \in Dest, table'[d] # None
               PROVE  [dest |-> d, ip |-> table'[d].ip, ttl |-> table'[d].ttl] \in offers
    BY <1>2 DEF WholeUnlessWritten
  <2>1. CASE table'[d] = table[d]
    BY <2>1, <1>4 DEF WholeUnlessWritten
  <2>2. CASE table'[d] # table[d]
    <3>1. d = c.dest /\ table'[d] = [ip |-> c.ip, ttl |-> c.ttl]
      BY <2>2, <1>1
    <3>2. c = [dest |-> c.dest, ip |-> c.ip, ttl |-> c.ttl]
      BY <1>3 DEF Call
    <3> QED BY <3>1, <3>2, <1>3
  <2> QED BY <2>1, <2>2
<1>10. NoLostUpdate'
  <2> SUFFICES ASSUME NEW d \in Dest, table'[d] # None
               PROVE  table'[d].ttl <= settled'[d]
    BY DEF NoLostUpdate
  <2>1. CASE d = c.dest /\ c.dest \notin lost /\ table[c.dest] = None
    BY <2>1, <1>1, <1>3, BoundsAssumption DEF TypeOK, Ttl
  <2>2. CASE ~(d = c.dest /\ c.dest \notin lost /\ table[c.dest] = None)
    <3>1. table'[d] = table[d] /\ settled'[d] = settled[d]
      BY <2>2, <1>1, <1>3 DEF TypeOK
    <3> QED BY <3>1 DEF NoLostUpdate
  <2> QED BY <2>1, <2>2
<1> QED BY <1>5, <1>6, <1>7, <1>8, <1>9, <1>10

LEMMA UpdateCheckIInv == ASSUME IInv, NEW w \in Worker, UpdateCheck(w) PROVE IInv'
<1> USE DEF IInv
<1> DEFINE d == call[w].dest
<1>1. pc[w] = "update" /\ UNCHANGED <<table, lock, call, calls, raced, loop, offers>>
  BY DEF UpdateCheck
<1>2. d \in Dest /\ call[w].ttl \in Ttl
  BY <1>1, CallTyped
<1>3. PICK found \in Finds(d) :
        LET better == found /\ table[d].ttl > call[w].ttl
        IN  /\ GoTo(w, IF better THEN "upgrade" ELSE "idle")
            /\ settled' = IF found /\ ~better THEN Settle(d, call[w].ttl) ELSE settled
  BY DEF UpdateCheck
<1>4. found => table[d] # None
  BY <1>3 DEF Finds
<1>5. raced' \subseteq Worker
  BY <1>1 DEF TypeOK
<1>6. CASE found /\ table[d].ttl > call[w].ttl
  BY <1>1, <1>3, <1>4, <1>5, <1>6, Moves DEF TypeOK, NoLostUpdate
<1>7. CASE ~found
  BY <1>1, <1>3, <1>5, <1>7, Moves DEF TypeOK, NoLostUpdate
<1>8. CASE found /\ ~(table[d].ttl > call[w].ttl)
  <2>1. table[d].ttl <= call[w].ttl
    BY <1>2, <1>4, <1>8, BoundsAssumption DEF TypeOK, Route, Ttl
  <2>2. /\ Settle(d, call[w].ttl) \in [Dest -> 0..MaxTtl]
        /\ \A e \in Dest : table[e] # None => table[e].ttl <= Settle(d, call[w].ttl)[e]
    BY <1>2, <2>1, Settles
  <2>3. settled' = Settle(d, call[w].ttl) /\ GoTo(w, "idle")
    BY <1>3, <1>8
  <2> QED BY <1>1, <1>5, <2>2, <2>3, Moves
<1> QED BY <1>6, <1>7, <1>8

LEMMA UpdateRefusedIInv == ASSUME IInv, NEW w \in Worker, UpdateRefused(w) PROVE IInv'
<1> USE DEF IInv
<1>1. pc[w] = "upgrade" /\ UNCHANGED <<table, lock, call, calls, raced, loop, offers>>
      /\ GoTo(w, "idle") /\ settled' = Settle(call[w].dest, call[w].ttl)
      /\ table[call[w].dest].ttl <= call[w].ttl
  BY DEF UpdateRefused
<1>2. call[w].dest \in Dest /\ call[w].ttl \in Ttl
  BY <1>1, CallTyped
<1>3. /\ settled' \in [Dest -> 0..MaxTtl]
      /\ \A e \in Dest : table[e] # None => table[e].ttl <= settled'[e]
  BY <1>1, <1>2, Settles
<1>4. raced' \subseteq Worker
  BY <1>1 DEF TypeOK
<1> QED BY <1>1, <1>3, <1>4, Moves

LEMMA UpdateIpIInv == ASSUME IInv, NEW w \in Worker, UpdateIp(w) PROVE IInv'
<1> USE DEF IInv
<1> DEFINE d == call[w].dest
<1>1. /\ pc[w] = "upgrade" /\ writer = None /\ readers = {}
      /\ table[d].ttl > call[w].ttl
      /\ pc' = [pc EXCEPT ![w] = "store"] /\ writer' = w
      /\ table' = [table EXCEPT ![d].ip = call[w].ip]
      /\ UNCHANGED <<readers, call, calls, raced, looked, hop, offers, settled>>
  BY DEF UpdateIp, GoTo, loop, history
<1>2. d \in Dest /\ call[w].ip \in Ip /\ call[w].ttl \in Ttl
  BY <1>1, CallTyped
<1>3. table[d] \in Route
  BY <1>1, <1>2 DEF IteratorLive, TypeOK
<1>4. /\ table'[d] = [ip |-> call[w].ip, ttl |-> table[d].ttl]
      /\ table'[d] \in Route /\ table'[d] # None
      /\ \A e \in Dest : e # d => table'[e] = table[e]
  BY <1>1, <1>2, <1>3, NoneAssumption DEF TypeOK, Route
<1>5. TypeOK'
  <2>1. table' \in [Dest -> Route \cup {None}]
    BY <1>1, <1>2, <1>4 DEF TypeOK
  <2> QED BY <1>1, <2>1 DEF TypeOK
<1>6. CallOffered'
  BY <1>1 DEF CallOffered, TypeOK
<1>7. LockDiscipline'
  BY <1>1, NoneAssumption DEF LockDiscipline, TypeOK
<1>8. IteratorLive'
  <2> SUFFICES ASSUME NEW u \in Worker, pc'[u] \in {"upgrade", "store"}
               PROVE  /\ table'[call[u].dest] # None
                      /\ pc'[u] = "store" => /\ table'[call[u].dest].ip = call[u].ip
                                             /\ table'[call[u].dest].ttl > call[u].ttl
    BY <1>1 DEF IteratorLive
  <2>1. CASE u = w
    BY <2>1, <1>1, <1>3, <1>4 DEF Route
  <2>2. CASE u # w
    <3>1. pc'[u] = pc[u] /\ pc[u] # "store"
      BY <2>2, <1>1, NoneAssumption DEF TypeOK, LockDiscipline
    <3>2. call[u].dest \in Dest /\ table[call[u].dest] # None
      BY <3>1, CallTyped DEF IteratorLive
    <3> QED BY <3>1, <3>2, <1>4
  <2> QED BY <2>1, <2>2
<1>9. WholeUnlessWritten'
  BY <1>1, <1>4, NoneAssumption DEF WholeUnlessWritten
<1>10. NoLostUpdate'
  <2> SUFFICES ASSUME NEW e \in Dest, table'[e] # None
               PROVE  table'[e].ttl <= settled[e]
    BY <1>1 DEF NoLostUpdate
  <2>1. table[e] # None /\ table'[e].ttl = table[e].ttl
    BY <1>3, <1>4, NoneAssumption
  <2> QED BY <2>1 DEF NoLostUpdate
<1> QED BY <1>5, <1>6, <1>7, <1>8, <1>9, <1>10

LEMMA UpdateTtlIInv == ASSUME IInv, NEW w \in Worker, UpdateTtl(w) PROVE IInv'
<1> USE DEF IInv
<1> DEFINE d == call[w].dest
<1>1. /\ pc[w] = "store" /\ writer' = None
      /\ pc' = [pc EXCEPT ![w] = "idle"]
      /\ table' = [table EXCEPT ![d].ttl = call[w].ttl]
      /\ settled' = Settle(d, call[w].ttl)
      /\ UNCHANGED <<readers, call, calls, raced, looked, hop, offers>>
  BY DEF UpdateTtl, GoTo, loop
<1>2. /\ d \in Dest /\ call[w].ip \in Ip /\ call[w].ttl \in Ttl /\ call[w] \in Call
      /\ call[w] \in offers
  BY <1>1, CallTyped DEF CallOffered
<1>3. /\ table[d] \in Route /\ table[d].ip = call[w].ip
      /\ table[d].ttl > call[w].ttl
      /\ writer = w /\ readers = {}
  BY <1>1, <1>2, NoneAssumption DEF IteratorLive, TypeOK, LockDiscipline
<1>4. /\ table'[d] = [ip |-> call[w].ip, ttl |-> call[w].ttl]
      /\ table'[d] \in Route /\ table'[d] # None
      /\ \A e \in Dest : e # d => table'[e] = table[e]
  BY <1>1, <1>2, <1>3, NoneAssumption DEF TypeOK, Route
<1>5. /\ settled' \in [Dest -> 0..MaxTtl]
      /\ settled'[d] = call[w].ttl
      /\ \A e \in Dest : e # d => settled'[e] = settled[e]
  <2>1. call[w].ttl \in 0..MaxTtl /\ settled[d] \in 0..MaxTtl /\ table[d].ttl \in Ttl
    BY <1>2, <1>3, BoundsAssumption DEF Ttl, TypeOK, Route
  <2>2. call[w].ttl < settled[d]
    BY <1>2, <1>3, <2>1, NoneAssumption, BoundsAssumption DEF NoLostUpdate, Ttl
  <2> QED BY <1>1, <1>2, <2>1, <2>2 DEF Settle, TypeOK
<1>6. TypeOK'
  <2>1. table' \in [Dest -> Route \cup {None}]
    BY <1>1, <1>2, <1>4 DEF TypeOK
  <2> QED BY <1>1, <1>5, <2>1 DEF TypeOK
<1>7. CallOffered'
  BY <1>1 DEF CallOffered, TypeOK
<1>8. LockDiscipline'
  BY <1>1, <1>3, NoneAssumption DEF LockDiscipline, TypeOK
<1>9. IteratorLive'
  <2> SUFFICES ASSUME NEW u \in Worker, pc'[u] \in {"upgrade", "store"}
               PROVE  table'[call[u].dest] # None /\ pc'[u] # "store"
    BY <1>1 DEF IteratorLive
  <2>1. u # w /\ pc'[u] = pc[u] /\ pc[u] # "store"
    BY <1>1, <1>3 DEF TypeOK, LockDiscipline
  <2>2. call[u].dest \in Dest /\ table[call[u].dest] # None
    BY <2>1, CallTyped DEF IteratorLive
  <2> QED BY <2>1, <2>2, <1>4
<1>10. WholeUnlessWritten'
  <2> SUFFICES ASSUME NEW e \in Dest, table'[e] # None
               PROVE  [dest |-> e, ip |-> table'[e].ip, ttl |-> table'[e].ttl] \in offers
    BY <1>1 DEF WholeUnlessWritten
  <2>1. CASE e = d
    <3>1. call[w] = [dest |-> d, ip |-> call[w].ip, ttl |-> call[w].ttl]
      BY <1>2 DEF Call
    <3> QED BY <2>1, <3>1, <1>2, <1>4
  <2>2. CASE e # d
    BY <2>2, <1>3, <1>4 DEF WholeUnlessWritten
  <2> QED BY <2>1, <2>2
<1>11. NoLostUpdate'
  BY <1>2, <1>4, <1>5, BoundsAssumption DEF NoLostUpdate, Ttl
<1> QED BY <1>6, <1>7, <1>8, <1>9, <1>10, <1>11

\* The libevent thread only changes its own variables.
LEMMA LoopIInv ==
  ASSUME IInv, GetNextPeer \/ \E d \in Dest : Lookup(d) \/ Broadcast(d)
  PROVE  IInv'
<1> USE DEF IInv
<1>1. UNCHANGED <<table, readers, writer, pc, call, calls, raced, offers, settled>>
  BY DEF Lookup, GetNextPeer, Broadcast, lock, history
<1>2. looked' \in Dest \cup {None}
      /\ hop' \in [dest : Dest \cup {None}, ip : Ip \cup {Undefined}, locked : BOOLEAN]
  <2>1. ASSUME NEW d \in Dest, table[d] # None PROVE table[d].ip \in Ip
    BY <2>1 DEF TypeOK, Route
  <2>2. CASE GetNextPeer
    <3>1. looked \in Dest
      BY <2>2 DEF GetNextPeer, TypeOK
    <3>2. PICK found \in Finds(looked) :
            hop' = [dest |-> looked, locked |-> TRUE,
                    ip |-> IF found THEN table[looked].ip ELSE Undefined]
      BY <2>2 DEF GetNextPeer
    <3>3. found => table[looked] # None
      BY <3>2 DEF Finds
    <3>4. (IF found THEN table[looked].ip ELSE Undefined) \in Ip \cup {Undefined}
      BY <2>1, <3>1, <3>3
    <3> QED BY <2>2, <3>1, <3>2, <3>4 DEF GetNextPeer
  <2>3. ASSUME NEW d \in Dest, Lookup(d) PROVE <1>2!:
    BY <2>3 DEF Lookup, TypeOK
  <2>4. ASSUME NEW d \in Dest, Broadcast(d) PROVE <1>2!:
    BY <2>1, <2>4 DEF Broadcast, TypeOK
  <2> QED BY <2>2, <2>3, <2>4
<1>3. TypeOK'
  BY <1>1, <1>2 DEF TypeOK
<1> QED BY <1>1, <1>3
        DEF CallOffered, LockDiscipline, IteratorLive, WholeUnlessWritten, NoLostUpdate

LEMMA NextIInv == IInv /\ [Next]_vars => IInv'
<1> SUFFICES ASSUME IInv, [Next]_vars PROVE IInv'
  OBVIOUS
<1>1. CASE UNCHANGED vars
  BY <1>1 DEF vars, lock, loop, history, IInv, TypeOK, CallOffered, LockDiscipline,
              IteratorLive, WholeUnlessWritten, NoLostUpdate
<1>2. ASSUME NEW w \in Worker, WorkerStep(w) PROVE IInv'
  <2> SUFFICES ASSUME \/ CanDelivered(w) \/ AddExists(w) \/ UpdateOrphan(w)
               PROVE  IInv'
    BY <1>2, AddBeginIInv, AddEndIInv, UpdateCheckIInv, UpdateRefusedIInv,
       UpdateIpIInv, UpdateTtlIInv DEF WorkerStep
  <2>1. /\ pc[w] \in {"can_delivered", "add", "orphan"}
        /\ UNCHANGED <<table, lock, call, calls, raced, loop, offers, settled>>
        /\ GoTo(w, "update") \/ GoTo(w, "add") \/ GoTo(w, "idle")
    BY DEF CanDelivered, AddExists, UpdateOrphan, history
  <2> QED BY <2>1, Moves DEF IInv, TypeOK, NoLostUpdate
<1> QED BY <1>1, <1>2, HelloIInv, LoopIInv DEF Next

\* Type correctness of the routing table's state.
THEOREM TableTyped == Spec => []TypeOK
<1>1. IInv => TypeOK
  BY DEF IInv
<1> QED BY <1>1, InitIInv, NextIInv, PTL DEF Spec

\* No entry ever mixes the address of one hello message with the TTL of
\* another, for every number of workers (routing_table.h:58-84).
THEOREM RoutesStayWhole == Spec => []WholeRoutes
<1>1. IInv => WholeRoutes
  BY DEF IInv, WholeUnlessWritten, WholeRoutes
<1> QED BY <1>1, InitIInv, NextIInv, PTL DEF Spec

\* A finished update is never overwritten by a worse one that was decided
\* before it, for every number of workers (routing_table.h:65-71).
THEOREM UpdatesAreKept == Spec => []NoLostUpdate
<1>1. IInv => NoLostUpdate
  BY DEF IInv
<1> QED BY <1>1, InitIInv, NextIInv, PTL DEF Spec
-----------------------------------------------------------------------------
(* Nobody waits for ever. *)

\* A worker in "insert" or "store" waits for nothing, and whoever waits does so
\* for one of these: the holders of a lock wait for no other lock, for every
\* number of workers (routing_table.h:44-47, 67-71).
THEOREM TableNeverDeadlocks == Spec => []NoDeadlock
<1>1. IInv => NoDeadlock
  <2> SUFFICES ASSUME IInv, NEW w \in Worker, pc[w] # "idle"
               PROVE  \E u \in Worker : pc[u] # "idle" /\ ~Blocked(u)
    BY DEF NoDeadlock
  <2>1. CASE ~Blocked(w)
    BY <2>1
  <2>2. CASE Blocked(w) /\ writer # None
    <3>1. writer \in Worker /\ pc[writer] = "store"
      BY <2>2 DEF IInv, TypeOK, LockDiscipline
    <3> QED BY <3>1 DEF Blocked
  <2>3. CASE Blocked(w) /\ writer = None
    <3>1. PICK u \in readers : TRUE
      BY <2>3 DEF Blocked
    <3>2. u \in Worker /\ pc[u] = "insert"
      BY <3>1 DEF IInv, TypeOK, LockDiscipline
    <3> QED BY <3>2 DEF Blocked
  <2> QED BY <2>1, <2>2, <2>3
<1> QED BY <1>1, InitIInv, NextIInv, PTL DEF Spec

\* The most steps a handler at this place has left.
Left(label) ==
  CASE label = "can_delivered" -> 4
    [] label \in {"add", "update"} -> 3
    [] label \in {"insert", "upgrade"} -> 2
    [] label \in {"store", "orphan"} -> 1
    [] label = "idle" -> 0

\* Every step that moves a handler brings it nearer to its end, a step of
\* another worker that turns its entry into an orphan included: the handler
\* has no loop.  With TableNeverDeadlocks this is the part of CallsReturn that
\* needs no fairness (hello_message.tcc:61-77, routing_table.h:36-84).
THEOREM HandlersShrink ==
  Spec => [][\A w \in Worker : pc[w] # "idle" /\ pc'[w] # pc[w] =>
               Left(pc'[w]) < Left(pc[w])]_vars
<1>1. IInv /\ [Next]_vars =>
        [\A w \in Worker : pc[w] # "idle" /\ pc'[w] # pc[w] =>
           Left(pc'[w]) < Left(pc[w])]_vars
  <2> SUFFICES ASSUME IInv, Next, NEW w \in Worker, pc[w] # "idle", pc'[w] # pc[w]
               PROVE  Left(pc'[w]) < Left(pc[w])
    OBVIOUS
  <2> USE DEF IInv
  <2>1. ASSUME NEW u \in Worker, NEW c \in Call, Hello(u, c) PROVE FALSE
    BY <2>1 DEF Hello, GoTo, TypeOK
  <2>2. CASE GetNextPeer \/ \E d \in Dest : Lookup(d) \/ Broadcast(d)
    BY <2>2 DEF GetNextPeer, Lookup, Broadcast
  <2>3. ASSUME NEW u \in Worker, AddEnd(u) PROVE Left(pc'[w]) < Left(pc[w])
    <3>1. \/ pc[w] = "insert" /\ pc'[w] = "idle"
          \/ pc[w] = "upgrade" /\ pc'[w] = "orphan"
      BY <2>3 DEF AddEnd
    <3> QED BY <3>1 DEF Left
  <2>4. ASSUME NEW u \in Worker,
               CanDelivered(u) \/ AddExists(u) \/ AddBegin(u) \/ UpdateCheck(u)
                 \/ UpdateRefused(u) \/ UpdateIp(u) \/ UpdateTtl(u) \/ UpdateOrphan(u)
        PROVE  Left(pc'[w]) < Left(pc[w])
    <3>1. \/ pc[u] = "can_delivered" /\ (GoTo(u, "update") \/ GoTo(u, "add"))
          \/ pc[u] = "add" /\ (GoTo(u, "idle") \/ GoTo(u, "insert"))
          \/ pc[u] = "update" /\ (GoTo(u, "upgrade") \/ GoTo(u, "idle"))
          \/ pc[u] = "upgrade" /\ (GoTo(u, "idle") \/ GoTo(u, "store"))
          \/ pc[u] \in {"store", "orphan"} /\ GoTo(u, "idle")
      BY <2>4 DEF CanDelivered, AddExists, AddBegin, UpdateCheck, UpdateRefused,
                  UpdateIp, UpdateTtl, UpdateOrphan
    <3>2. u = w
      BY <3>1 DEF GoTo, TypeOK
    <3> QED BY <3>1, <3>2 DEF GoTo, TypeOK, Left
  <2> QED BY <2>1, <2>2, <2>3, <2>4 DEF Next, WorkerStep
<1> QED BY <1>1, InitIInv, NextIInv, PTL DEF Spec

-----------------------------------------------------------------------------
(* The table implements RouteStore. *)

\* Callers see the same routes while neither the table nor the writer changes,
\* and a writer keeps its arguments.
LEMMA EffectiveKept ==
  ASSUME UNCHANGED <<table, writer>>,
         writer # None => call'[writer] = call[writer]
  PROVE  [d \in Dest |-> Effective(d)]' = [d \in Dest |-> Effective(d)]
BY DEF Effective

\* A step that changes no route, no offer and no answer is a step of RouteStore.
LEMMA TurnStep ==
  ASSUME [d \in Dest |-> Effective(d)]' = [d \in Dest |-> Effective(d)],
         UNCHANGED <<offers, hop>>
  PROVE  Store!Turn
BY DEF Store!Turn

\* A worker that begins a handler offers its route.
LEMMA HelloOffers ==
  ASSUME IInv, NEW w \in Worker, NEW c \in Call, Hello(w, c)
  PROVE  Store!Offer(c)
<1>1. /\ pc[w] = "idle" /\ offers' = offers \cup {c}
      /\ call' = [call EXCEPT ![w] = c] /\ pc' = [pc EXCEPT ![w] = "can_delivered"]
      /\ UNCHANGED <<table, readers, writer, raced, looked, hop>>
  BY DEF Hello, GoTo, lock, loop
<1>2. writer # None => writer \in Worker /\ writer # w
  BY <1>1 DEF IInv, LockDiscipline, TypeOK
<1>3. writer # None => call'[writer] = call[writer]
  BY <1>1, <1>2 DEF IInv, TypeOK
<1>4. [d \in Dest |-> Effective(d)]' = [d \in Dest |-> Effective(d)]
  BY <1>1, <1>3, EffectiveKept
<1>5. Inserting' = Inserting
  BY <1>1 DEF Inserting, IInv, TypeOK
<1> QED BY <1>1, <1>4, <1>5 DEF Store!Offer, Store!flags

\* An insertion is the atomic one, and loses entries only when it has raced.
\* Nobody writes meanwhile, so callers see the table itself.
LEMMA AddEndAdds ==
  ASSUME IInv, NEW w \in Worker, AddEnd(w)
  PROVE  \E c \in offers : \E lost \in SUBSET Dest : Store!Add(c, lost)
<1> DEFINE c == call[w]
<1>1. PICK lost \in (IF w \in raced THEN SUBSET Dest ELSE {{}}) :
        LET linked == c.dest \notin lost /\ table[c.dest] = None
        IN  table' = [d \in Dest |->
                        IF d \in lost THEN None
                        ELSE IF linked /\ d = c.dest THEN [ip |-> c.ip, ttl |-> c.ttl]
                        ELSE table[d]]
  BY DEF AddEnd
<1>2. pc[w] = "insert" /\ UNCHANGED <<writer, call, looked, hop, offers>>
  BY DEF AddEnd, loop
<1>3. c \in offers /\ c.dest \in Dest /\ writer = None
  BY <1>2, CallTyped, NoneAssumption DEF IInv, CallOffered, LockDiscipline
<1>4. \A d \in Dest : Effective(d) = table[d] /\ Effective(d)' = table'[d]
  BY <1>2, <1>3 DEF Effective
<1>5. lost \in SUBSET Dest /\ (lost # {} => raced # {})
  BY <1>1
<1>6. [d \in Dest |-> Effective(d)]' =
        [d \in Dest |->
           IF d \in lost THEN None
           ELSE IF d = c.dest /\ [e \in Dest |-> Effective(e)][d] = None THEN Store!RouteOf(c)
           ELSE [e \in Dest |-> Effective(e)][d]]
  BY <1>1, <1>3, <1>4 DEF Store!RouteOf
<1>7. Store!Add(c, lost)
  BY <1>2, <1>5, <1>6 DEF Store!Add
<1> QED BY <1>3, <1>5, <1>7

\* The first assignment of try_update_table is the atomic update.
LEMMA UpdateIpUpdates ==
  ASSUME IInv, NEW w \in Worker, UpdateIp(w)
  PROVE  \E c \in offers : Store!Update(c)
<1> DEFINE c == call[w]
<1>1. /\ pc[w] = "upgrade" /\ writer = None /\ table[c.dest].ttl > c.ttl
      /\ table' = [table EXCEPT ![c.dest].ip = c.ip] /\ writer' = w
      /\ UNCHANGED <<call, raced, hop, offers>>
  BY DEF UpdateIp, loop, history
<1>2. c \in offers /\ c.dest \in Dest /\ c.ttl \in Ttl
  BY <1>1, CallTyped DEF IInv, CallOffered
<1>3. table[c.dest] # None /\ table[c.dest] \in Route
  BY <1>1, <1>2 DEF IInv, IteratorLive, TypeOK
<1>4. \A d \in Dest : Effective(d) = table[d]
  BY <1>1 DEF Effective
<1>5. w # None
  BY NoneAssumption
<1>6. \A d \in Dest : Effective(d)' = IF d = c.dest THEN Store!RouteOf(c) ELSE table[d]
  BY <1>1, <1>2, <1>5 DEF Effective, Store!RouteOf, IInv, TypeOK
<1>7. [d \in Dest |-> Effective(d)]' =
        [[d \in Dest |-> Effective(d)] EXCEPT ![c.dest] = Store!RouteOf(c)]
  BY <1>2, <1>4, <1>6
<1>8. c.ttl < [d \in Dest |-> Effective(d)][c.dest].ttl
  BY <1>1, <1>2, <1>3, <1>4 DEF Route, Ttl
<1>9. Store!Update(c)
  BY <1>1, <1>2, <1>3, <1>4, <1>5, <1>7, <1>8 DEF Store!Update
<1> QED BY <1>2, <1>9

\* The second assignment completes what callers have seen since the first.
LEMMA UpdateTtlTurns == ASSUME IInv, NEW w \in Worker, UpdateTtl(w) PROVE Store!Turn
<1> DEFINE c == call[w]
<1>1. /\ pc[w] = "store" /\ writer' = None
      /\ table' = [table EXCEPT ![c.dest].ttl = c.ttl]
      /\ UNCHANGED <<call, hop, offers>>
  BY DEF UpdateTtl, loop
<1>2. c.dest \in Dest /\ c.ip \in Ip /\ c.ttl \in Ttl
  BY <1>1, CallTyped DEF IInv
<1>3. writer = w /\ w # None /\ table[c.dest] \in Route /\ table[c.dest].ip = c.ip
  BY <1>1, <1>2, NoneAssumption DEF IInv, LockDiscipline, IteratorLive, TypeOK
<1>4. table'[c.dest] = [ip |-> c.ip, ttl |-> c.ttl]
  BY <1>1, <1>2, <1>3 DEF Route, IInv, TypeOK
<1>5. \A d \in Dest : Effective(d)' = Effective(d)
  BY <1>1, <1>2, <1>3, <1>4 DEF Effective, IInv, TypeOK
<1>6. [d \in Dest |-> Effective(d)]' = [d \in Dest |-> Effective(d)]
  BY <1>5
<1> QED BY <1>1, <1>6, TurnStep

\* What the libevent thread reads is what callers see, or undefined.
LEMMA ReadsAsk ==
  ASSUME IInv, NEW d \in Dest,
         Broadcast(d) \/ (looked = d /\ GetNextPeer)
  PROVE  Store!Ask(d)
<1>1. UNCHANGED <<table, readers, writer, pc, call, raced, offers>>
  BY DEF Broadcast, GetNextPeer, lock, history
<1>2. [e \in Dest |-> Effective(e)]' = [e \in Dest |-> Effective(e)] /\ Inserting' = Inserting
  BY <1>1, EffectiveKept DEF Inserting
<1>3. table[d] # None => Effective(d) # None /\ Effective(d).ip = table[d].ip
  <2>1. CASE writer # None /\ call[writer].dest = d
    <3>1. writer \in Worker /\ pc[writer] = "store"
      BY <2>1 DEF IInv, TypeOK, LockDiscipline
    <3>2. table[d].ip = call[writer].ip /\ call[writer] \in Call
      BY <2>1, <3>1, CallTyped DEF IInv, IteratorLive
    <3> QED BY <2>1, <3>2, NoneAssumption DEF Effective, Call, Route
  <2>2. CASE ~(writer # None /\ call[writer].dest = d)
    BY <2>2 DEF Effective
  <2> QED BY <2>1, <2>2
<1>4. CASE Broadcast(d)
  <2>1. PICK ip \in {table[d].ip} \cup (IF writer # None THEN {Undefined} ELSE {}) :
          hop' = [dest |-> d, ip |-> ip, locked |-> FALSE]
    BY <1>4 DEF Broadcast
  <2>2. table[d] # None
    BY <1>4 DEF Broadcast
  <2>3. CASE ip = table[d].ip
    BY <1>1, <1>2, <1>3, <2>1, <2>2, <2>3 DEF Store!Ask, Store!flags
  <2>4. CASE ip = Undefined /\ writer # None
    BY <1>1, <1>2, <2>1, <2>4 DEF Store!Ask, Store!flags
  <2> QED BY <2>1, <2>3, <2>4
<1>5. CASE looked = d /\ GetNextPeer
  <2>1. PICK found \in Finds(d) :
          hop' = [dest |-> d, locked |-> TRUE,
                  ip |-> IF found THEN table[d].ip ELSE Undefined]
    BY <1>5 DEF GetNextPeer
  <2>2. CASE found
    <3>1. table[d] # None
      BY <2>1, <2>2 DEF Finds
    <3> QED BY <1>1, <1>2, <1>3, <2>1, <2>2, <3>1 DEF Store!Ask, Store!flags
  <2>3. CASE ~found
    <3>1. table[d] = None \/ Inserting # {}
      BY <2>1, <2>3 DEF Finds
    <3>2. Effective(d) = table[d]
      BY <1>5 DEF Effective, GetNextPeer
    <3> QED BY <1>1, <1>2, <2>1, <2>3, <3>1, <3>2 DEF Store!Ask, Store!flags
  <2> QED BY <2>2, <2>3
<1> QED BY <1>4, <1>5

\* The steps of a worker that change no route.
LEMMA QuietTurns ==
  ASSUME NEW w \in Worker,
         CanDelivered(w) \/ AddExists(w) \/ AddBegin(w) \/ UpdateCheck(w)
           \/ UpdateRefused(w) \/ UpdateOrphan(w)
  PROVE  Store!Turn
<1>1. UNCHANGED <<table, writer, call, hop, offers>>
  BY DEF CanDelivered, AddExists, AddBegin, UpdateCheck, UpdateRefused, UpdateOrphan,
         lock, loop, history
<1> QED BY <1>1, EffectiveKept, TurnStep

\* The routing table, its locks and its racing insertions included, implements
\* the atomic map RouteStore, for every number of workers, peers and addresses
\* (routing_table.h:23-83).
THEOREM TableImplementsStore == Spec => ImplementsStore
<1>1. Init => Store!Init
  <2> SUFFICES ASSUME Init PROVE Store!Init
    OBVIOUS
  <2>1. Inserting = {}
    BY DEF Init, Inserting
  <2>2. [d \in Dest |-> Effective(d)] = [d \in Dest |-> None]
    BY DEF Init, Effective
  <2> QED BY <2>1, <2>2 DEF Init, Store!Init
<1>2. IInv /\ [Next]_vars => [Store!Next]_(Store!vars)
  <2> SUFFICES ASSUME IInv, [Next]_vars PROVE [Store!Next]_(Store!vars)
    OBVIOUS
  <2>1. CASE UNCHANGED vars
    <3>1. UNCHANGED <<table, writer, call, hop, offers>>
      BY <2>1 DEF vars, lock, loop, history
    <3> QED BY <3>1, EffectiveKept, TurnStep DEF Store!Next
  <2>2. ASSUME NEW w \in Worker, NEW c \in Call, Hello(w, c) PROVE Store!Next
    BY <2>2, HelloOffers DEF Store!Next
  <2>3. ASSUME NEW w \in Worker, WorkerStep(w) PROVE Store!Next
    BY <2>3, AddEndAdds, UpdateIpUpdates, UpdateTtlTurns, QuietTurns
       DEF WorkerStep, Store!Next
  <2>4. ASSUME NEW d \in Dest, Lookup(d) PROVE Store!Next
    <3>1. UNCHANGED <<table, writer, call, hop, offers>>
      BY <2>4 DEF Lookup, lock, history
    <3> QED BY <3>1, EffectiveKept, TurnStep DEF Store!Next
  <2>5. ASSUME NEW d \in Dest, Broadcast(d) PROVE Store!Next
    BY <2>5, ReadsAsk DEF Store!Next
  <2>6. ASSUME GetNextPeer PROVE Store!Next
    <3>1. looked \in Dest
      BY <2>6 DEF GetNextPeer, IInv, TypeOK
    <3> QED BY <2>6, <3>1, ReadsAsk DEF Store!Next
  <2> QED BY <2>1, <2>2, <2>3, <2>4, <2>5, <2>6 DEF Next
<1> QED BY <1>1, <1>2, InitIInv, NextIInv, PTL DEF Spec, ImplementsStore, Store!Spec

=============================================================================
