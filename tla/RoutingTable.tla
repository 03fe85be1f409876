---------------------------- MODULE RoutingTable ----------------------------
(****************************************************************************)
(* RoutingTable<T> (daemon/utils/data_struct/routing_table.h) under the     *)
(* threads that share it: pool workers that handle hello messages           *)
(* (hello_message.tcc:61-77, can_delivered and then try_update_table or     *)
(* add_new_route) and the libevent thread that looks up next hops and walks *)
(* the whole table (p2p_server_context.cc:269-278).                         *)
(*                                                                          *)
(* A critical section that only reads is one step, taken when no thread     *)
(* holds the lock exclusively.  add_new_route inserts while it holds the    *)
(* lock in SHARED mode, so its insertion is two steps that other sections   *)
(* can overlap.  What overlaps it is a data race on the unordered_map:      *)
(*   - a search may miss an entry that is there (buckets being rehashed);   *)
(*   - two overlapping insertions may lose entries (chains being relinked). *)
(****************************************************************************)
EXTENDS Naturals

CONSTANTS Worker,     \* the pool threads that handle hello messages
          Dest,       \* peer ids
          Ip,         \* addresses
          MaxTtl,     \* the TTL of a fresh packet (send_pkg sets 10)
          MaxCalls,   \* bound on the hello messages a worker handles
          None,       \* no worker, no peer, no call, no route
          Undefined   \* what reading through a bad iterator or pointer gives

Ttl   == 1..MaxTtl
Route == [ip : Ip, ttl : Ttl]
Call  == [dest : Dest, ip : Ip, ttl : Ttl]

ASSUME BoundsAssumption == MaxTtl \in Nat /\ MaxCalls \in Nat
ASSUME NoneAssumption == None \notin Worker \cup Dest \cup Route \cup Call
ASSUME UndefinedAssumption == Undefined \notin Ip

VARIABLES table,    \* _routing_map
          readers,  \* _lock_mutex: the workers that keep it shared over a step
          writer,   \* _lock_mutex: the worker that holds it exclusively
          pc, call, \* each worker's place in the handler, and its arguments
          calls,    \* the hello messages each worker has begun
          raced,    \* the insertions in flight that overlapped another one
          looked,   \* the peer for which read_callback saw can_delivered
          hop,      \* the last address the libevent thread obtained
          offers,   \* history: the routes that hello messages offered
          settled   \* history: the least TTL a finished call left behind

lock    == <<readers, writer>>
loop    == <<looked, hop>>
history == <<offers, settled>>
vars    == <<table, lock, pc, call, calls, raced, loop, history>>

Init ==
  /\ table = [d \in Dest |-> None]
  /\ readers = {} /\ writer = None
  /\ pc = [w \in Worker |-> "idle"]
  /\ call = [w \in Worker |-> None]
  /\ calls = [w \in Worker |-> 0]
  /\ raced = {}
  /\ looked = None
  /\ hop = [dest |-> None, ip |-> Undefined, locked |-> FALSE]
  /\ offers = {}
  /\ settled = [d \in Dest |-> MaxTtl]

Inserting == {w \in Worker : pc[w] = "insert"}

\* The results that _routing_map.find(d) # end() may have under a shared lock.
Finds(d) ==
  IF Inserting = {} THEN {table[d] # None} ELSE {table[d] # None, FALSE}

\* A call that found the entry leaves at most its own TTL behind.
Settle(d, ttl) == [settled EXCEPT ![d] = IF ttl < @ THEN ttl ELSE @]

GoTo(w, label) == pc' = [pc EXCEPT ![w] = label]

-----------------------------------------------------------------------------
(* A worker in the hello handler. *)

\* internal_handle reaches its routing step.
Hello(w, c) ==
  /\ pc[w] = "idle" /\ calls[w] < MaxCalls
  /\ GoTo(w, "can_delivered")
  /\ call' = [call EXCEPT ![w] = c]
  /\ calls' = [calls EXCEPT ![w] = @ + 1]
  /\ offers' = offers \cup {c}
  /\ UNCHANGED <<table, lock, raced, loop, settled>>

CanDelivered(w) ==
  /\ pc[w] = "can_delivered" /\ writer = None
  /\ \E found \in Finds(call[w].dest) : GoTo(w, IF found THEN "update" ELSE "add")
  /\ UNCHANGED <<table, lock, call, calls, raced, loop, history>>

\* add_new_route finds the peer already there.
AddExists(w) ==
  /\ pc[w] = "add" /\ writer = None
  /\ TRUE \in Finds(call[w].dest)
  /\ GoTo(w, "idle")
  /\ UNCHANGED <<table, lock, call, calls, raced, loop, history>>

\* add_new_route starts to insert, and keeps the shared lock meanwhile.
AddBegin(w) ==
  /\ pc[w] = "add" /\ writer = None
  /\ FALSE \in Finds(call[w].dest)
  /\ GoTo(w, "insert")
  /\ readers' = readers \cup {w}
  /\ raced' = IF Inserting = {} THEN raced ELSE raced \cup Inserting \cup {w}
  /\ UNCHANGED <<table, writer, call, calls, loop, history>>

\* _routing_map.insert links the node, if the key is not there by now.  If the
\* insertion overlapped another one any entries may get lost; a worker that
\* holds an iterator to a lost entry is left with an orphan.
AddEnd(w) ==
  /\ pc[w] = "insert"
  /\ \E lost \in (IF w \in raced THEN SUBSET Dest ELSE {{}}) :
       LET c      == call[w]
           linked == c.dest \notin lost /\ table[c.dest] = None
       IN  /\ table' = [d \in Dest |->
                          IF d \in lost THEN None
                          ELSE IF linked /\ d = c.dest THEN [ip |-> c.ip, ttl |-> c.ttl]
                          ELSE table[d]]
           /\ settled' = IF linked THEN [settled EXCEPT ![c.dest] = c.ttl] ELSE settled
           /\ pc' = [u \in Worker |->
                       IF u = w THEN "idle"
                       ELSE IF pc[u] = "upgrade" /\ call[u].dest \in lost THEN "orphan"
                       ELSE pc[u]]
  /\ readers' = readers \ {w}
  /\ raced' = raced \ {w}
  /\ UNCHANGED <<writer, call, calls, loop, offers>>

\* Plausible bug: the shared lock is kept when the exclusive one is requested.
UpdateCheckKeepsLock(w) ==
  /\ pc[w] = "update" /\ writer = None
  /\ GoTo(w, IF table[call[w].dest] # None THEN "upgrade" ELSE "idle")
  /\ readers' = readers \cup {w}
  /\ UNCHANGED <<table, writer, call, calls, raced, loop, history>>

\* try_update_table under the shared lock: search, compare, unlock.
UpdateCheck(w) ==
  /\ pc[w] = "update" /\ writer = None
  /\ \E found \in Finds(call[w].dest) :
       LET d      == call[w].dest
           better == found /\ table[d].ttl > call[w].ttl
       IN  /\ GoTo(w, IF better THEN "upgrade" ELSE "idle")
           /\ settled' = IF found /\ ~better THEN Settle(d, call[w].ttl) ELSE settled
  /\ UNCHANGED <<table, lock, call, calls, raced, loop, offers>>

\* try_update_table gets the exclusive lock and compares again: no longer better.
UpdateRefused(w) ==
  /\ pc[w] = "upgrade" /\ writer = None /\ readers = {}
  /\ table[call[w].dest].ttl <= call[w].ttl
  /\ GoTo(w, "idle")
  /\ settled' = Settle(call[w].dest, call[w].ttl)
  /\ UNCHANGED <<table, lock, call, calls, raced, loop, offers>>

\* Plausible bug: no second comparison after the lock upgrade.
UpdateIpNoRecheck(w) ==
  /\ pc[w] = "upgrade" /\ writer = None /\ readers = {}
  /\ GoTo(w, "store")
  /\ writer' = w
  /\ table' = [table EXCEPT ![call[w].dest].ip = call[w].ip]
  /\ UNCHANGED <<readers, call, calls, raced, loop, history>>

\* Plausible bug: the entry is changed under the shared lock.
UpdateIpSharedLock(w) ==
  /\ pc[w] = "upgrade"
  /\ table[call[w].dest].ttl > call[w].ttl
  /\ GoTo(w, "store")
  /\ table' = [table EXCEPT ![call[w].dest].ip = call[w].ip]
  /\ UNCHANGED <<lock, call, calls, raced, loop, history>>

\* Still better: the first of the two assignments to the entry.
UpdateIp(w) ==
  /\ pc[w] = "upgrade" /\ writer = None /\ readers = {}
  /\ table[call[w].dest].ttl > call[w].ttl
  /\ GoTo(w, "store")
  /\ writer' = w
  /\ table' = [table EXCEPT ![call[w].dest].ip = call[w].ip]
  /\ UNCHANGED <<readers, call, calls, raced, loop, history>>

\* Plausible bug: the TTL is counted down once more than the packet's.
UpdateTtlLess(w) ==
  /\ pc[w] = "store"
  /\ GoTo(w, "idle")
  /\ table' = [table EXCEPT ![call[w].dest].ttl = call[w].ttl - 1]
  /\ settled' = Settle(call[w].dest, call[w].ttl)
  /\ writer' = None
  /\ UNCHANGED <<readers, call, calls, raced, loop, offers>>

\* The second assignment, and the unlock at the end of the scope.
UpdateTtl(w) ==
  /\ pc[w] = "store"
  /\ GoTo(w, "idle")
  /\ table' = [table EXCEPT ![call[w].dest].ttl = call[w].ttl]
  /\ settled' = Settle(call[w].dest, call[w].ttl)
  /\ writer' = None
  /\ UNCHANGED <<readers, call, calls, raced, loop, offers>>

\* try_update_table goes on with a node that is no longer in the table.
UpdateOrphan(w) ==
  /\ pc[w] = "orphan" /\ writer = None /\ readers = {}
  /\ GoTo(w, "idle")
  /\ UNCHANGED <<table, lock, call, calls, raced, loop, history>>

-----------------------------------------------------------------------------
(* The libevent thread in read_callback. *)

\* can_delivered(receiver) holds: the packet is redirected.
Lookup(d) ==
  /\ looked = None /\ writer = None
  /\ TRUE \in Finds(d)
  /\ looked' = d
  /\ UNCHANGED <<table, lock, pc, call, calls, raced, hop, history>>

\* get_next_peer dereferences the result of its own search unchecked.
GetNextPeer ==
  /\ looked # None /\ writer = None
  /\ \E found \in Finds(looked) :
       hop' = [dest |-> looked, locked |-> TRUE,
               ip |-> IF found THEN table[looked].ip ELSE Undefined]
  /\ looked' = None
  /\ UNCHANGED <<table, lock, pc, call, calls, raced, history>>

\* The broadcast loop copies a shared_ptr with no lock at all, also while
\* try_update_table is assigning to it.
Broadcast(d) ==
  /\ looked = None /\ table[d] # None
  /\ \E ip \in {table[d].ip} \cup (IF writer # None THEN {Undefined} ELSE {}) :
       hop' = [dest |-> d, ip |-> ip, locked |-> FALSE]
  /\ UNCHANGED <<table, lock, pc, call, calls, raced, looked, history>>

-----------------------------------------------------------------------------
WorkerStep(w) ==
  \/ CanDelivered(w) \/ AddExists(w) \/ AddBegin(w) \/ AddEnd(w)
  \/ UpdateCheck(w) \/ UpdateRefused(w) \/ UpdateIp(w) \/ UpdateTtl(w)
  \/ UpdateOrphan(w)

Next ==
  \/ \E w \in Worker : WorkerStep(w) \/ \E c \in Call : Hello(w, c)
  \/ \E d \in Dest : Lookup(d) \/ Broadcast(d)
  \/ GetNextPeer

\* The operating system runs every worker that can run.  The number of calls
\* is bounded, so weak fairness is enough for the lock too.
Fairness == \A w \in Worker : WF_vars(WorkerStep(w))

Spec == Init /\ [][Next]_vars /\ Fairness

-----------------------------------------------------------------------------
TypeOK ==
  /\ table \in [Dest -> Route \cup {None}]
  /\ readers \subseteq Worker
  /\ writer \in Worker \cup {None}
  /\ pc \in [Worker -> {"idle", "can_delivered", "add", "insert", "update",
                        "upgrade", "store", "orphan"}]
  /\ call \in [Worker -> Call \cup {None}]
  /\ calls \in [Worker -> 0..MaxCalls]
  /\ raced \subseteq Worker
  /\ looked \in Dest \cup {None}
  /\ hop \in [dest : Dest \cup {None}, ip : Ip \cup {Undefined}, locked : BOOLEAN]
  /\ offers \subseteq Call
  /\ settled \in [Dest -> 0..MaxTtl]

\* An entry that no writer is changing is the address and the TTL of ONE hello
\* message, never the address of one and the TTL of another, although
\* try_update_table assigns them one after the other (routing_table.h:70-71)
\* and insertions race (routing_table.h:44-47).
WholeRoutes ==
  \A d \in Dest : table[d] # None /\ writer = None =>
    [dest |-> d, ip |-> table[d].ip, ttl |-> table[d].ttl] \in offers

\* No lost update: once a try_update_table that found the peer has returned,
\* the entry never again shows a larger TTL than that call brought, whatever
\* other workers were between their two comparisons (routing_table.h:65-69).
NoLostUpdate ==
  \A d \in Dest : table[d] # None => table[d].ttl <= settled[d]

\* The table as its callers may see it: try_update_table takes effect with the
\* first of its two assignments, since the lock hides the entry until the second.
Effective(d) ==
  IF writer # None /\ call[writer].dest = d
    THEN [ip |-> call[writer].ip, ttl |-> call[writer].ttl] ELSE table[d]

Store == INSTANCE RouteStore
           WITH routes <- [d \in Dest |-> Effective(d)],
                answer <- [dest |-> hop.dest, ip |-> hop.ip],
                busy <- writer # None \/ Inserting # {},
                racing <- raced # {}

\* The table with its locks is an atomic map from peers to routes.  A route
\* only ever gives way to a shorter one that was offered, all at once, and
\* whoever asks gets the address of this moment; only racing insertions lose
\* routes, and only while a change is under way is an address undefined
\* (routing_table.h:23-84, p2p_server_context.cc:269-278).
ImplementsStore == Store!Spec

\* A worker waits for the lock: the sections that only read wait for a writer,
\* the ones that change an entry for the insertions too.
Blocked(w) ==
  /\ pc[w] \in {"can_delivered", "add", "update", "upgrade", "orphan"}
  /\ writer # None \/ (pc[w] \in {"upgrade", "orphan"} /\ readers # {})

\* The workers never all wait for each other: try_update_table gives up its
\* shared lock before it asks for the exclusive one (routing_table.h:67-68), and
\* whoever keeps a lock over a step needs no other one to go on.
NoDeadlock ==
  \A w \in Worker : pc[w] # "idle" =>
    \E u \in Worker : pc[u] # "idle" /\ ~Blocked(u)

\* Every handler gets through the table: the upgrade from shared to exclusive
\* lock (routing_table.h:67-68) never leaves workers waiting for each other.
CallsReturn == \A w \in Worker : pc[w] # "idle" ~> pc[w] = "idle"
=============================================================================
