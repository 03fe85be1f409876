----------------------------- MODULE RouteStore -----------------------------
(****************************************************************************)
(* What the hello handlers and read_callback need of the routing table,     *)
(* with no lock, no iterator and no half-written entry: a map from peers to *)
(* routes in which every call takes effect in one step.  Adding leaves a    *)
(* route that is there alone, updating replaces one by a shorter one only,  *)
(* and whoever asks gets the address of the route of this moment.           *)
(*                                                                          *)
(* Two flags say when the implementation may do worse: while a change is    *)
(* under way an answer may be undefined, and while insertions race a call   *)
(* may lose routes.                                                         *)
(****************************************************************************)
EXTENDS Naturals

CONSTANTS Dest,       \* peer ids
          Call,       \* what may be offered: a peer, an address and a TTL
          None,       \* no peer, no route
          Undefined   \* no address

VARIABLES routes,  \* the route to each peer, or None
          offers,  \* the calls that were offered
          answer,  \* the last question and its answer
          busy,    \* a change is under way
          racing   \* several insertions are under way together

flags == <<busy, racing>>
vars  == <<routes, offers, answer, flags>>

Init ==
  /\ routes = [d \in Dest |-> None]
  /\ offers = {}
  /\ answer = [dest |-> None, ip |-> Undefined]
  /\ busy = FALSE /\ racing = FALSE

RouteOf(c) == [ip |-> c.ip, ttl |-> c.ttl]

Offer(c) ==
  /\ offers' = offers \cup {c}
  /\ UNCHANGED <<routes, answer, flags>>

\* add_new_route; lost is empty unless insertions race.
Add(c, lost) ==
  /\ lost # {} => racing
  /\ routes' = [d \in Dest |->
                  IF d \in lost THEN None
                  ELSE IF d = c.dest /\ routes[d] = None THEN RouteOf(c)
                  ELSE routes[d]]
  /\ busy' \in BOOLEAN /\ racing' \in BOOLEAN
  /\ UNCHANGED <<offers, answer>>

\* try_update_table, when it replaces the route.
Update(c) ==
  /\ routes[c.dest] # None
  /\ c.ttl < routes[c.dest].ttl
  /\ routes' = [routes EXCEPT ![c.dest] = RouteOf(c)]
  /\ busy' = TRUE
  /\ UNCHANGED <<offers, answer, racing>>

\* A change begins, or what is left to do of one ends.
Turn ==
  /\ busy' \in BOOLEAN /\ racing' \in BOOLEAN
  /\ UNCHANGED <<routes, offers, answer>>

\* get_next_peer, or one turn of the loop over the whole table.
Ask(d) ==
  /\ \/ routes[d] # None /\ answer' = [dest |-> d, ip |-> routes[d].ip]
     \/ /\ routes[d] = None \/ busy
        /\ answer' = [dest |-> d, ip |-> Undefined]
  /\ UNCHANGED <<routes, offers, flags>>

Next ==
  \/ \E c \in Call : Offer(c)
  \/ \E c \in offers : Update(c) \/ \E lost \in SUBSET Dest : Add(c, lost)
  \/ Turn
  \/ \E d \in Dest : Ask(d)

Spec == Init /\ [][Next]_vars
=============================================================================
