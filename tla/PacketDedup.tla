----------------------------- MODULE PacketDedup -----------------------------
(****************************************************************************)
(* The packet cache as P2PServerContext::read_callback uses it: the         *)
(* libevent thread is its only caller, and asks about the signature of      *)
(* every complete packet that still has a TTL, the empty one included.      *)
(****************************************************************************)
EXTENDS FIFOCache

VARIABLES cache,    \* _packet_cache
          answer,   \* the argument and the result of the last is_cached
          age       \* history: the misses since the last one for Blank, up to
                    \* CacheSize, which also stands for "none yet"

vars == <<cache, answer, age>>

Init == /\ cache = NewCache
        /\ answer = [key |-> Blank, cached |-> FALSE]
        /\ age = CacheSize

\* read_callback returns early: the packet was seen before.
Hit(k) ==
  /\ IsCached(cache, k)
  /\ answer' = [key |-> k, cached |-> TRUE]
  /\ UNCHANGED <<cache, age>>

\* The packet is new and goes on to be forwarded or handled.
Miss(k) ==
  /\ ~IsCached(cache, k)
  /\ cache' = Remember(cache, k)
  /\ answer' = [key |-> k, cached |-> FALSE]
  /\ age' = IF k = Blank THEN 0 ELSE IF age < CacheSize THEN age + 1 ELSE age

Next == \E k \in Key : Hit(k) \/ Miss(k)

Spec == Init /\ [][Next]_vars

-----------------------------------------------------------------------------
\* The list always has its full length (fifo_cache.h:31 compares for equality,
\* so a list that ever outgrew the bound would never be trimmed again).
TypeOK ==
  /\ cache.list \in Seq(Key \cup {Blank})
  /\ Len(cache.list) = CacheSize
  /\ cache.map \subseteq Key
  /\ answer \in [key : Key \cup {Blank}, cached : BOOLEAN]
  /\ age \in 0..CacheSize

\* No key but the blank occupies two places of the list (fifo_cache.h:28-44).
NoKeyTwice ==
  \A i, j \in 1..CacheSize :
    /\ i # j
    /\ cache.list[i] = cache.list[j]
    => cache.list[i] = Blank

\* The empty signature is in the set only while its own last entry is in the
\* list: it is never suppressed for longer than a full cache.  The converse
\* fails: a pre-filled blank, or an older entry of the empty signature, erases
\* it from the set when it leaves the list (fifo_cache.h:14, 33).
BlankIsNoOlder ==
  /\ age < CacheSize => cache.list[CacheSize - age] = Blank
  /\ Blank \in cache.map => age < CacheSize

\* The set answers for the list, however many evictions happened
\* (fifo_cache.h:33-39 updates them separately): both hold the same signatures,
\* but for the empty one, which the set may have lost.
MapMatchesList ==
  /\ NoKeyTwice
  /\ \A k \in Key \ {Blank} :
       k \in cache.map <=> \E i \in 1..CacheSize : cache.list[i] = k
  /\ BlankIsNoOlder

\* The place of a key in the list is the number of passes it has left.
Place(k) ==
  IF k \notin cache.map THEN 0
  ELSE IF k = Blank THEN CacheSize - age
  ELSE CHOOSE i \in 1..CacheSize : cache.list[i] = k

Window == INSTANCE DedupWindow
            WITH Window <- CacheSize, NoKey <- Blank, Fragile <- {Blank},
                 credit <- [k \in Key |-> Place(k)]

\* is_cached implements the sliding window: every verdict of the list and set
\* pair is the verdict of the window (fifo_cache.h:17-26, "will remove the
\* First added T worked as FIFO queue"), exactly for every signature but the
\* empty one, which may be forgotten before its turn.
ImplementsWindow == Window!Spec
=============================================================================
