------------------------------ MODULE FIFOCache ------------------------------
(****************************************************************************)
(* FIFOCache<T> (daemon/utils/data_struct/fifo_cache.h): a bounded list of  *)
(* the last keys that were looked up in vain, and a hash set over it.  The  *)
(* object is a value [list, map]; is_cached is split into the question      *)
(* IsCached and the side effect Remember of a miss.                         *)
(****************************************************************************)
EXTENDS Naturals, Sequences

CONSTANTS Key,          \* the keys the cache is asked about
          CacheSize,    \* _max_cache_size
          Blank         \* the value-initialised T the constructor fills with

\* A cache of size zero would call front() on an empty list.
ASSUME CacheSizeAssumption == CacheSize \in Nat \ {0}

\* std::list(n) holds n value-initialised elements; the set over it is empty.
\* The list is full from the start, so the first misses evict blanks.  The
\* blank may itself be a key: a packet that does not parse, or that carries no
\* signature, is looked up under the empty string.
NewCache == [list |-> [i \in 1..CacheSize |-> Blank], map |-> {}]

\* _cache_map.find(packet_id) # _cache_map.end()
IsCached(c, k) == k \in c.map

\* Plausible bug: the set keeps the evicted key, which is suppressed forever.
EvictFirstKeepsMap(c) ==
  IF Len(c.list) = CacheSize
    THEN [list |-> Tail(c.list), map |-> c.map]
    ELSE c

\* Plausible bug: the youngest key is forgotten instead of the oldest.
EvictFirstYoungest(c) ==
  IF Len(c.list) = CacheSize
    THEN [list |-> SubSeq(c.list, 1, CacheSize - 1), map |-> c.map \ {c.list[CacheSize]}]
    ELSE c

\* Plausible bug: off by one, the list is trimmed only once it is too long.
EvictFirstLate(c) ==
  IF Len(c.list) > CacheSize
    THEN [list |-> Tail(c.list), map |-> c.map \ {Head(c.list)}]
    ELSE c

\* erase(front()) from the set and pop_front() from the list, when full.  A
\* blank that leaves the list takes the empty signature out of the set.
EvictFirst(c) ==
  IF Len(c.list) = CacheSize
    THEN [list |-> Tail(c.list), map |-> c.map \ {Head(c.list)}]
    ELSE c

\* The whole miss branch of is_cached.
Remember(c, k) ==
  LET room == EvictFirst(c)
  IN  [list |-> Append(room.list, k), map |-> room.map \cup {k}]
=============================================================================
