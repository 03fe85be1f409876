------------------------- MODULE PacketDedupProofs -------------------------
(****************************************************************************)
(* The packet cache is a sliding window, for every set of keys and every    *)
(* cache size: the list and the set of FIFOCache agree on every signature   *)
(* but the empty one, whose entry the set may lose early, and the pair      *)
(* implements DedupWindow with that one exception.                          *)
(****************************************************************************)
EXTENDS PacketDedup, TLAPS

\* The inductive invariant.
IInv == TypeOK /\ MapMatchesList

\* What a miss does to a full list: every key moves one place to the front,
\* the first one leaves list and set, and the new key is last
\* (fifo_cache.h:31-39).
LEMMA RememberShifts ==
  ASSUME NEW c, NEW k \in Key,
         c.list \in Seq(Key \cup {Blank}),
         Len(c.list) = CacheSize,
         c.map \subseteq Key
  PROVE  LET d == Remember(c, k)
         IN  /\ d.list \in Seq(Key \cup {Blank})
             /\ Len(d.list) = CacheSize
             /\ \A i \in 1..CacheSize :
                  d.list[i] = IF i = CacheSize THEN k ELSE c.list[i + 1]
             /\ d.map = (c.map \ {c.list[1]}) \cup {k}
<1> DEFINE room == EvictFirst(c)
           d    == Remember(c, k)
<1>1. CacheSize \in Nat /\ CacheSize >= 1
  BY CacheSizeAssumption
<1>2. room.list = Tail(c.list) /\ room.map = c.map \ {c.list[1]}
  BY <1>1 DEF EvictFirst
<1>3. /\ room.list \in Seq(Key \cup {Blank})
      /\ Len(room.list) = CacheSize - 1
      /\ \A i \in 1..(CacheSize - 1) : room.list[i] = c.list[i + 1]
  BY <1>1, <1>2
<1>4. d.list = Append(room.list, k) /\ d.map = room.map \cup {k}
  BY DEF Remember
<1> HIDE DEF room, d
<1>5. /\ d.list \in Seq(Key \cup {Blank})
      /\ Len(d.list) = CacheSize
      /\ \A i \in 1..CacheSize :
           d.list[i] = IF i = CacheSize THEN k ELSE room.list[i]
  BY <1>1, <1>3, <1>4
<1>6. \A i \in 1..CacheSize :
         d.list[i] = IF i = CacheSize THEN k ELSE c.list[i + 1]
  BY <1>1, <1>3, <1>5
<1> QED BY <1>2, <1>4, <1>5, <1>6 DEF d

LEMMA InitIInv == Init => IInv
<1> SUFFICES ASSUME Init PROVE IInv
  OBVIOUS
<1>1. TypeOK
  BY CacheSizeAssumption DEF Init, NewCache, TypeOK
<1>2. MapMatchesList
  BY CacheSizeAssumption
     DEF Init, NewCache, MapMatchesList, NoKeyTwice, BlankIsNoOlder
<1> QED BY <1>1, <1>2 DEF IInv

LEMMA NextIInv == IInv /\ [Next]_vars => IInv'
<1> SUFFICES ASSUME IInv, [Next]_vars PROVE IInv'
  OBVIOUS
<1> USE DEF IInv
<1>1. CASE UNCHANGED vars
  BY <1>1 DEF vars, TypeOK, MapMatchesList, NoKeyTwice, BlankIsNoOlder
<1>2. ASSUME NEW k \in Key, Hit(k) PROVE IInv'
  BY <1>2 DEF Hit, TypeOK, MapMatchesList, NoKeyTwice, BlankIsNoOlder
<1>3. ASSUME NEW k \in Key, Miss(k) PROVE IInv'
  <2>1. /\ cache'.list \in Seq(Key \cup {Blank})
        /\ Len(cache'.list) = CacheSize
        /\ \A i \in 1..CacheSize :
             cache'.list[i] = IF i = CacheSize THEN k ELSE cache.list[i + 1]
        /\ cache'.map = (cache.map \ {cache.list[1]}) \cup {k}
    BY <1>3, RememberShifts DEF Miss, TypeOK
  <2>4. CacheSize \in Nat /\ CacheSize >= 1
    BY CacheSizeAssumption
  <2>2. TypeOK'
    BY <1>3, <2>1, <2>4 DEF Miss, TypeOK
  <2>3. k # Blank => \A i \in 1..CacheSize : cache.list[i] # k
    BY <1>3 DEF Miss, IsCached, MapMatchesList
  <2>5. NoKeyTwice'
    <3> SUFFICES ASSUME NEW i \in 1..CacheSize, NEW j \in 1..CacheSize,
                        i # j, cache'.list[i] = cache'.list[j]
                 PROVE  cache'.list[i] = Blank
      BY DEF NoKeyTwice
    <3>1. CASE i < CacheSize /\ j < CacheSize
      <4>1. i + 1 \in 1..CacheSize /\ j + 1 \in 1..CacheSize /\ i + 1 # j + 1
        BY <3>1, <2>4
      <4>2. cache'.list[i] = cache.list[i + 1] /\ cache'.list[j] = cache.list[j + 1]
        BY <3>1, <2>1, <2>4
      <4>3. \A m, n \in 1..CacheSize :
              m # n /\ cache.list[m] = cache.list[n] => cache.list[m] = Blank
        BY DEF MapMatchesList, NoKeyTwice
      <4> QED BY <4>1, <4>2, <4>3
    <3>2. CASE i = CacheSize \/ j = CacheSize
      BY <3>2, <2>1, <2>3, <2>4
    <3> QED BY <3>1, <3>2, <2>4
  <2>6. ASSUME NEW q \in Key \ {Blank}
        PROVE  q \in cache'.map <=> \E i \in 1..CacheSize : cache'.list[i] = q
    <3>1. CASE q = k
      BY <3>1, <2>1, <2>4
    <3>2. CASE q # k
      <4>1. q \in cache'.map => \E i \in 1..CacheSize : cache'.list[i] = q
        <5> SUFFICES ASSUME q \in cache.map, q # cache.list[1]
                     PROVE  \E i \in 1..CacheSize : cache'.list[i] = q
          BY <3>2, <2>1
        <5>1. PICK i \in 1..CacheSize : cache.list[i] = q
          BY DEF MapMatchesList
        <5>2. i - 1 \in 1..CacheSize /\ i - 1 # CacheSize /\ (i - 1) + 1 = i
          BY <5>1, <2>4
        <5> QED BY <5>1, <5>2, <2>1
      <4>2. ASSUME NEW i \in 1..CacheSize, cache'.list[i] = q
            PROVE  q \in cache'.map
        <5>1. i + 1 \in 1..CacheSize /\ cache.list[i + 1] = q /\ i + 1 # 1
          BY <4>2, <3>2, <2>1, <2>4
        <5>2. cache.list[1] # q
          BY <5>1, <2>4 DEF MapMatchesList, NoKeyTwice
        <5> QED BY <5>1, <5>2, <2>1 DEF MapMatchesList
      <4> QED BY <4>1, <4>2
    <3> QED BY <3>1, <3>2
  <2>7. BlankIsNoOlder'
    <3>1. CASE k = Blank
      <4>1. age' = 0
        BY <3>1, <1>3 DEF Miss
      <4> QED BY <4>1, <3>1, <2>1, <2>4 DEF BlankIsNoOlder
    <3>2. CASE k # Blank
      <4>1. /\ age \in 0..CacheSize
            /\ age' = IF age < CacheSize THEN age + 1 ELSE age
        BY <3>2, <1>3 DEF Miss, TypeOK
      <4>2. ASSUME age' < CacheSize PROVE cache'.list[CacheSize - age'] = Blank
        <5>1. age < CacheSize /\ age' = age + 1
          BY <4>1, <4>2, <2>4
        <5>2. /\ CacheSize - age' \in 1..CacheSize
              /\ CacheSize - age' # CacheSize
              /\ (CacheSize - age') + 1 = CacheSize - age
          BY <4>1, <4>2, <5>1, <2>4
        <5>3. cache.list[CacheSize - age] = Blank
          BY <5>1 DEF MapMatchesList, BlankIsNoOlder
        <5> QED BY <5>2, <5>3, <2>1
      <4>3. ASSUME Blank \in cache'.map PROVE age' < CacheSize
        <5>1. Blank \in cache.map /\ Blank # cache.list[1]
          BY <4>3, <3>2, <2>1
        <5>2. age < CacheSize /\ cache.list[CacheSize - age] = Blank
          BY <5>1 DEF MapMatchesList, BlankIsNoOlder
        <5>3. CacheSize - age # 1
          BY <5>1, <5>2
        <5> QED BY <4>1, <5>2, <5>3, <2>4
      <4> QED BY <4>2, <4>3 DEF BlankIsNoOlder
    <3> QED BY <3>1, <3>2
  <2> QED BY <2>2, <2>5, <2>6, <2>7 DEF MapMatchesList
<1> QED BY <1>1, <1>2, <1>3 DEF Next

\* Type correctness and agreement of list and set hold in every reachable
\* state, for every cache size and every set of signatures, the empty one
\* included (fifo_cache.h:27-44).
THEOREM CacheConsistent == Spec => [](TypeOK /\ MapMatchesList)
<1>1. Spec => []IInv
  BY InitIInv, NextIInv, PTL DEF Spec
<1> QED BY <1>1, PTL DEF IInv

\* The list never grows or shrinks, though a miss drops an element and adds one
\* (fifo_cache.h:31-39): the cache stays within packet_cache_size.
THEOREM CacheBounded == Spec => []TypeOK
BY CacheConsistent, PTL

-----------------------------------------------------------------------------
\* In a consistent state the place of a signature is the one index that holds
\* it, and places are positive exactly for the keys of the set.
LEMMA PlaceOfKey ==
  ASSUME IInv, NEW k \in Key
  PROVE  /\ k # Blank => \A i \in 1..CacheSize : cache.list[i] = k => Place(k) = i
         /\ k \in cache.map => Place(k) \in 1..CacheSize
         /\ k \notin cache.map => Place(k) = 0
<1>1. CASE k # Blank
  <2>1. \A i, j \in 1..CacheSize : cache.list[i] = k /\ cache.list[j] = k => i = j
    BY <1>1 DEF IInv, MapMatchesList, NoKeyTwice
  <2>2. k \in cache.map <=> \E i \in 1..CacheSize : cache.list[i] = k
    BY <1>1 DEF IInv, MapMatchesList
  <2> QED BY <1>1, <2>1, <2>2 DEF Place
<1>2. CASE k = Blank
  <2>1. k \in cache.map => age \in 0..CacheSize /\ age < CacheSize
    BY <1>2 DEF IInv, TypeOK, MapMatchesList, BlankIsNoOlder
  <2>2. k \in cache.map => Place(k) = CacheSize - age
    BY <1>2 DEF Place
  <2> QED BY <1>2, <2>1, <2>2, CacheSizeAssumption DEF Place
<1> QED BY <1>1, <1>2

\* A miss moves every other signature one place to the front, and the empty
\* one either so or out of the set.
LEMMA MissMovesPlaces ==
  ASSUME IInv, IInv', NEW k \in Key, Miss(k), NEW q \in Key
  PROVE  Place(q)' = IF q = k THEN CacheSize
                     ELSE IF Place(q) > 0 /\ (q = Blank => Blank \in cache'.map)
                       THEN Place(q) - 1 ELSE 0
<1>1. /\ \A i \in 1..CacheSize :
           cache'.list[i] = IF i = CacheSize THEN k ELSE cache.list[i + 1]
      /\ cache'.map = (cache.map \ {cache.list[1]}) \cup {k}
  BY RememberShifts DEF Miss, IInv, TypeOK
<1>3. CacheSize \in Nat /\ CacheSize >= 1
  BY CacheSizeAssumption
<1>2. q # Blank => /\ \A i \in 1..CacheSize : cache'.list[i] = q => Place(q)' = i
                   /\ q \notin cache'.map => Place(q)' = 0
  <2> SUFFICES ASSUME q # Blank
               PROVE  /\ \A i \in 1..CacheSize : cache'.list[i] = q => Place(q)' = i
                      /\ q \notin cache'.map => Place(q)' = 0
    OBVIOUS
  <2>1. \A i, j \in 1..CacheSize : cache'.list[i] = q /\ cache'.list[j] = q => i = j
    BY DEF IInv, MapMatchesList, NoKeyTwice
  <2>2. q \in cache'.map <=> \E i \in 1..CacheSize : cache'.list[i] = q
    BY DEF IInv, MapMatchesList
  <2> QED BY <2>1, <2>2 DEF Place
<1>4. CASE q = k /\ q # Blank
  BY <1>1, <1>2, <1>3, <1>4
<1>5. CASE q # k /\ q # Blank /\ q \notin cache.map
  <2>1. q \notin cache'.map /\ Place(q) = 0
    BY <1>1, <1>5, PlaceOfKey
  <2> QED BY <2>1, <1>2, <1>5
<1>6. CASE q # k /\ q # Blank /\ q \in cache.map
  <2>1. PICK i \in 1..CacheSize : cache.list[i] = q
    BY <1>6 DEF IInv, MapMatchesList
  <2>2. Place(q) = i
    BY <1>6, <2>1, PlaceOfKey
  <2>3. CASE i = 1
    <3>1. q \notin cache'.map
      BY <1>1, <1>6, <2>1, <2>3
    <3> QED BY <3>1, <1>2, <1>6, <2>2, <2>3
  <2>4. CASE i > 1
    <3>1. i - 1 \in 1..CacheSize /\ i - 1 # CacheSize /\ (i - 1) + 1 = i
      BY <2>1, <2>4, <1>3
    <3>2. cache'.list[i - 1] = q
      BY <3>1, <1>1, <2>1
    <3> QED BY <3>1, <3>2, <1>2, <1>6, <2>2, <2>4
  <2> QED BY <2>3, <2>4, <1>3
<1>7. CASE q = Blank
  <2>1. Place(q)' = IF q \in cache'.map THEN CacheSize - age' ELSE 0
    BY <1>7 DEF Place
  <2>2. CASE k = Blank
    <3>1. age' = 0 /\ q \in cache'.map
      BY <2>2, <1>7, <1>1 DEF Miss
    <3> QED BY <3>1, <2>1, <2>2, <1>7, <1>3
  <2>3. CASE k # Blank /\ q \notin cache'.map
    BY <2>1, <2>3, <1>7
  <2>4. CASE k # Blank /\ q \in cache'.map
    <3>1. q \in cache.map
      BY <2>4, <1>1, <1>7
    <3>2. age \in 0..CacheSize /\ age < CacheSize
      BY <3>1, <1>7 DEF IInv, TypeOK, MapMatchesList, BlankIsNoOlder
    <3>3. age' = age + 1
      BY <3>2, <2>4 DEF Miss
    <3>4. Place(q) = CacheSize - age
      BY <3>1, <1>7 DEF Place
    <3> QED BY <2>1, <2>4, <3>2, <3>3, <3>4, <1>3, <1>7
  <2> QED BY <2>2, <2>3, <2>4
<1> QED BY <1>4, <1>5, <1>6, <1>7

\* Every verdict of is_cached is the verdict of the sliding window, for every
\* cache size and every set of keys: a signature that passed is suppressed for
\* exactly CacheSize further passes, the empty signature for at most that many
\* (fifo_cache.h:27-44).
THEOREM CacheImplementsWindow == Spec => ImplementsWindow
<1>1. Init => Window!Init
  <2> SUFFICES ASSUME Init PROVE Window!Init
    OBVIOUS
  <2>1. \A k \in Key : Place(k) = 0
    BY DEF Init, NewCache, Place
  <2> QED BY <2>1 DEF Init, Window!Init
<1>2. IInv /\ IInv' /\ [Next]_vars => [Window!Next]_(Window!vars)
  <2> SUFFICES ASSUME IInv, IInv', [Next]_vars
               PROVE  Window!Next \/ UNCHANGED Window!vars
    BY DEF Window!vars
  <2>1. CASE UNCHANGED vars
    BY <2>1 DEF vars, Window!vars, Place
  <2>2. ASSUME NEW k \in Key, Hit(k) PROVE Window!Next
    <3>1. [q \in Key |-> Place(q)][k] > 0
      BY <2>2, PlaceOfKey, CacheSizeAssumption DEF Hit, IsCached
    <3>2. UNCHANGED [q \in Key |-> Place(q)]
      BY <2>2 DEF Hit, Place
    <3> QED BY <2>2, <3>1, <3>2 DEF Hit, Window!Next, Window!Suppress
  <2>3. ASSUME NEW k \in Key, Miss(k) PROVE Window!Next
    <3> DEFINE gone == {q \in Key \cap {Blank} : q \notin cache'.map}
    <3>1. [q \in Key |-> Place(q)][k] = 0
      BY <2>3, PlaceOfKey DEF Miss, IsCached
    <3>2. \A q \in Key : Place(q)' = IF q = k THEN CacheSize
                     ELSE IF Place(q) > 0 /\ (q = Blank => Blank \in cache'.map)
                       THEN Place(q) - 1 ELSE 0
      BY <2>3, MissMovesPlaces
    <3>3. \A q \in Key : (q \notin gone) <=> (q = Blank => Blank \in cache'.map)
      OBVIOUS
    <3>4. gone \in SUBSET (Key \cap {Blank})
      OBVIOUS
    <3> HIDE DEF gone
    <3>5. [q \in Key |-> Place(q)]' =
            [q \in Key |-> IF q = k THEN CacheSize
                           ELSE IF [j \in Key |-> Place(j)][q] > 0 /\ q \notin gone
                             THEN [j \in Key |-> Place(j)][q] - 1 ELSE 0]
      BY <3>2, <3>3
    <3>6. Window!Pass(k)
      BY <2>3, <3>1, <3>4, <3>5 DEF Miss, Window!Pass
    <3> QED BY <3>6 DEF Window!Next
  <2> QED BY <2>1, <2>2, <2>3 DEF Next
<1>3. Spec => []IInv
  BY InitIInv, NextIInv, PTL DEF Spec
<1> QED BY <1>1, <1>2, <1>3, PTL DEF Spec, ImplementsWindow, Window!Spec

=============================================================================
