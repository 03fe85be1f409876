-------------------------- MODULE ThreadPoolProofs --------------------------
(****************************************************************************)
(* For every number of workers, submitters and tasks: as long as no two     *)
(* workers are at the queue together, the pool hands out every submitted    *)
(* task exactly once, in order, and does not crash.  The shared lock around *)
(* front() and pop() is the only way to lose or repeat a task, and the gap  *)
(* between check and wait the only way to lose a wakeup.                    *)
(****************************************************************************)
EXTENDS ThreadPool, SequenceTheorems, TLAPS

\* The places of the code, as the lock and the wait set see them.
Places ==
  /\ shared = {w \in Worker : pc[w] \in {"front", "pop"}}
  /\ waiting = {w \in Worker : pc[w] = "waiting"}

\* Without overlap there is one worker at the queue, which is not empty then,
\* and what a worker has in its hands is a task.
OneAtQueue ==
  ~overlapped =>
    /\ \A u, v \in shared : u = v
    /\ shared # {} => queue # <<>>
    /\ \A w \in Worker : pc[w] \in {"pop", "run", "notify"} => got[w] \in Task
    /\ fetched \in Seq(Task)

IInv == TypeOK /\ Places /\ OneAtQueue /\ ExactUntilOverlap

-----------------------------------------------------------------------------
(* Facts about sequences. *)

\* Appending to the second part of a concatenation.
LEMMA AppendToConcat ==
  ASSUME NEW S, NEW f \in Seq(S), NEW q \in Seq(S), NEW x \in S
  PROVE  Append(f \o q, x) = f \o Append(q, x)
<1>1. <<x>> \in Seq(S)
  OBVIOUS
<1>2. f \o q \in Seq(S)
  BY ConcatProperties
<1>3. Append(f \o q, x) = (f \o q) \o <<x>> /\ Append(q, x) = q \o <<x>>
  BY <1>2, AppendIsConcat
<1>4. (f \o q) \o <<x>> = f \o (q \o <<x>>)
  BY <1>1, ConcatAssociative
<1> QED BY <1>3, <1>4

\* Moving the head of the second part to the end of the first.
LEMMA MoveHead ==
  ASSUME NEW S, NEW f \in Seq(S), NEW q \in Seq(S), q # <<>>
  PROVE  f \o q = Append(f, Head(q)) \o Tail(q)
<1>1. q = <<Head(q)>> \o Tail(q) /\ Head(q) \in S /\ Tail(q) \in Seq(S)
  BY HeadTailProperties
<1>2. <<Head(q)>> \in Seq(S)
  BY <1>1
<1> QED BY <1>1, <1>2, AppendIsConcat, ConcatAssociative

\* The second part of a sequence over S is over S.
LEMMA SecondPart ==
  ASSUME NEW S, NEW T, NEW f \in Seq(S), NEW q \in Seq(T), f \o q \in Seq(S)
  PROVE  q \in Seq(S)
<1>1. \A i \in 1..Len(q) : q[i] = (f \o q)[Len(f) + i] /\ (f \o q)[Len(f) + i] \in S
  <2> TAKE i \in 1..Len(q)
  <2>1. Len(f \o q) = Len(f) + Len(q) /\ Len(f) \in Nat /\ Len(q) \in Nat
    BY LenProperties
  <2>2. Len(f) + i \in 1..Len(f \o q)
    BY <2>1
  <2> QED BY <2>1, <2>2
<1> QED BY <1>1

-----------------------------------------------------------------------------
LEMMA InitIInv == Init => IInv
<1> SUFFICES ASSUME Init PROVE IInv
  OBVIOUS
<1> USE DEF Init
<1>1. TypeOK
  <2>1. queue \in Seq(Task \cup {Moved}) /\ order \in Seq(Task)
        /\ fetched \in Seq(Task \cup {Moved})
    BY EmptySeq
  <2>2. pc \in [Worker \cup Client -> {"loop", "idle"}]
    OBVIOUS
  <2> QED BY <2>1, <2>2 DEF TypeOK
<1>2. Places
  BY DEF Places
<1>3. OneAtQueue
  <2>1. \A w \in Worker : pc[w] = "loop"
    OBVIOUS
  <2>2. <<>> \in Seq(Task)
    BY EmptySeq
  <2> QED BY <2>1, <2>2 DEF OneAtQueue
<1>4. Pending = <<>>
  BY DEF Pending
<1>5. ExactUntilOverlap
  <2>1. <<>> \o <<>> = <<>>
    BY EmptySeq, ConcatEmptySeq
  <2> QED BY <1>4, <2>1 DEF ExactUntilOverlap
<1> QED BY <1>1, <1>2, <1>3, <1>5 DEF IInv

\* A step that leaves the queue, the shared lock and the histories alone, and
\* moves no worker to or from the queue or into a task.
LEMMA Quiet ==
  ASSUME IInv, TypeOK',
         UNCHANGED <<queue, shared, crashed, order, fetched, overlapped>>,
         \A w \in Worker :
           /\ pc[w] \in {"front", "pop"} \/ pc'[w] \in {"front", "pop"} => pc'[w] = pc[w]
           /\ pc'[w] \in {"run", "notify"} => pc[w] \in {"run", "notify"}
           /\ pc'[w] \in {"pop", "run", "notify"} => got'[w] = got[w],
         waiting' = {w \in Worker : pc'[w] = "waiting"}
  PROVE  IInv'
<1> USE DEF IInv
<1>1. Places'
  BY DEF Places
<1>2. OneAtQueue'
  BY DEF OneAtQueue
<1>3. Pending' = Pending
  <2>1. (\E w \in Worker : pc[w] = "pop") <=> (\E w \in Worker : pc'[w] = "pop")
    OBVIOUS
  <2> QED BY <2>1 DEF Pending
<1>4. ExactUntilOverlap'
  BY <1>3 DEF ExactUntilOverlap
<1> QED BY <1>1, <1>2, <1>4

\* Nobody is about to pop when the exclusive lock is held.
LEMMA PushIInv ==
  ASSUME IInv, NEW x \in Worker \cup Client, NEW t \in Task, Push(x, t)
  PROVE  IInv'
<1> USE DEF IInv
<1>1. /\ ~crashed /\ shared = {}
      /\ queue' = Append(queue, t) /\ order' = Append(order, t)
      /\ pc' = [pc EXCEPT ![x] = "notify"]
      /\ UNCHANGED <<running, destructor, mutex, shared, waiting, got, crashed, fetched, overlapped>>
      /\ x \in Worker => pc[x] = "run"
  BY ThreadAssumption DEF Push, At, GoTo, life, locks
<1>2. \A w \in Worker : pc[w] \notin {"front", "pop"} /\ pc'[w] \notin {"front", "pop"}
  BY <1>1 DEF Places, TypeOK
<1>3. TypeOK'
  <2>1. queue' \in Seq(Task \cup {Moved}) /\ order' \in Seq(Task)
    BY <1>1, AppendProperties DEF TypeOK
  <2> QED BY <1>1, <2>1 DEF TypeOK
<1>4. Places'
  BY <1>1, <1>2 DEF Places, TypeOK
<1>5. OneAtQueue'
  BY <1>1, <1>2 DEF OneAtQueue, TypeOK
<1>6. Pending = queue /\ Pending' = queue'
  BY <1>2 DEF Pending
<1>7. ASSUME ~overlapped PROVE order' = fetched \o Append(queue, t)
  <2>1. order = fetched \o queue /\ fetched \in Seq(Task)
    BY <1>6, <1>7 DEF ExactUntilOverlap, OneAtQueue
  <2>2. queue \in Seq(Task)
    BY <2>1, SecondPart DEF TypeOK
  <2>3. Append(fetched \o queue, t) = fetched \o Append(queue, t)
    BY <2>1, <2>2, AppendToConcat
  <2> QED BY <1>1, <2>1, <2>3
<1>8. ExactUntilOverlap'
  BY <1>1, <1>6, <1>7 DEF ExactUntilOverlap
<1> QED BY <1>3, <1>4, <1>5, <1>8

\* Coming to the queue, alone or to find it empty, changes nothing there.
LEMMA FetchAlone ==
  ASSUME IInv, NEW w \in Worker, Fetch(w), ~overlapped'
  PROVE  Pending' = Pending /\ ~overlapped
<1> USE DEF IInv
<1>1. ~overlapped /\ pc[w] = "fetch" /\ UNCHANGED queue
  BY DEF Fetch, At
<1>2. CASE queue = <<>>
  <2>1. pc' = [pc EXCEPT ![w] = "loop"]
    BY <1>2 DEF Fetch, GoTo
  <2>2. (\E u \in Worker : pc[u] = "pop") <=> (\E u \in Worker : pc'[u] = "pop")
    BY <1>1, <2>1 DEF TypeOK
  <2> QED BY <1>1, <2>2 DEF Pending
<1>3. CASE queue # <<>>
  <2>1. pc' = [pc EXCEPT ![w] = "front"] /\ shared = {}
    BY <1>3 DEF Fetch, GoTo
  <2>2. \A u \in Worker : pc[u] # "pop" /\ pc'[u] # "pop"
    BY <1>1, <2>1 DEF Places, TypeOK
  <2> QED BY <1>1, <2>2 DEF Pending
<1> QED BY <1>2, <1>3

LEMMA FetchIInv == ASSUME IInv, NEW w \in Worker, Fetch(w) PROVE IInv'
<1> USE DEF IInv
<1>1. /\ ~crashed /\ pc[w] = "fetch"
      /\ UNCHANGED <<running, destructor, queue, mutex, waiting, got, crashed, order, fetched>>
  BY DEF Fetch, At, life
<1>2. CASE queue = <<>>
  <2>1. pc' = [pc EXCEPT ![w] = "loop"] /\ UNCHANGED <<shared, overlapped>>
    BY <1>2 DEF Fetch, GoTo
  <2>2. TypeOK'
    BY <1>1, <2>1 DEF TypeOK
  <2>3. waiting' = {u \in Worker : pc'[u] = "waiting"}
    BY <1>1, <2>1 DEF TypeOK, Places
  <2> QED BY <1>1, <2>1, <2>2, <2>3, Quiet DEF TypeOK
<1>3. CASE queue # <<>>
  <2>1. /\ pc' = [pc EXCEPT ![w] = "front"] /\ shared' = shared \cup {w}
        /\ overlapped' = (overlapped \/ shared # {})
    BY <1>3 DEF Fetch, GoTo
  <2>2. TypeOK'
    BY <1>1, <2>1 DEF TypeOK
  <2>3. Places'
    BY <1>1, <2>1 DEF TypeOK, Places
  <2>4. OneAtQueue'
    BY <1>1, <1>3, <2>1 DEF TypeOK, OneAtQueue
  <2>5. ASSUME ~overlapped' PROVE Pending' = Pending
    BY <2>5, FetchAlone
  <2>6. ExactUntilOverlap'
    BY <1>1, <2>1, <2>5 DEF ExactUntilOverlap
  <2> QED BY <2>2, <2>3, <2>4, <2>6
<1> QED BY <1>2, <1>3

\* A worker alone at the queue finds a task, clears its shell and has it.
LEMMA MoveFrontAlone ==
  ASSUME IInv, NEW w \in Worker, MoveFront(w), ~overlapped
  PROVE  /\ queue # <<>> /\ Pending = queue
         /\ queue' = <<Moved>> \o Tail(queue) /\ Pending' = Tail(queue)
         /\ got' = [got EXCEPT ![w] = Head(queue)]
<1> USE DEF IInv
<1>1. pc[w] = "front" /\ w \in shared /\ queue # <<>>
  BY DEF MoveFront, At, Places, OneAtQueue
<1>2. \A u \in Worker : u # w => pc[u] \notin {"front", "pop"}
  BY <1>1 DEF OneAtQueue, Places
<1>3. ~Races(w, "front")
  BY <1>2 DEF Races, Places
<1>4. /\ queue' = <<Moved>> \o Tail(queue)
      /\ got' = [got EXCEPT ![w] = Head(queue)]
      /\ pc' = [pc EXCEPT ![w] = "pop"]
  BY <1>1, <1>3 DEF MoveFront, GoTo
<1>5. Tail(<<Moved>> \o Tail(queue)) = Tail(queue)
  <2>1. Tail(queue) \in Seq(Task \cup {Moved})
    <3>1. queue \in Seq(Task \cup {Moved})
      BY DEF TypeOK
    <3> QED BY <1>1, <3>1, HeadTailProperties
  <2>2. <<Moved>> \in Seq(Task \cup {Moved})
    OBVIOUS
  <2> QED BY <2>1, <2>2
<1>6. (\A u \in Worker : pc[u] # "pop") /\ pc'[w] = "pop"
  BY <1>1, <1>2, <1>4 DEF TypeOK
<1> QED BY <1>1, <1>4, <1>5, <1>6 DEF Pending

LEMMA MoveFrontIInv == ASSUME IInv, NEW w \in Worker, MoveFront(w) PROVE IInv'
<1> USE DEF IInv
<1>1. /\ ~crashed /\ pc[w] = "front" /\ w \in shared
      /\ UNCHANGED <<running, destructor, mutex, shared, waiting, order, overlapped>>
  BY DEF MoveFront, At, life, locks, Places
<1>2. CASE queue = <<>>
  <2>1. crashed' = TRUE /\ UNCHANGED <<pc, got, queue, fetched>> /\ overlapped
    BY <1>1, <1>2 DEF MoveFront, OneAtQueue, TypeOK
  <2>2. TypeOK'
    BY <1>1, <2>1 DEF TypeOK
  <2> QED BY <1>1, <2>1, <2>2 DEF Places, OneAtQueue, ExactUntilOverlap
<1>3. CASE queue # <<>>
  <2>1. /\ got' = [got EXCEPT ![w] = Head(queue)]
        /\ fetched' = Append(fetched, Head(queue))
        /\ pc' = [pc EXCEPT ![w] = "pop"]
        /\ crashed' = crashed
        /\ \E cleared \in (IF Races(w, "front") THEN BOOLEAN ELSE {TRUE}) :
             queue' = IF cleared THEN <<Moved>> \o Tail(queue) ELSE queue
    BY <1>3 DEF MoveFront, GoTo
  <2>2. Head(queue) \in Task \cup {Moved} /\ Tail(queue) \in Seq(Task \cup {Moved})
    BY <1>3, HeadTailProperties DEF TypeOK
  <2>3. /\ <<Moved>> \o Tail(queue) \in Seq(Task \cup {Moved})
        /\ <<Moved>> \o Tail(queue) # <<>>
        /\ Tail(<<Moved>> \o Tail(queue)) = Tail(queue)
    <3>1. <<Moved>> \in Seq(Task \cup {Moved})
      OBVIOUS
    <3> QED BY <2>2, <3>1
  <2>4. TypeOK'
    <3>1. queue' \in Seq(Task \cup {Moved})
      BY <2>1, <2>3 DEF TypeOK
    <3>2. fetched' \in Seq(Task \cup {Moved})
      BY <2>1, <2>2, AppendProperties DEF TypeOK
    <3>3. got' \in [Worker -> Task \cup {None, Moved}]
      BY <2>1, <2>2 DEF TypeOK
    <3> QED BY <1>1, <2>1, <3>1, <3>2, <3>3 DEF TypeOK
  <2>5. Places'
    BY <1>1, <2>1 DEF Places, TypeOK
  <2>6. CASE overlapped
    BY <1>1, <2>4, <2>5, <2>6 DEF OneAtQueue, ExactUntilOverlap
  <2>7. CASE ~overlapped
    <3>1. /\ Pending = queue /\ Pending' = Tail(queue)
          /\ queue' = <<Moved>> \o Tail(queue)
      BY <2>7, MoveFrontAlone
    <3>2. order = fetched \o queue /\ fetched \in Seq(Task)
      BY <2>7, <3>1 DEF ExactUntilOverlap, OneAtQueue
    <3>3. queue \in Seq(Task)
      BY <3>2, SecondPart DEF TypeOK
    <3>4. Head(queue) \in Task
      BY <1>3, <3>3, HeadTailProperties
    <3>5. order = Append(fetched, Head(queue)) \o Tail(queue)
      BY <1>3, <3>2, <3>3, MoveHead
    <3>6. fetched' \in Seq(Task)
      BY <2>1, <3>2, <3>4, AppendProperties
    <3>7. OneAtQueue'
      BY <1>1, <2>1, <2>3, <2>7, <3>1, <3>4, <3>6 DEF OneAtQueue, TypeOK
    <3>8. ExactUntilOverlap'
      BY <1>1, <2>1, <3>1, <3>5 DEF ExactUntilOverlap
    <3> QED BY <2>4, <2>5, <3>7, <3>8
  <2> QED BY <2>6, <2>7
<1> QED BY <1>2, <1>3

\* A worker alone at the queue pops its shell: what is pending stays.
LEMMA PopAlone ==
  ASSUME IInv, NEW w \in Worker, Pop(w), ~overlapped
  PROVE  queue' = Tail(queue) /\ shared' = {} /\ Pending' = Pending
<1> USE DEF IInv
<1>1. pc[w] = "pop" /\ w \in shared /\ queue # <<>>
  BY DEF Pop, At, Places, OneAtQueue
<1>2. \A u \in Worker : u # w => pc[u] \notin {"front", "pop"}
  BY <1>1 DEF OneAtQueue, Places
<1>3. ~Races(w, "pop")
  BY <1>2 DEF Races, Places
<1>4. queue' = Tail(queue) /\ shared' = {} /\ pc' = [pc EXCEPT ![w] = "run"]
  BY <1>1, <1>3 DEF Pop, GoTo, OneAtQueue
<1>5. \A u \in Worker : pc'[u] # "pop"
  BY <1>2, <1>4 DEF TypeOK
<1> QED BY <1>1, <1>4, <1>5 DEF Pending

LEMMA PopIInv == ASSUME IInv, NEW w \in Worker, Pop(w) PROVE IInv'
<1> USE DEF IInv
<1>1. /\ ~crashed /\ pc[w] = "pop" /\ w \in shared
      /\ UNCHANGED <<running, destructor, mutex, waiting, got, order, fetched, overlapped>>
  BY DEF Pop, At, life, history, Places
<1>2. CASE queue = <<>>
  <2>1. crashed' = TRUE /\ UNCHANGED <<pc, queue, shared>> /\ overlapped
    BY <1>1, <1>2 DEF Pop, OneAtQueue, TypeOK
  <2>2. TypeOK'
    BY <1>1, <2>1 DEF TypeOK
  <2> QED BY <1>1, <2>1, <2>2 DEF Places, OneAtQueue, ExactUntilOverlap
<1>3. CASE queue # <<>>
  <2>1. /\ pc' = [pc EXCEPT ![w] = "run"] /\ shared' = shared \ {w}
        /\ crashed' = crashed
        /\ \E popped \in (IF Races(w, "pop") THEN BOOLEAN ELSE {TRUE}) :
             queue' = IF popped THEN Tail(queue) ELSE queue
    BY <1>3 DEF Pop, GoTo
  <2>2. Tail(queue) \in Seq(Task \cup {Moved})
    BY <1>3, HeadTailProperties DEF TypeOK
  <2>3. TypeOK'
    <3>1. queue' \in Seq(Task \cup {Moved})
      BY <2>1, <2>2 DEF TypeOK
    <3> QED BY <1>1, <2>1, <3>1 DEF TypeOK
  <2>4. Places'
    BY <1>1, <2>1 DEF Places, TypeOK
  <2>5. CASE overlapped
    BY <1>1, <2>3, <2>4, <2>5 DEF OneAtQueue, ExactUntilOverlap
  <2>6. CASE ~overlapped
    <3>1. queue' = Tail(queue) /\ shared' = {} /\ Pending' = Pending
      BY <2>6, PopAlone
    <3>2. OneAtQueue'
      BY <1>1, <2>1, <2>6, <3>1 DEF OneAtQueue, TypeOK
    <3>3. ExactUntilOverlap'
      BY <1>1, <2>1, <2>6, <3>1 DEF ExactUntilOverlap
    <3> QED BY <2>3, <2>4, <3>2, <3>3
  <2> QED BY <2>5, <2>6
<1> QED BY <1>2, <1>3

LEMMA RunIInv == ASSUME IInv, NEW w \in Worker, Run(w) PROVE IInv'
<1> USE DEF IInv
<1>1. /\ ~crashed /\ pc[w] = "run"
      /\ UNCHANGED <<running, destructor, queue, mutex, shared, waiting, order, fetched, overlapped>>
  BY DEF Run, At, life, locks, history
<1>2. CASE got[w] = Moved
  <2>1. crashed' = TRUE /\ UNCHANGED <<pc, got>> /\ overlapped
    BY <1>1, <1>2, TaskAssumption DEF Run, OneAtQueue, TypeOK
  <2>2. TypeOK'
    BY <1>1, <2>1 DEF TypeOK
  <2> QED BY <1>1, <2>1, <2>2 DEF Places, OneAtQueue, ExactUntilOverlap
<1>3. CASE got[w] # Moved
  <2>1. pc' = [pc EXCEPT ![w] = "loop"] /\ got' = [got EXCEPT ![w] = None]
        /\ crashed' = crashed
    BY <1>3 DEF Run, GoTo
  <2>2. TypeOK'
    BY <1>1, <2>1 DEF TypeOK
  <2>3. waiting' = {u \in Worker : pc'[u] = "waiting"}
    BY <1>1, <2>1 DEF TypeOK, Places
  <2> QED BY <1>1, <2>1, <2>2, <2>3, Quiet DEF TypeOK
<1> QED BY <1>2, <1>3

\* The steps of a worker away from the queue, of notify and of the destructor.
LEMMA OtherIInv ==
  ASSUME IInv,
         \/ \E w \in Worker : Loop(w) \/ Check(w) \/ Wait(w) \/ Woken(w) \/ SpuriousWake(w)
         \/ \E x \in Worker \cup Client : NotifyOne(x)
         \/ Stop \/ NotifyAll \/ Joined
  PROVE  IInv'
<1> USE DEF IInv
<1>1. ASSUME NEW w \in Worker, Loop(w) \/ Check(w) \/ Wait(w) \/ Woken(w) \/ SpuriousWake(w)
      PROVE  IInv'
  <2>1. /\ pc[w] \in {"loop", "check", "sleep", "wake", "waiting"}
        /\ UNCHANGED <<running, destructor, queue, shared, got, crashed, order, fetched, overlapped>>
        /\ \E label \in {"check", "done", "sleep", "fetch", "waiting", "wake"} :
             pc' = [pc EXCEPT ![w] = label]
        /\ mutex' \in {mutex, w, None}
    BY <1>1 DEF Loop, Check, Wait, Woken, SpuriousWake, At, GoTo, life, locks, history, Places
  <2>2. waiting' = {u \in Worker : pc'[u] = "waiting"}
    BY <1>1 DEF Loop, Check, Wait, Woken, SpuriousWake, At, GoTo, locks, Places, TypeOK
  <2>3. TypeOK'
    BY <2>1, <2>2 DEF TypeOK
  <2> QED BY <2>1, <2>2, <2>3, Quiet DEF TypeOK
<1>2. ASSUME NEW x \in Worker \cup Client, NotifyOne(x) PROVE IInv'
  <2> DEFINE back == IF x \in Worker THEN "run" ELSE "idle"
  <2>1. /\ pc[x] = "notify"
        /\ UNCHANGED <<running, destructor, queue, mutex, shared, got, crashed, order, fetched, overlapped>>
    BY <1>2 DEF NotifyOne, At, life, history
  <2>2. CASE waiting = {} /\ pc' = [pc EXCEPT ![x] = back] /\ waiting' = waiting
    <3>1. TypeOK'
      BY <2>1, <2>2 DEF TypeOK
    <3>2. waiting' = {u \in Worker : pc'[u] = "waiting"}
      BY <2>1, <2>2 DEF TypeOK, Places
    <3> QED BY <2>1, <2>2, <3>1, <3>2, Quiet DEF TypeOK
  <2>3. ASSUME NEW w \in waiting, waiting' = waiting \ {w},
               pc' = [pc EXCEPT ![x] = back, ![w] = "wake"]
        PROVE  IInv'
    <3>1. w \in Worker /\ pc[w] = "waiting" /\ w # x
      BY <2>1, <2>3 DEF Places
    <3>2. TypeOK'
      BY <2>1, <2>3, <3>1 DEF TypeOK
    <3>3. waiting' = {u \in Worker : pc'[u] = "waiting"}
      BY <2>1, <2>3, <3>1 DEF TypeOK, Places
    <3> QED BY <2>1, <2>3, <3>1, <3>2, <3>3, Quiet DEF TypeOK
  <2> QED BY <1>2, <2>2, <2>3 DEF NotifyOne, GoTo
<1>3. CASE Stop \/ Joined
  <2>1. UNCHANGED <<queue, mutex, shared, waiting, pc, got, crashed, order, fetched, overlapped>>
        /\ running' \in BOOLEAN /\ destructor' \in {"notify", "returned"}
    BY <1>3 DEF Stop, Joined, locks, history, TypeOK
  <2>2. TypeOK'
    BY <2>1 DEF TypeOK
  <2> QED BY <2>1, <2>2, Quiet DEF Places
<1>4. CASE NotifyAll
  <2>1. /\ UNCHANGED <<running, queue, mutex, shared, got, crashed, order, fetched, overlapped>>
        /\ waiting' = {} /\ destructor' = "join"
        /\ pc' = [x \in Worker \cup Client |-> IF x \in waiting THEN "wake" ELSE pc[x]]
    BY <1>4 DEF NotifyAll, history
  <2>2. TypeOK'
    BY <2>1 DEF TypeOK
  <2>3. waiting' = {u \in Worker : pc'[u] = "waiting"}
    BY <2>1 DEF Places
  <2> QED BY <2>1, <2>2, <2>3, Quiet DEF Places
<1> QED BY <1>1, <1>2, <1>3, <1>4

LEMMA NextIInv == IInv /\ [Next]_vars => IInv'
<1> SUFFICES ASSUME IInv, [Next]_vars PROVE IInv'
  OBVIOUS
<1>1. CASE UNCHANGED vars
  BY <1>1 DEF vars, life, locks, history, IInv, TypeOK, Places, OneAtQueue,
              ExactUntilOverlap, Pending
<1>2. CASE Next
  BY <1>2, PushIInv, FetchIInv, MoveFrontIInv, PopIInv, RunIInv, OtherIInv
     DEF Next, WorkerStep
<1> QED BY <1>1, <1>2

\* Type correctness of the pool's state, also when workers race.
THEOREM PoolTyped == Spec => []TypeOK
<1>1. IInv => TypeOK
  BY DEF IInv
<1> QED BY <1>1, InitIInv, NextIInv, PTL DEF Spec

\* Until two workers are at the queue at once, every submitted task is fetched
\* exactly once and in order, and the pool does not crash; for every number of
\* workers, submitters and tasks (thread_pool.h:60-69, 114-137).
THEOREM PoolExactUntilOverlap == Spec => []ExactUntilOverlap
<1>1. IInv => ExactUntilOverlap
  BY DEF IInv
<1> QED BY <1>1, InitIInv, NextIInv, PTL DEF Spec

\* A pool with one worker is an exact FIFO queue for ever: the worker cannot
\* overlap with itself (worker_thread: 1 in the configuration file).
THEOREM LoneWorkerExact ==
  ASSUME \A u, v \in Worker : u = v
  PROVE  Spec => [](~crashed /\ order = fetched \o Pending)
<1> DEFINE Alone == IInv /\ ~overlapped
<1>1. Init => Alone
  BY InitIInv DEF Init
<1>2. Alone /\ [Next]_vars => Alone'
  <2> SUFFICES ASSUME IInv, ~overlapped, [Next]_vars PROVE ~overlapped'
    BY NextIInv
  <2>1. ASSUME NEW w \in Worker, Fetch(w) PROVE ~overlapped'
    <3>1. shared = {}
      BY <2>1 DEF Fetch, At, IInv, Places
    <3> QED BY <2>1, <3>1 DEF Fetch
  <2>2. CASE UNCHANGED overlapped
    BY <2>2
  <2>3. \/ UNCHANGED overlapped
        \/ \E w \in Worker : Fetch(w)
    BY DEF Next, vars, WorkerStep, history, Loop, Check, Wait, Woken, MoveFront, Pop, Run,
           SpuriousWake, NotifyOne, Push, Stop, NotifyAll, Joined
  <2> QED BY <2>1, <2>2, <2>3
<1>3. Alone => ~crashed /\ order = fetched \o Pending
  BY DEF IInv, ExactUntilOverlap
<1> QED BY <1>1, <1>2, <1>3, PTL DEF Spec
-----------------------------------------------------------------------------
(* The pool implements TaskQueue. *)

\* A worker has a task from the move until it has run, and none otherwise.
EmptyHands ==
  \A w \in Worker : pc[w] \notin {"pop", "run", "notify"} => got[w] = None

LEMMA HandsInv == Spec => [](IInv /\ EmptyHands)
<1>1. Init => EmptyHands
  BY DEF Init, EmptyHands
<1>2. IInv /\ EmptyHands /\ [Next]_vars => EmptyHands'
  <2> SUFFICES ASSUME IInv, EmptyHands, [Next]_vars PROVE EmptyHands'
    OBVIOUS
  <2> USE DEF IInv
  <2>1. CASE UNCHANGED vars
    BY <2>1 DEF vars, EmptyHands
  <2>2. ASSUME NEW w \in Worker, WorkerStep(w) \/ SpuriousWake(w) PROVE EmptyHands'
    <3>1. CASE MoveFront(w)
      BY <3>1 DEF MoveFront, GoTo, EmptyHands, TypeOK
    <3>2. CASE Run(w)
      BY <3>2 DEF Run, GoTo, EmptyHands, TypeOK
    <3>3. CASE Fetch(w) \/ Pop(w)
      BY <3>3 DEF Fetch, Pop, At, GoTo, EmptyHands, TypeOK
    <3>4. CASE Loop(w) \/ Check(w) \/ Wait(w) \/ Woken(w) \/ SpuriousWake(w)
      <4>1. pc[w] \in {"loop", "check", "sleep", "wake", "waiting"} /\ UNCHANGED got
        BY <3>4 DEF Loop, Check, Wait, Woken, SpuriousWake, At, Places
      <4>2. \E label : pc' = [pc EXCEPT ![w] = label]
        BY <3>4 DEF Loop, Check, Wait, Woken, SpuriousWake, GoTo
      <4> QED BY <4>1, <4>2 DEF EmptyHands, TypeOK
    <3> QED BY <2>2, <3>1, <3>2, <3>3, <3>4 DEF WorkerStep
  <2>3. ASSUME NEW x \in Worker \cup Client, NEW t \in Task, Push(x, t) PROVE EmptyHands'
    BY <2>3 DEF Push, At, GoTo, EmptyHands, TypeOK
  <2>4. ASSUME NEW x \in Worker \cup Client, NotifyOne(x) PROVE EmptyHands'
    <3> DEFINE back == IF x \in Worker THEN "run" ELSE "idle"
    <3>1. /\ pc[x] = "notify" /\ UNCHANGED got
          /\ \/ pc' = [pc EXCEPT ![x] = back]
             \/ \E w \in waiting : pc' = [pc EXCEPT ![x] = back, ![w] = "wake"]
      BY <2>4 DEF NotifyOne, At, GoTo
    <3>2. \A w \in waiting : w \in Worker /\ pc[w] = "waiting" /\ w # x
      BY <3>1 DEF Places
    <3>3. \A w \in Worker : pc'[w] = pc[w] \/ (w = x /\ pc'[w] = "run") \/ pc[w] = "waiting"
      BY <3>1, <3>2 DEF TypeOK
    <3> QED BY <3>1, <3>3 DEF EmptyHands
  <2>5. CASE Stop \/ NotifyAll \/ Joined
    BY <2>5 DEF Stop, NotifyAll, Joined, EmptyHands, Places
  <2> QED BY <2>1, <2>2, <2>3, <2>4, <2>5 DEF Next
<1> QED BY <1>1, <1>2, InitIInv, NextIInv, PTL DEF Spec

\* Nothing happens to the queue of TaskQueue.
LEMMA Stutter ==
  ASSUME overlapped' = overlapped, ~overlapped => Pending' = Pending /\ got' = got
  PROVE  UNCHANGED Queue!vars
BY DEF Queue!vars

\* Away from the queue nothing is pushed, moved or popped.
LEMMA AwayStutters ==
  ASSUME IInv,
         \/ \E w \in Worker : Loop(w) \/ Check(w) \/ Wait(w) \/ Woken(w) \/ SpuriousWake(w)
         \/ \E x \in Worker \cup Client : NotifyOne(x)
         \/ Stop \/ NotifyAll \/ Joined
  PROVE  UNCHANGED Queue!vars
<1> USE DEF IInv
<1>1. UNCHANGED <<queue, got, overlapped>>
  BY DEF Loop, Check, Wait, Woken, SpuriousWake, NotifyOne, Stop, NotifyAll, Joined,
         history, vars
<1>2. \A u \in Worker : pc'[u] = "pop" <=> pc[u] = "pop"
  <2>1. ASSUME NEW w \in Worker, Loop(w) \/ Check(w) \/ Wait(w) \/ Woken(w) \/ SpuriousWake(w)
        PROVE  <1>2!:
    <3>1. /\ pc[w] # "pop"
          /\ \E label : label # "pop" /\ pc' = [pc EXCEPT ![w] = label]
      BY <2>1 DEF Loop, Check, Wait, Woken, SpuriousWake, At, GoTo, Places
    <3> QED BY <3>1 DEF TypeOK
  <2>2. ASSUME NEW x \in Worker \cup Client, NotifyOne(x) PROVE <1>2!:
    <3> DEFINE back == IF x \in Worker THEN "run" ELSE "idle"
    <3>1. /\ pc[x] = "notify" /\ back # "pop"
          /\ \/ pc' = [pc EXCEPT ![x] = back]
             \/ \E w \in waiting : pc' = [pc EXCEPT ![x] = back, ![w] = "wake"]
      BY <2>2 DEF NotifyOne, At, GoTo
    <3>2. \A w \in waiting : w \in Worker /\ pc[w] = "waiting"
      BY DEF Places
    <3> QED BY <3>1, <3>2 DEF TypeOK
  <2>3. CASE Stop \/ Joined
    BY <2>3 DEF Stop, Joined
  <2>4. CASE NotifyAll
    BY <2>4 DEF NotifyAll, Places
  <2> QED BY <2>1, <2>2, <2>3, <2>4
<1>3. Pending' = Pending
  BY <1>1, <1>2 DEF Pending
<1> QED BY <1>1, <1>3, Stutter

\* Until two workers are at the queue together the pool implements the plain
\* queue of tasks, for every number of workers, submitters and tasks
\* (thread_pool.h:60-69, 114-137).
THEOREM PoolImplementsQueue == Spec => ImplementsQueue
<1>1. Init => Queue!Init
  BY DEF Init, Queue!Init, Queue!Idle, Pending
<1>2. IInv /\ EmptyHands /\ [Next]_vars => [Queue!Next]_(Queue!vars)
  <2> SUFFICES ASSUME IInv, EmptyHands, [Next]_vars PROVE [Queue!Next]_(Queue!vars)
    OBVIOUS
  <2> USE DEF IInv
  <2>1. CASE UNCHANGED vars
    BY <2>1, Stutter DEF vars, history, Pending
  <2>2. ASSUME NEW x \in Worker \cup Client, NEW t \in Task, Push(x, t)
        PROVE  [Queue!Next]_(Queue!vars)
    <3>1. /\ shared = {} /\ queue' = Append(queue, t)
          /\ pc' = [pc EXCEPT ![x] = "notify"]
          /\ UNCHANGED <<got, overlapped>>
      BY <2>2 DEF Push, GoTo
    <3>2. \A w \in Worker : pc[w] # "pop" /\ pc'[w] # "pop"
      BY <3>1 DEF Places, TypeOK
    <3>3. Pending = queue /\ Pending' = Append(queue, t)
      BY <3>1, <3>2 DEF Pending
    <3>4. CASE overlapped
      BY <3>1, <3>4, Stutter
    <3>5. CASE ~overlapped
      BY <3>1, <3>3, <3>5 DEF Queue!Next, Queue!Submit
    <3> QED BY <3>4, <3>5
  <2>3. ASSUME NEW w \in Worker, Fetch(w) PROVE [Queue!Next]_(Queue!vars)
    <3>1. UNCHANGED got /\ (overlapped => overlapped') /\ overlapped' \in BOOLEAN
      BY <2>3, NextIInv DEF Fetch, TypeOK
    <3>2. CASE ~overlapped'
      BY <2>3, <3>1, <3>2, FetchAlone, Stutter DEF TypeOK
    <3>3. CASE overlapped' /\ ~overlapped
      BY <3>1, <3>3 DEF Queue!Next, Queue!Spoil, Queue!Idle
    <3>4. CASE overlapped' /\ overlapped
      BY <3>1, <3>4, Stutter DEF TypeOK
    <3> QED BY <3>2, <3>3, <3>4
  <2>4. ASSUME NEW w \in Worker, MoveFront(w) PROVE [Queue!Next]_(Queue!vars)
    <3>1. UNCHANGED overlapped /\ pc[w] = "front"
      BY <2>4 DEF MoveFront, At
    <3>2. CASE overlapped
      BY <3>1, <3>2, Stutter
    <3>3. CASE ~overlapped
      <4>1. /\ queue # <<>> /\ Pending = queue /\ Pending' = Tail(queue)
            /\ got' = [got EXCEPT ![w] = Head(queue)]
        BY <2>4, <3>3, MoveFrontAlone
      <4>2. got[w] = None
        BY <3>1 DEF EmptyHands
      <4> QED BY <3>1, <3>3, <4>1, <4>2 DEF Queue!Next, Queue!Take
    <3> QED BY <3>2, <3>3
  <2>5. ASSUME NEW w \in Worker, Pop(w) PROVE [Queue!Next]_(Queue!vars)
    <3>1. UNCHANGED <<overlapped, got>>
      BY <2>5 DEF Pop, history
    <3> QED BY <2>5, <3>1, PopAlone, Stutter
  <2>6. ASSUME NEW w \in Worker, Run(w) PROVE [Queue!Next]_(Queue!vars)
    <3>1. UNCHANGED <<overlapped, queue>> /\ pc[w] = "run"
      BY <2>6 DEF Run, At, history
    <3>2. CASE overlapped
      BY <3>1, <3>2, Stutter
    <3>3. CASE ~overlapped
      <4>1. got[w] \in Task
        BY <3>1, <3>3 DEF OneAtQueue
      <4>2. got' = [got EXCEPT ![w] = None] /\ pc' = [pc EXCEPT ![w] = "loop"]
        BY <2>6, <4>1, TaskAssumption DEF Run, GoTo
      <4>3. (\E u \in Worker : pc[u] = "pop") <=> (\E u \in Worker : pc'[u] = "pop")
        BY <3>1, <4>2 DEF TypeOK
      <4>4. Pending' = Pending
        BY <3>1, <4>3 DEF Pending
      <4> QED BY <3>1, <3>3, <4>1, <4>2, <4>4, TaskAssumption DEF Queue!Next, Queue!Finish
    <3> QED BY <3>2, <3>3
  <2> QED BY <2>1, <2>2, <2>3, <2>4, <2>5, <2>6, AwayStutters DEF Next, WorkerStep
<1> QED BY <1>1, <1>2, HandsInv, PTL DEF Spec, ImplementsQueue, Queue!Spec

-----------------------------------------------------------------------------
(* The wakeups. *)

\* A worker holds _mutex from its emptiness check to its wait, and leaves its
\* loop only once the destructor has begun.
Sleepers ==
  \A w \in Worker : /\ pc[w] = "sleep" => mutex = w
                    /\ pc[w] = "done" => ~running

LEMMA SleepersInv == Spec => [](IInv /\ Sleepers)
<1>1. Init => Sleepers
  BY DEF Init, Sleepers
<1>2. IInv /\ Sleepers /\ [Next]_vars => Sleepers'
  <2> SUFFICES ASSUME IInv, Sleepers, [Next]_vars PROVE Sleepers'
    OBVIOUS
  <2> USE DEF IInv
  <2>1. CASE UNCHANGED vars
    BY <2>1 DEF vars, life, locks, Sleepers
  <2>2. ASSUME NEW w \in Worker, WorkerStep(w) \/ SpuriousWake(w) PROVE Sleepers'
    <3>1. CASE Loop(w)
      BY <3>1 DEF Loop, GoTo, life, locks, Sleepers, TypeOK
    <3>2. CASE Check(w)
      BY <3>2, ThreadAssumption DEF Check, GoTo, life, Sleepers, TypeOK
    <3>3. CASE Wait(w)
      <4>1. /\ pc[w] = "sleep" /\ pc' = [pc EXCEPT ![w] = "waiting"]
            /\ UNCHANGED running
        BY <3>3 DEF Wait, At, GoTo, life
      <4>2. \A u \in Worker : pc'[u] # "sleep"
        BY <4>1 DEF Sleepers, TypeOK
      <4> QED BY <4>1, <4>2 DEF Sleepers, TypeOK
    <3>4. CASE Woken(w) \/ SpuriousWake(w) \/ Fetch(w) \/ MoveFront(w) \/ Pop(w) \/ Run(w)
      <4>1. UNCHANGED <<mutex, running>>
        BY <3>4 DEF Woken, SpuriousWake, Fetch, MoveFront, Pop, Run, life, locks
      <4>2. \/ pc' = pc
            \/ \E label \in {"fetch", "wake", "loop", "front", "pop", "run"} :
                  pc' = [pc EXCEPT ![w] = label]
        BY <3>4 DEF Woken, SpuriousWake, Fetch, MoveFront, Pop, Run, GoTo
      <4> QED BY <4>1, <4>2 DEF Sleepers, TypeOK
    <3> QED BY <2>2, <3>1, <3>2, <3>3, <3>4 DEF WorkerStep
  <2>3. ASSUME NEW x \in Worker \cup Client, NEW t \in Task, Push(x, t) PROVE Sleepers'
    BY <2>3 DEF Push, GoTo, life, locks, Sleepers, TypeOK
  <2>4. ASSUME NEW x \in Worker \cup Client, NotifyOne(x) PROVE Sleepers'
    <3> DEFINE back == IF x \in Worker THEN "run" ELSE "idle"
    <3>1. /\ UNCHANGED <<mutex, running>>
          /\ \/ pc' = [pc EXCEPT ![x] = back]
             \/ \E w \in waiting : pc' = [pc EXCEPT ![x] = back, ![w] = "wake"]
      BY <2>4 DEF NotifyOne, GoTo, life
    <3>2. \A w \in Worker : pc'[w] = pc[w] \/ pc'[w] \in {"run", "idle", "wake"}
      BY <3>1 DEF TypeOK
    <3> QED BY <3>1, <3>2 DEF Sleepers
  <2>5. CASE Stop \/ NotifyAll \/ Joined
    BY <2>5 DEF Stop, NotifyAll, Joined, locks, Sleepers
  <2> QED BY <2>1, <2>2, <2>3, <2>4, <2>5 DEF Next
<1> QED BY <1>1, <1>2, InitIInv, NextIInv, PTL DEF Spec

\* The pool leaves tasks to sleeping workers in no other way than by a
\* notification that falls between a worker's emptiness check and its wait, for
\* every number of submitters, of tasks and of workers, as long as there is one
\* (thread_pool.h:60-69, 114-137).
THEOREM PoolLosesWakeupsInWindow ==
  ASSUME Worker # {}
  PROVE  Spec => WakeupLostOnlyInWindow
<1> DEFINE Lost == /\ waiting = {} /\ mutex # None
                   /\ \E c \in Client : pc[c] = "notify" /\ pc'[c] = "idle"
<1>1. IInv /\ Sleepers /\ [Next]_vars => [Watched => Watched' \/ Lost]_vars
  <2> SUFFICES ASSUME IInv, Sleepers, Next, Watched, ~Lost PROVE Watched'
    OBVIOUS
  <2> USE DEF IInv
  <2>1. ASSUME NEW w \in Worker, pc'[w] \notin {"sleep", "waiting"} PROVE Watched'
    BY <2>1 DEF Watched
  <2>2. ASSUME NEW w \in Worker,
               Loop(w) \/ Woken(w) \/ SpuriousWake(w) \/ Fetch(w) \/ MoveFront(w)
                 \/ Pop(w) \/ Run(w)
        PROVE  Watched'
    <3>1. pc'[w] \notin {"sleep", "waiting"}
      BY <2>2 DEF Loop, Woken, SpuriousWake, Fetch, MoveFront, Pop, Run, At, GoTo, TypeOK
    <3> QED BY <2>1, <3>1
  <2>3. ASSUME NEW w \in Worker, Check(w) PROVE Watched'
    <3>1. CASE queue = <<>>
      BY <2>3, <3>1 DEF Check, Watched
    <3>2. CASE queue # <<>>
      <4>1. pc'[w] = "fetch"
        BY <2>3, <3>2 DEF Check, GoTo, TypeOK
      <4> QED BY <2>1, <4>1
    <3> QED BY <3>1, <3>2
  <2>4. ASSUME NEW w \in Worker, Wait(w) PROVE Watched'
    <3>1. /\ pc[w] = "sleep" /\ pc' = [pc EXCEPT ![w] = "waiting"]
          /\ UNCHANGED <<queue, running, crashed>>
      BY <2>4 DEF Wait, At, GoTo, life
    <3>2. ASSUME NEW u \in Worker, pc[u] \notin {"sleep", "waiting"} PROVE Watched'
      BY <2>1, <3>1, <3>2 DEF TypeOK
    <3>3. ASSUME NEW c \in Client, pc[c] = "notify" PROVE Watched'
      BY <3>1, <3>3 DEF Watched, TypeOK
    <3> QED BY <3>1, <3>2, <3>3 DEF Watched
  <2>5. ASSUME NEW x \in Worker \cup Client, NEW t \in Task, Push(x, t) PROVE Watched'
    <3>1. pc'[x] = "notify"
      BY <2>5 DEF Push, GoTo, TypeOK
    <3> QED BY <3>1 DEF Watched
  <2>6. ASSUME NEW x \in Worker \cup Client, NotifyOne(x) PROVE Watched'
    <3> DEFINE back == IF x \in Worker THEN "run" ELSE "idle"
    <3>1. pc[x] = "notify"
      BY <2>6 DEF NotifyOne, At
    <3>2. ASSUME NEW w \in waiting, pc' = [pc EXCEPT ![x] = back, ![w] = "wake"]
          PROVE  Watched'
      <4>1. w \in Worker /\ pc'[w] = "wake"
        BY <3>2 DEF TypeOK
      <4> QED BY <2>1, <4>1
    <3>3. CASE waiting = {} /\ pc' = [pc EXCEPT ![x] = back]
      <4>1. CASE x \in Worker
        <5>1. pc'[x] = "run"
          BY <3>3, <4>1 DEF TypeOK
        <5> QED BY <2>1, <4>1, <5>1
      <4>2. CASE x \notin Worker
        <5>1. x \in Client /\ pc'[x] = "idle"
          BY <3>3, <4>2 DEF TypeOK
        <5>2. mutex = None
          BY <3>1, <3>3, <5>1
        <5>3. PICK w \in Worker : TRUE
          OBVIOUS
        <5>4. pc[w] # "sleep" /\ pc[w] # "waiting" /\ pc'[w] = pc[w]
          BY <3>3, <4>2, <5>2, ThreadAssumption DEF Sleepers, Places, TypeOK
        <5> QED BY <2>1, <5>4
      <4> QED BY <4>1, <4>2
    <3> QED BY <2>6, <3>2, <3>3 DEF NotifyOne, GoTo
  <2>7. CASE Stop \/ NotifyAll \/ Joined
    <3>1. CASE Stop
      BY <3>1 DEF Stop, Watched
    <3>2. CASE Joined
      BY <3>2 DEF Joined, Watched
    <3>3. CASE NotifyAll
      <4>1. /\ UNCHANGED <<running, queue, crashed>>
            /\ pc' = [x \in Worker \cup Client |-> IF x \in waiting THEN "wake" ELSE pc[x]]
        BY <3>3 DEF NotifyAll
      <4>2. ASSUME NEW u \in Worker, pc[u] \notin {"sleep", "waiting"} PROVE Watched'
        BY <2>1, <4>1, <4>2 DEF TypeOK
      <4>3. ASSUME NEW c \in Client, pc[c] = "notify" PROVE Watched'
        <5>1. pc'[c] = "notify"
          BY <4>1, <4>3 DEF Places
        <5> QED BY <4>3, <5>1 DEF Watched
      <4> QED BY <4>1, <4>2, <4>3 DEF Watched
    <3> QED BY <2>7, <3>1, <3>2, <3>3
  <2> QED BY <2>2, <2>3, <2>4, <2>5, <2>6, <2>7 DEF Next, WorkerStep
<1> QED BY <1>1, SleepersInv, PTL DEF Spec, WakeupLostOnlyInWindow

=============================================================================
