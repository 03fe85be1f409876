---------------------- MODULE ManagementConsoleProofs ----------------------
(****************************************************************************)
(* Proofs about ManagementConsole: for any number of connections and        *)
(* descriptors, a thread only uses a socket of its own, no container is     *)
(* destroyed under its thread, and the libevent thread never waits for a    *)
(* client.  The liveness property rests on fairness and stays with TLC.     *)
(****************************************************************************)
EXTENDS ManagementConsole, TLAPS

LoopType == [pc : {"wait", "build", "join"}, new : Container \cup {None},
             old : Container \cup {None}, step : 0 .. Members]

\* _thread_management_container: its keys are the descriptors of containers
\* that exist.
MapInv == \A f \in Fd : map[f] # None => map[f] \in alive /\ fd[map[f]] = f

\* The container accept_handler is making has been given a descriptor that no
\* thread was using, is not in the map yet, and destroys the one in its place.
NewInv ==
  loop.pc # "wait" =>
    /\ loop.new \in alive /\ fd[loop.new] \in Fd
    /\ \A f \in Fd : map[f] # loop.new
    /\ \A c \in Container \ {loop.new} : fd[c] = fd[loop.new] => pc[c] \notin Serving
    /\ loop.pc = "join" => loop.old = map[fd[loop.new]]

\* A thread knows its descriptor to the end, also when it is closed.
FdInv == \A c \in Container : pc[c] \in Running => fd[c] \in Fd

\* The inductive invariant.
IInv ==
  /\ TypeOK /\ loop \in LoopType
  /\ SocketsNotShared /\ NoThreadOutlives /\ JoinsOnlyClosed
  /\ MapInv /\ NewInv /\ FdInv

LEMMA IdleIsLoop ==
  /\ Idle \in LoopType /\ Idle.pc = "wait" /\ Idle.step \in 0 .. Members
  BY DEF Idle, LoopType, Members

\* What all threads being gone implies.
LEMMA QuietInv ==
  ASSUME TypeOK', map' = [f \in Fd |-> None], loop' = Idle,
         pc' = [c \in Container |-> "done"]
  PROVE  IInv'
  BY IdleIsLoop
  DEF IInv, SocketsNotShared, NoThreadOutlives, JoinsOnlyClosed, MapInv, NewInv, FdInv,
      Serving, Running

LEMMA InitIInv == Init => IInv
<1> SUFFICES ASSUME Init PROVE IInv
  OBVIOUS
<1>1. typed \in 0 .. MaxLines
  BY LinesAssumption DEF Init
<1>2. TypeOK
  BY <1>1, IdleIsLoop DEF Init, TypeOK
<1>3. MapInv /\ NewInv
  BY IdleIsLoop DEF Init, MapInv, NewInv
<1>4. SocketsNotShared /\ NoThreadOutlives /\ JoinsOnlyClosed /\ FdInv
  BY IdleIsLoop
  DEF Init, SocketsNotShared, NoThreadOutlives, JoinsOnlyClosed, FdInv, Serving, Running
<1> QED BY <1>2, <1>3, <1>4, IdleIsLoop DEF IInv, Init

LEMMA DieInv ==
  ASSUME IInv, NEW cause \in {"SIGPIPE", "command", "length_error", "bad_alloc", "callback"},
         Die(cause)
  PROVE  IInv'
<1>1. TypeOK'
  BY IdleIsLoop DEF IInv, TypeOK, Die
<1> QED BY <1>1, QuietInv DEF Die

\* A thread that stays with its socket, whatever it reads.
LEMMA MoveInv ==
  ASSUME IInv, NEW c \in Container, pc[c] \in Serving, NEW label \in Serving, GoTo(c, label),
         UNCHANGED <<open, client, interfaceVars, alive, fd, flag, typed, died>>,
         input' \in [Fd -> Line \cup {None}], line' \in [Container -> Line \cup {None}]
  PROVE  IInv'
<1> USE DEF IInv, interfaceVars
<1>1. pc' = [pc EXCEPT ![c] = label] /\ pc \in [Container -> Running \cup {"done"}]
  BY DEF GoTo, TypeOK
<1>2. TypeOK'
  BY <1>1 DEF TypeOK, Running
<1>3. \A d \in Container : pc'[d] \in Serving <=> pc[d] \in Serving
  BY <1>1
<1>4. \A d \in Container : pc'[d] \in Running <=> pc[d] \in Running
  BY <1>1 DEF Running
<1>5. SocketsNotShared' /\ NoThreadOutlives' /\ FdInv'
  BY <1>3, <1>4 DEF SocketsNotShared, NoThreadOutlives, FdInv
<1>6. JoinsOnlyClosed'
  BY <1>1 DEF JoinsOnlyClosed, TypeOK, Serving
<1>7. MapInv' /\ NewInv'
  BY <1>3 DEF MapInv, NewInv
<1> QED BY <1>2, <1>5, <1>6, <1>7

LEMMA WritesInv ==
  ASSUME IInv, NEW c \in Container, pc[c] \in Serving, NEW label \in Serving, Writes(c, label)
  PROVE  IInv'
<1>1. CASE client[fd[c]] = "closed"
  BY <1>1, DieInv DEF Writes
<1>2. CASE client[fd[c]] # "closed"
  <2>1. input' \in [Fd -> Line \cup {None}] /\ line' \in [Container -> Line \cup {None}]
    BY <1>2 DEF Writes, IInv, TypeOK, socketVars
  <2> QED BY <1>2, <2>1, MoveInv DEF Writes, socketVars
<1> QED BY <1>1, <1>2

\* The commands.
LEMMA RunInv == ASSUME IInv, NEW c \in Container, Run(c) PROVE IInv'
<1>0. pc[c] = "run" /\ pc[c] \in Serving /\ "test" \in Serving /\ "hung" \in Serving
  BY DEF Run, Serving
<1>1. ASSUME GoTo(c, "hung"),
             UNCHANGED <<socketVars, interfaceVars, alive, fd, flag, line, typed, died>>
      PROVE  IInv'
  BY <1>0, <1>1, MoveInv DEF socketVars, IInv, TypeOK
<1>2. ASSUME NEW command, NEW args, Executes(c, command, args) PROVE IInv'
  BY <1>0, <1>1, <1>2, WritesInv, DieInv DEF Executes
<1> QED
  BY <1>0, <1>1, <1>2, WritesInv, DieInv DEF Run

\* ConnectionContainer::run.
LEMMA ThreadInv == ASSUME IInv, NEW c \in Container, ThreadStep(c) PROVE IInv'
<1>1. CASE TestFlag(c)
  <2>0. pc[c] \in Serving /\ "read" \in Serving /\ "close" \in Serving
    BY <1>1 DEF TestFlag, Serving
  <2>1. CASE Writes(c, "read")
    BY <2>0, <2>1, WritesInv
  <2>2. CASE GoTo(c, "close") /\ UNCHANGED <<socketVars, interfaceVars, alive, fd, flag,
                                             line, typed, died>>
    BY <2>0, <2>2, MoveInv DEF socketVars, IInv, TypeOK
  <2> QED BY <1>1, <2>1, <2>2 DEF TestFlag
<1>2. CASE ReadLine(c)
  <2>0. pc[c] \in Serving /\ "run" \in Serving
    BY <1>2 DEF ReadLine, Serving
  <2>1. fd[c] \in Fd
    BY <2>0 DEF IInv, TypeOK, SocketsNotShared
  <2>2. input' \in [Fd -> Line \cup {None}] /\ line' \in [Container -> Line \cup {None}]
    BY <1>2, <2>1 DEF ReadLine, IInv, TypeOK
  <2> QED BY <1>2, <2>0, <2>2, MoveInv DEF ReadLine
<1>3. CASE ReadEof(c)
  <2>0. pc[c] \in Serving /\ "test" \in Serving
    BY <1>3 DEF ReadEof, Serving
  <2> QED BY <1>3, <2>0, MoveInv DEF ReadEof, socketVars, IInv, TypeOK
<1>4. CASE Run(c)
  BY <1>4, RunInv
<1>5. CASE CloseSocket(c)
  <2> USE DEF IInv, interfaceVars
  <2>0. pc[c] = "close" /\ pc' = [pc EXCEPT ![c] = "callback"] /\ pc[c] \in Serving
        /\ pc \in [Container -> Running \cup {"done"}]
    BY <1>5 DEF CloseSocket, GoTo, Serving, TypeOK
  <2>1. fd[c] \in Fd
    BY <2>0 DEF TypeOK, SocketsNotShared
  <2>2. TypeOK'
    BY <1>5, <2>0, <2>1 DEF CloseSocket, TypeOK, Running
  <2>3. pc'[c] \notin Serving /\ \A d \in Container \ {c} : pc'[d] = pc[d]
    BY <2>0 DEF Serving
  <2>4. SocketsNotShared'
    BY <1>5, <2>0, <2>3 DEF CloseSocket, SocketsNotShared
  <2>5. NoThreadOutlives' /\ FdInv'
    BY <1>5, <2>0, <2>3 DEF CloseSocket, NoThreadOutlives, FdInv, Running
  <2>6. JoinsOnlyClosed'
    BY <1>5, <2>0 DEF CloseSocket, JoinsOnlyClosed, TypeOK
  <2>7. MapInv' /\ NewInv'
    BY <1>5, <2>0, <2>3 DEF CloseSocket, MapInv, NewInv
  <2> QED BY <1>5, <2>2, <2>4, <2>5, <2>6, <2>7 DEF CloseSocket
<1>6. CASE Callback(c)
  <2>1. CASE Die("callback")
    BY <2>1, DieInv
  <2>2. CASE ~Die("callback")
    <3> USE DEF IInv, socketVars
    <3>0. pc[c] = "callback" /\ pc' = [pc EXCEPT ![c] = "done"]
          /\ pc \in [Container -> Running \cup {"done"}]
          /\ UNCHANGED <<socketVars, map, loop, alive, fd, flag, line, typed, died>>
      BY <1>6, <2>2 DEF Callback, GoTo, TypeOK
    <3>1. fd[c] \in Fd
      BY <3>0 DEF FdInv, Running
    <3>2. destroys' \subseteq Fd
      BY <1>6, <2>2, <3>1 DEF Callback, TypeOK
    <3>3. TypeOK'
      BY <3>0, <3>2 DEF TypeOK
    <3>4. pc'[c] = "done" /\ \A d \in Container \ {c} : pc'[d] = pc[d]
      BY <3>0
    <3>5. SocketsNotShared' /\ NoThreadOutlives' /\ FdInv'
      BY <3>0, <3>4 DEF SocketsNotShared, NoThreadOutlives, FdInv, Serving, Running
    <3>6. JoinsOnlyClosed'
      BY <3>0 DEF JoinsOnlyClosed, TypeOK
    <3>7. MapInv' /\ NewInv'
      BY <3>0, <3>4 DEF MapInv, NewInv, Serving
    <3> QED BY <3>0, <3>3, <3>5, <3>6, <3>7
  <2> QED BY <2>1, <2>2
<1> QED
  BY <1>1, <1>2, <1>3, <1>4, <1>5, <1>6 DEF ThreadStep

\* accept_handler gives a new container a descriptor that is not open.
LEMMA AcceptInv ==
  ASSUME IInv, NEW f \in Fd, NEW c \in Container, Accept(f, c) PROVE IInv'
<1> USE DEF IInv
<1>0. /\ c \notin alive /\ f \notin open /\ alive' = alive \cup {c}
      /\ open' = open \cup {f}
      /\ pc' = [pc EXCEPT ![c] = "test"] /\ pc \in [Container -> Running \cup {"done"}]
      /\ fd' = [fd EXCEPT ![c] = f] /\ fd \in [Container -> Fd \cup {None}]
      /\ UNCHANGED <<input, map, destroys, flag, line, typed, died>>
  BY DEF Accept, GoTo, TypeOK
<1>1. /\ loop' = [pc |-> "build", new |-> c, old |-> None, step |-> 0]
      /\ loop' \in LoopType /\ loop'.pc = "build" /\ loop'.new = c /\ loop'.step \in 0 .. Members
  BY DEF Accept, LoopType, Members
<1>2. TypeOK'
  BY <1>0, <1>1 DEF Accept, TypeOK, Running, Serving
<1>3. /\ pc'[c] = "test" /\ fd'[c] = f /\ pc[c] \notin Running
      /\ \A d \in Container \ {c} : pc'[d] = pc[d] /\ fd'[d] = fd[d]
  BY <1>0 DEF NoThreadOutlives
<1>4. \A d \in Container \ {c} : fd[d] = f => pc[d] \notin Serving
  BY <1>0 DEF SocketsNotShared
<1>5. SocketsNotShared'
  <2>1. \A d \in Container : pc'[d] \in Serving => fd'[d] \in open'
    BY <1>0, <1>3 DEF SocketsNotShared
  <2>2. ASSUME NEW d \in Container, NEW e \in Container, d # e, pc'[d] \in Serving,
               pc'[e] \in Serving
        PROVE  fd'[d] # fd'[e]
    BY <1>3, <1>4, <2>2 DEF SocketsNotShared
  <2> QED BY <2>1, <2>2 DEF SocketsNotShared
<1>6. NoThreadOutlives' /\ FdInv'
  BY <1>0, <1>3 DEF NoThreadOutlives, FdInv
<1>7. \A g \in Fd : map[g] # c
  BY <1>0, NoneAssumption DEF MapInv
<1>8. MapInv'
  BY <1>0, <1>3, <1>7 DEF MapInv, TypeOK
<1>9. NewInv'
  BY <1>0, <1>1, <1>3, <1>4, <1>7 DEF NewInv
<1> QED BY <1>1, <1>2, <1>5, <1>6, <1>8, <1>9 DEF JoinsOnlyClosed

\* The rest of accept_handler.
LEMMA LoopInv == ASSUME IInv, LoopStep PROVE IInv'
<1> USE DEF IInv, socketVars, threadVars
<1>0. loop \in LoopType
  OBVIOUS
<1>1. CASE Build
  <2>1. /\ loop' = [loop EXCEPT !.step = loop.step + 1] /\ loop.pc = "build"
        /\ loop.step + 1 \in 0 .. Members
        /\ UNCHANGED <<socketVars, map, destroys, alive, fd, pc, line, typed, died>>
    BY <1>1 DEF Build, LoopType, Members
  <2>2. loop' \in LoopType /\ loop'.pc = loop.pc /\ loop'.new = loop.new /\ loop'.old = loop.old
        /\ loop'.step \in 0 .. Members
    BY <2>1 DEF LoopType
  <2>3. flag' \in [Container -> BOOLEAN]
    BY <1>1 DEF Build, TypeOK
  <2>4. TypeOK'
    BY <2>1, <2>2, <2>3 DEF TypeOK
  <2>5. SocketsNotShared' /\ NoThreadOutlives' /\ FdInv' /\ MapInv'
    BY <2>1 DEF SocketsNotShared, NoThreadOutlives, FdInv, MapInv
  <2>6. JoinsOnlyClosed' /\ NewInv'
    BY <2>1, <2>2 DEF JoinsOnlyClosed, NewInv
  <2> QED BY <2>2, <2>4, <2>5, <2>6
<1>2. CASE Emplace
  <2>0. loop.new \in Container /\ loop.new \in alive /\ fd[loop.new] \in Fd
    BY <1>2 DEF Emplace, TypeOK, NewInv
  <2>1. /\ map' = [map EXCEPT ![fd[loop.new]] = loop.new] /\ loop' = Idle
        /\ UNCHANGED <<socketVars, destroys, threadVars, typed, died>>
    BY <1>2 DEF Emplace
  <2>2. TypeOK'
    BY <2>0, <2>1, IdleIsLoop DEF TypeOK
  <2>3. SocketsNotShared' /\ NoThreadOutlives' /\ FdInv'
    BY <2>1 DEF SocketsNotShared, NoThreadOutlives, FdInv
  <2>4. MapInv'
    BY <2>0, <2>1 DEF MapInv, TypeOK
  <2>5. JoinsOnlyClosed' /\ NewInv'
    BY <2>1, IdleIsLoop DEF JoinsOnlyClosed, NewInv
  <2> QED BY <2>1, <2>2, <2>3, <2>4, <2>5, IdleIsLoop
<1>3. CASE EraseOld
  <2> DEFINE old == map[fd[loop.new]]
  <2>0. loop.new \in Container /\ fd[loop.new] \in Fd /\ loop.pc = "build"
    BY <1>3 DEF EraseOld, TypeOK, NewInv
  <2>1. /\ old # None /\ loop' = [loop EXCEPT !.pc = "join", !.old = old]
        /\ flag' = [flag EXCEPT ![old] = FALSE]
        /\ UNCHANGED <<socketVars, map, destroys, alive, fd, pc, line, typed, died>>
    BY <1>3 DEF EraseOld
  <2>2. old \in Container /\ old # loop.new /\ fd[old] = fd[loop.new]
    BY <2>0, <2>1 DEF TypeOK, MapInv, NewInv
  <2>3. pc[old] \in {"callback", "done"}
    BY <2>0, <2>2 DEF NewInv, TypeOK, Running
  <2>a. old = map[fd[loop.new]]
    OBVIOUS
  <2> HIDE DEF old
  <2>4. loop' \in LoopType /\ loop'.pc = "join" /\ loop'.new = loop.new /\ loop'.old = old
        /\ loop'.step = loop.step
    BY <2>1, <2>2, <1>0 DEF LoopType
  <2>5. flag' \in [Container -> BOOLEAN]
    BY <2>1 DEF TypeOK
  <2>6. TypeOK'
    BY <2>0, <2>1, <2>2, <2>4, <2>5 DEF TypeOK
  <2>7. SocketsNotShared' /\ NoThreadOutlives' /\ FdInv' /\ MapInv'
    BY <2>1 DEF SocketsNotShared, NoThreadOutlives, FdInv, MapInv
  <2>8. JoinsOnlyClosed' /\ NewInv'
    BY <2>0, <2>1, <2>3, <2>4, <2>a DEF JoinsOnlyClosed, NewInv
  <2> QED BY <2>4, <2>6, <2>7, <2>8
<1>4. CASE Join
  <2> DEFINE new == loop.new
             old == loop.old
  <2>0. /\ new \in Container /\ old \in Container /\ fd[new] \in Fd /\ new \in alive
        /\ old = map[fd[new]] /\ \A f \in Fd : map[f] # new
        /\ pc[old] = "done"
    BY <1>4 DEF Join, TypeOK, NewInv
  <2>1. /\ alive' = alive \ {old} /\ fd' = [fd EXCEPT ![old] = None]
        /\ map' = [map EXCEPT ![fd[new]] = new] /\ loop' = Idle
        /\ UNCHANGED <<socketVars, destroys, flag, pc, line, typed, died>>
    BY <1>4 DEF Join
  <2> HIDE DEF new, old
  <2>2. old # new /\ \A c \in Container \ {old} : fd'[c] = fd[c]
    BY <2>0, <2>1 DEF TypeOK
  <2>3. TypeOK'
    BY <2>0, <2>1, IdleIsLoop DEF TypeOK
  <2>4. SocketsNotShared' /\ NoThreadOutlives' /\ FdInv'
    BY <2>0, <2>1, <2>2 DEF SocketsNotShared, NoThreadOutlives, FdInv, Serving, Running
  <2>5. ASSUME NEW f \in Fd, map'[f] # None PROVE map'[f] \in alive' /\ fd'[map'[f]] = f
    <3>1. CASE f = fd[new]
      BY <2>0, <2>1, <2>2, <3>1 DEF TypeOK
    <3>2. CASE f # fd[new]
      <4>1. map'[f] = map[f] /\ map[f] \in alive /\ fd[map[f]] = f /\ map[f] \in Container
        BY <2>0, <2>1, <2>5, <3>2 DEF TypeOK, MapInv
      <4>2. map[f] # old
        BY <2>0, <3>2, <4>1, NoneAssumption DEF MapInv
      <4> QED BY <2>1, <2>2, <4>1, <4>2
    <3> QED BY <3>1, <3>2
  <2>6. JoinsOnlyClosed' /\ NewInv'
    BY <2>1, IdleIsLoop DEF JoinsOnlyClosed, NewInv
  <2> QED BY <2>1, <2>3, <2>4, <2>5, <2>6, IdleIsLoop DEF MapInv
<1> QED
  BY <1>1, <1>2, <1>3, <1>4 DEF LoopStep

\* What the clients do.
LEMMA ClientInv == ASSUME IInv, ClientStep PROVE IInv'
<1> USE DEF IInv, interfaceVars, threadVars
<1>1. ASSUME NEW f \in Fd, NEW l \in Line, Type(f, l) PROVE IInv'
  <2>1. typed \in 0 .. MaxLines
    BY DEF TypeOK
  <2>2. typed' \in 0 .. MaxLines
    BY <1>1, <2>1, LinesAssumption DEF Type
  <2>3. TypeOK'
    BY <1>1, <2>2 DEF Type, TypeOK
  <2>4. SocketsNotShared' /\ NoThreadOutlives' /\ FdInv' /\ MapInv'
    BY <1>1 DEF Type, SocketsNotShared, NoThreadOutlives, FdInv, MapInv
  <2>5. JoinsOnlyClosed' /\ NewInv'
    BY <1>1 DEF Type, JoinsOnlyClosed, NewInv
  <2> QED BY <1>1, <2>3, <2>4, <2>5 DEF Type
<1>2. ASSUME NEW f \in Fd, NEW how \in {"half", "closed"}, HangUp(f, how) PROVE IInv'
  <2>3. TypeOK'
    BY <1>2 DEF HangUp, TypeOK
  <2>4. SocketsNotShared' /\ NoThreadOutlives' /\ FdInv' /\ MapInv'
    BY <1>2 DEF HangUp, SocketsNotShared, NoThreadOutlives, FdInv, MapInv
  <2>5. JoinsOnlyClosed' /\ NewInv'
    BY <1>2 DEF HangUp, JoinsOnlyClosed, NewInv
  <2> QED BY <1>2, <2>3, <2>4, <2>5 DEF HangUp
<1> QED BY <1>1, <1>2 DEF ClientStep

\* The invariant is inductive.
LEMMA NextIInv == IInv /\ [Next]_vars => IInv'
<1> SUFFICES ASSUME IInv, [Next]_vars PROVE IInv'
  OBVIOUS
<1>1. CASE ClientStep
  BY <1>1, ClientInv
<1>2. CASE AcceptStep
  BY <1>2, AcceptInv DEF AcceptStep
<1>3. CASE LoopStep
  BY <1>3, LoopInv
<1>4. ASSUME NEW c \in Container, ThreadStep(c) \/ Exhausted(c) PROVE IInv'
  BY <1>4, ThreadInv, DieInv DEF Exhausted
<1>5. CASE UNCHANGED vars
  <2> USE <1>5 DEF vars, socketVars, interfaceVars, threadVars
  <2>1. TypeOK'
    BY DEF IInv, TypeOK
  <2>2. SocketsNotShared' /\ NoThreadOutlives' /\ FdInv' /\ MapInv'
    BY DEF IInv, SocketsNotShared, NoThreadOutlives, FdInv, MapInv
  <2>3. JoinsOnlyClosed' /\ NewInv'
    BY DEF IInv, JoinsOnlyClosed, NewInv
  <2> QED BY <2>1, <2>2, <2>3 DEF IInv
<1> QED BY <1>1, <1>2, <1>3, <1>4, <1>5 DEF Next

LEMMA AlwaysIInv == Spec => []IInv
  BY InitIInv, NextIInv, PTL DEF Spec

\* Type correctness of the console.
THEOREM ConsoleTyped == Spec => []TypeOK
<1>1. IInv => TypeOK BY DEF IInv
<1> QED BY AlwaysIInv, <1>1, PTL

\* A descriptor is reused as soon as it is closed, but never under a thread
\* that still uses it (manage_interface.cc:129).
THEOREM ThreadsHaveOwnSockets == Spec => []SocketsNotShared
<1>1. IInv => SocketsNotShared BY DEF IInv
<1> QED BY AlwaysIInv, <1>1, PTL

\* Destroying a container never leaves its thread behind
\* (connection_container.cc:18-25).
THEOREM ContainersOutliveThreads == Spec => []NoThreadOutlives
<1>1. IInv => NoThreadOutlives BY DEF IInv
<1> QED BY AlwaysIInv, <1>1, PTL

\* The libevent thread joins only threads that are done with their client
\* (connection_container.cc:23).
THEOREM JoinNeedsNoClient == Spec => []JoinsOnlyClosed
<1>1. IInv => JoinsOnlyClosed BY DEF IInv
<1> QED BY AlwaysIInv, <1>1, PTL
=============================================================================
