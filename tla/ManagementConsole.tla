------------------------- MODULE ManagementConsole -------------------------
(****************************************************************************)
(* The management console: ManagementInterface (daemon/manage_interface.cc) *)
(* accepts connections on the libevent thread, and each ConnectionContainer *)
(* (daemon/interface/connection_container.cc) serves one of them on a       *)
(* thread of its own, which its constructor starts and its destructor joins.*)
(*                                                                          *)
(* The thread is the first member of the container, so it runs while the    *)
(* flag, the session, the callback and the command map behind it are still  *)
(* being initialised.  A member that is read before that has any value.     *)
(*                                                                          *)
(* The management thread's own start is in DeviceStartup, what a command    *)
(* does to the user's session in ApiClient; here a command is answered,     *)
(* hangs, or takes the process down.                                        *)
(****************************************************************************)
EXTENDS CommandParser

CONSTANTS Container,   \* the objects on the heap, each with its thread
          Fd,          \* file descriptors
          Line,        \* what clients type, see CommandParser
          MaxLines,    \* bound: lines typed
          None         \* no container, no line, no descriptor

ASSUME LinesAssumption == MaxLines \in Nat
ASSUME NoneAssumption == None \notin Container \cup Line \cup Fd

VARIABLES open,     \* the descriptors of connections
          client,   \* the other end: "open", "half" (it will send no more), "closed"
          input,    \* a line in the socket's buffer
          map,      \* _thread_management_container
          destroys, \* _destroy_list
          loop,     \* the libevent thread: where in accept_handler, and for whom
          alive,    \* the containers that exist
          fd,       \* the socket_fd of each container's thread
          flag,     \* _running_flag
          pc, line, \* each thread's place in run, and the command it runs
          typed,    \* the number of lines typed
          died      \* what has ended the process, "no" while it runs

socketVars == <<open, client, input>>
interfaceVars == <<map, destroys, loop>>
threadVars == <<alive, fd, flag, pc, line>>
vars == <<socketVars, interfaceVars, threadVars, typed, died>>

\* The constructor's steps behind the thread: _running_flag, _session,
\* _destroy_callback, _instance_map.
Members == 4

\* accept_handler is not running: libevent waits for a connection.
Idle == [pc |-> "wait", new |-> None, old |-> None, step |-> 0]

Built(c) == IF loop.pc = "build" /\ loop.new = c THEN loop.step ELSE Members

\* _destroy_callback refers to a function: accept_handler's temporary.
Bound(c) == loop.pc = "build" /\ loop.new = c /\ loop.step >= Members - 1

Serving == {"test", "read", "run", "hung", "close"}
Running == Serving \cup {"callback"}

Init ==
  /\ open = {}
  /\ client = [f \in Fd |-> "closed"]
  /\ input = [f \in Fd |-> None]
  /\ map = [f \in Fd |-> None]
  /\ destroys = {}
  /\ loop = Idle
  /\ alive = {}
  /\ fd = [c \in Container |-> None]
  /\ flag = [c \in Container |-> FALSE]
  /\ pc = [c \in Container |-> "done"]
  /\ line = [c \in Container |-> None]
  /\ typed = 0
  /\ died = "no"

Up == died = "no"

GoTo(c, label) == pc' = [pc EXCEPT ![c] = label]

\* The process ends, and all connections with it.
Die(cause) ==
  /\ died' = cause
  /\ open' = {}
  /\ client' = [f \in Fd |-> "closed"]
  /\ input' = [f \in Fd |-> None]
  /\ map' = [f \in Fd |-> None]
  /\ destroys' = {}
  /\ loop' = Idle
  /\ alive' = {}
  /\ fd' = [c \in Container |-> None]
  /\ flag' = [c \in Container |-> FALSE]
  /\ pc' = [c \in Container |-> "done"]
  /\ line' = [c \in Container |-> None]
  /\ UNCHANGED typed

-----------------------------------------------------------------------------
(* Clients.                                                                 *)

Type(f, l) ==
  /\ f \in open /\ client[f] = "open" /\ input[f] = None
  /\ typed < MaxLines
  /\ input' = [input EXCEPT ![f] = l]
  /\ typed' = typed + 1
  /\ UNCHANGED <<open, client, interfaceVars, threadVars, died>>

HangUp(f, how) ==
  /\ f \in open /\ client[f] # "closed" /\ client[f] # how
  /\ client' = [client EXCEPT ![f] = how]
  /\ UNCHANGED <<open, input, interfaceVars, threadVars, typed, died>>

-----------------------------------------------------------------------------
(* The libevent thread: accept_handler.  An accept that fails changes       *)
(* nothing.                                                                 *)

\* The new container's thread starts before anything else of it exists.
Accept(f, c) ==
  /\ loop.pc = "wait"
  /\ f \notin open /\ c \notin alive
  /\ open' = open \cup {f}
  /\ client' = [client EXCEPT ![f] = "open"]
  /\ alive' = alive \cup {c}
  /\ fd' = [fd EXCEPT ![c] = f]
  /\ GoTo(c, "test")
  /\ loop' = [pc |-> "build", new |-> c, old |-> None, step |-> 0]
  /\ UNCHANGED <<input, map, destroys, flag, line, typed, died>>

\* Mutant: the constructor has one member more.
BuildOneMore ==
  /\ loop.pc = "build" /\ loop.step <= Members
  /\ loop' = [loop EXCEPT !.step = @ + 1]
  /\ flag' = IF loop.step = 0 THEN [flag EXCEPT ![loop.new] = TRUE] ELSE flag
  /\ UNCHANGED <<socketVars, map, destroys, alive, fd, pc, line, typed, died>>

Build ==
  /\ loop.pc = "build" /\ loop.step < Members
  /\ loop' = [loop EXCEPT !.step = @ + 1]
  /\ flag' = IF loop.step = 0 THEN [flag EXCEPT ![loop.new] = TRUE] ELSE flag
  /\ UNCHANGED <<socketVars, map, destroys, alive, fd, pc, line, typed, died>>

\* make_unique returns, the callback's temporary is gone, and there is no
\* container for this descriptor.
Emplace ==
  /\ loop.pc = "build" /\ loop.step = Members
  /\ map[fd[loop.new]] = None
  /\ map' = [map EXCEPT ![fd[loop.new]] = loop.new]
  /\ loop' = Idle
  /\ UNCHANGED <<socketVars, destroys, threadVars, typed, died>>

\* Mutant: accept_handler makes room by erasing any container.
EraseAny ==
  /\ loop.pc = "build" /\ loop.step = Members
  /\ \E f \in Fd : /\ map[f] # None
                   /\ loop' = [loop EXCEPT !.pc = "join", !.old = map[f]]
                   /\ flag' = [flag EXCEPT ![map[f]] = FALSE]
  /\ UNCHANGED <<socketVars, map, destroys, alive, fd, pc, line, typed, died>>

\* There is one: erase destroys it.  The destructor lowers the flag ...
EraseOld ==
  /\ loop.pc = "build" /\ loop.step = Members
  /\ LET old == map[fd[loop.new]]
     IN  /\ old # None
         /\ loop' = [loop EXCEPT !.pc = "join", !.old = old]
         /\ flag' = [flag EXCEPT ![old] = FALSE]
  /\ UNCHANGED <<socketVars, map, destroys, alive, fd, pc, line, typed, died>>

\* Mutant: the destructor detaches the thread.
Detach ==
  /\ loop.pc = "join"
  /\ alive' = alive \ {loop.old}
  /\ map' = [map EXCEPT ![fd[loop.new]] = loop.new]
  /\ loop' = Idle
  /\ UNCHANGED <<socketVars, destroys, fd, flag, pc, line, typed, died>>

\* ... and joins the thread; the new container takes the place of the old.
Join ==
  /\ loop.pc = "join" /\ pc[loop.old] = "done"
  /\ alive' = alive \ {loop.old}
  /\ fd' = [fd EXCEPT ![loop.old] = None]
  /\ map' = [map EXCEPT ![fd[loop.new]] = loop.new]
  /\ loop' = Idle
  /\ UNCHANGED <<socketVars, destroys, flag, pc, line, typed, died>>

LoopStep == Build \/ Emplace \/ EraseOld \/ Join

-----------------------------------------------------------------------------
(* A connection's thread: ConnectionContainer::run.  Nothing ignores        *)
(* SIGPIPE: a write to a client that has closed ends the process.           *)

Writes(c, label) ==
  IF client[fd[c]] = "closed" THEN Die("SIGPIPE")
  ELSE /\ GoTo(c, label)
       /\ line' = [line EXCEPT ![c] = None]
       /\ UNCHANGED <<socketVars, interfaceVars, alive, fd, flag, typed, died>>

\* The head of the loop, and the prompt.
TestFlag(c) ==
  /\ pc[c] = "test"
  /\ \E running \in IF Built(c) > 0 THEN {flag[c]} ELSE BOOLEAN :
       IF running THEN Writes(c, "read")
       ELSE GoTo(c, "close") /\ UNCHANGED <<socketVars, interfaceVars, alive, fd, flag,
                                            line, typed, died>>

\* A whole line, or what there is of one when the client sends no more.  A
\* timeout's -1 is a large size_t, so the loop reads on: no step.
ReadLine(c) ==
  /\ pc[c] = "read" /\ input[fd[c]] # None
  /\ input[fd[c]].nl \/ client[fd[c]] # "open"
  /\ line' = [line EXCEPT ![c] = input[fd[c]]]
  /\ input' = [input EXCEPT ![fd[c]] = None]
  /\ GoTo(c, "run")
  /\ UNCHANGED <<open, client, interfaceVars, alive, fd, flag, typed, died>>

\* The end of the input: the flag is still up, and the loop starts over.
ReadEof(c) ==
  /\ pc[c] = "read" /\ input[fd[c]] = None /\ client[fd[c]] # "open"
  /\ GoTo(c, "test")
  /\ UNCHANGED <<socketVars, interfaceVars, alive, fd, flag, line, typed, died>>

\* The commands that the static initialisers have registered.
Registered == {"USER", "FILE", "TIME", "INFO", "PEER"}

\* A Command keeps a reference to a parameter of its constructor: what it
\* finds there of its session may be gone.
Session == {"answered", "dies"}

\* What can become of each command.  USER and INFO ask the management server
\* and wait as long as it takes; PEER walks a table that others change.
UserExec(args) ==
  IF args = << >> THEN {"answered"}
  ELSE Session \cup IF \/ args[1] = "LOGIN" /\ Len(args) >= 3
                       \/ args[1] \in {"INFO", "LOGOUT"} /\ Len(args) = 1
                    THEN {"hangs"} ELSE {}

FileExec(args) == Session

TimeExec(args) == {"answered"}

InfoExec(args) == IF args # << >> THEN {"answered"} ELSE {"answered", "dies", "hangs"}

PeerExec(args) == {"answered", "dies"}

exec(command, args) ==
  CASE command = "USER" -> UserExec(args)
    [] command = "FILE" -> FileExec(args)
    [] command = "TIME" -> TimeExec(args)
    [] command = "INFO" -> InfoExec(args)
    [] command = "PEER" -> PeerExec(args)

\* get_command_obj has no object for a command that is not registered, and
\* help is none: the list of commands is printed.
Outcomes(command, args) ==
  IF command \in Registered THEN exec(command, args) ELSE {"answered"}

\* execute_command: all but help look into the command map and hand on the
\* session, whether these are initialised or not.
Executes(c, command, args) ==
  \E outcome \in Outcomes(command, args)
                   \cup IF Built(c) < Members /\ command # "help" THEN {"dies"} ELSE {} :
    \/ outcome = "answered" /\ Writes(c, "test")
    \/ outcome = "dies" /\ Die("command")
    \/ /\ outcome = "hangs"
       /\ GoTo(c, "hung")
       /\ UNCHANGED <<socketVars, interfaceVars, alive, fd, flag, line, typed, died>>

Run(c) ==
  /\ pc[c] = "run"
  /\ LET parsed == parse_command(line[c])
     IN  \/ parsed.status \in {"empty", "unbalanced"} /\ Writes(c, "test")
         \/ parsed.status = "throws" /\ Die("length_error")
         \/ /\ parsed.status = "diverges"
            /\ GoTo(c, "hung")
            /\ UNCHANGED <<socketVars, interfaceVars, alive, fd, flag, line, typed, died>>
         \/ parsed.status = "ok" /\ Executes(c, parsed.command, parsed.args)

\* A parser that stores the same argument for ever runs out of memory.
Exhausted(c) ==
  /\ pc[c] = "hung" /\ parse_command(line[c]).status = "diverges"
  /\ Die("bad_alloc")

CloseSocket(c) ==
  /\ pc[c] = "close"
  /\ open' = open \ {fd[c]}
  /\ client' = [client EXCEPT ![fd[c]] = "closed"]
  /\ input' = [input EXCEPT ![fd[c]] = None]
  /\ GoTo(c, "callback")
  /\ UNCHANGED <<interfaceVars, alive, fd, flag, line, typed, died>>

\* Mutant: the socket is closed once more when the connection is reported.
CallbackClosesAgain(c) ==
  /\ pc[c] = "callback"
  /\ open' = open \ {fd[c]}
  /\ GoTo(c, "done")
  /\ UNCHANGED <<client, input, interfaceVars, alive, fd, flag, line, typed, died>>

\* Mutant: schedule_destroy needs a mutex that accept_handler holds.
CallbackNeedsLock(c) ==
  /\ pc[c] = "callback" /\ loop.pc = "wait"
  /\ destroys' = destroys \cup {fd[c]}
  /\ GoTo(c, "done")
  /\ UNCHANGED <<socketVars, map, loop, alive, fd, flag, line, typed, died>>

\* Before it is bound, _destroy_callback is no function; while make_unique
\* runs it reports this descriptor, and then whatever the stack holds.
Callback(c) ==
  /\ pc[c] = "callback"
  /\ \/ ~Bound(c) /\ Die("callback")
     \/ /\ Bound(c) \/ Built(c) = Members
        /\ \E f \in IF Bound(c) THEN {fd[c]} ELSE Fd :
             destroys' = destroys \cup {f}
        /\ GoTo(c, "done")
        /\ UNCHANGED <<socketVars, map, loop, alive, fd, flag, line, typed, died>>

ThreadStep(c) ==
  TestFlag(c) \/ ReadLine(c) \/ ReadEof(c) \/ Run(c) \/ CloseSocket(c) \/ Callback(c)

-----------------------------------------------------------------------------
ClientStep ==
  \E f \in Fd : \/ \E l \in Line : Type(f, l)
                \/ \E how \in {"half", "closed"} : HangUp(f, how)

AcceptStep == \E f \in Fd, c \in Container : Accept(f, c)

Next ==
  /\ Up
  /\ \/ ClientStep \/ AcceptStep \/ LoopStep
     \/ \E c \in Container : ThreadStep(c) \/ Exhausted(c)

\* The operating system schedules the threads; nobody has to connect, type or
\* hang up.
Spec ==
  /\ Init /\ [][Next]_vars
  /\ WF_vars(Up /\ LoopStep)
  /\ \A c \in Container : WF_vars(Up /\ ThreadStep(c))

-----------------------------------------------------------------------------
TypeOK ==
  /\ open \subseteq Fd
  /\ client \in [Fd -> {"open", "half", "closed"}]
  /\ input \in [Fd -> Line \cup {None}]
  /\ map \in [Fd -> Container \cup {None}]
  /\ destroys \subseteq Fd
  /\ loop.pc \in {"wait", "build", "join"}
  /\ loop.pc # "wait" => loop.new \in Container
  /\ loop.pc = "join" => loop.old \in Container
  /\ loop.step \in 0 .. Members
  /\ alive \subseteq Container
  /\ fd \in [Container -> Fd \cup {None}]
  /\ flag \in [Container -> BOOLEAN]
  /\ pc \in [Container -> Running \cup {"done"}]
  /\ line \in [Container -> Line \cup {None}]
  /\ typed \in 0 .. MaxLines
  /\ died \in {"no", "SIGPIPE", "command", "length_error", "bad_alloc", "callback"}

\* Descriptors are reused as soon as they are closed, while the containers of
\* their former connections are still there (manage_interface.cc:129).  All the
\* same a thread only ever reads, writes and closes a socket that is open and
\* that no other thread uses.
SocketsNotShared ==
  /\ \A c \in Container : pc[c] \in Serving => fd[c] \in open
  /\ \A c, d \in Container : c # d /\ {pc[c], pc[d]} \subseteq Serving => fd[c] # fd[d]

\* A container is gone only when its thread is (connection_container.cc:18-25),
\* though the libevent thread destroys it and its own thread has no say in it.
NoThreadOutlives == \A c \in Container : pc[c] \in Running => c \in alive

\* The libevent thread only waits for a connection that has given its socket
\* back and has nothing but its callback to make: the destructor's join
\* (connection_container.cc:23) never waits for a client.
JoinsOnlyClosed == loop.pc = "join" => pc[loop.old] \in {"callback", "done"}

\* Whatever the connections do, commands that hang included, the console goes
\* on accepting new ones while the process lives.
AcceptsAgain == []<>(loop.pc = "wait" \/ ~Up)
=============================================================================
