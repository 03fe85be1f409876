----------------------------- MODULE ApiClient -----------------------------
(****************************************************************************)
(* The user's side of the management API: the USER command of a console     *)
(* connection (daemon/interface/command/user_command.cc), its UserContext   *)
(* (daemon/management_api/user_context.cc), the requests it makes through   *)
(* libcurl and the buffer these are received in                             *)
(* (daemon/management_api/utils/curl_utils.cc), and the answers, which are  *)
(* JsonModels.                                                              *)
(*                                                                          *)
(* Connections share nothing but the process: each has a session, a context *)
(* and a curl share handle with the cookie of its own.  The management      *)
(* server knows the account that is logged in under the cookie.  Requests   *)
(* and answers get lost, and nothing sets a timeout.                        *)
(****************************************************************************)
EXTENDS JsonModel, Naturals

CONSTANTS PostSize,    \* the first size of the buffer of a POST, 1024 in the code
          GetSize,     \* the same of a GET, 1024 * 1024 in the code
          MaxBlock,    \* CURL_MAX_WRITE_SIZE: libcurl hands over no larger block
          MaxBody,     \* bound: the length of a body
          MaxCommands  \* bound: the commands typed

ASSUME SizeAssumption ==
  /\ PostSize \in Nat \ {0} /\ GetSize \in Nat \ {0}
  /\ MaxBlock \in Nat /\ MaxBody \in Nat /\ MaxCommands \in Nat
  /\ MaxBlock <= GetSize

VARIABLES pc,        \* the connection's thread
          op, arg,   \* the USER command it executes, and the email of a login
          _login,    \* UserContextImpl::_login
          confirmed, \* the email with which _login was set
          cookie,    \* management server: the account under the cookie
          reply,     \* the answer under way
          buf,       \* ptr_data
          damage,    \* the writes that went past the end of a buffer
          shown,     \* what USER INFO has printed
          commands,  \* the number of commands
          died       \* what has ended the process, "no" while it runs

userVars == <<_login, confirmed, shown>>
vars == <<pc, op, arg, userVars, cookie, reply, buf, damage, commands, died>>

Op == {"LOGIN", "INFO", "LOGOUT"}

\* data: whether the buffer is allocated, or was freed by a failed realloc.
Buffer == [data : {"none", "live", "freed"}, size : Nat, head : Nat]
NoBuffer == [data |-> "none", size |-> 0, head |-> 0]

Method == IF op = "INFO" THEN "GET" ELSE "POST"

Init ==
  /\ pc = "idle" /\ op = None /\ arg = None
  /\ _login = FALSE /\ confirmed = None /\ shown = None
  /\ cookie = None
  /\ reply = EmptyObject
  /\ buf = NoBuffer /\ damage = {}
  /\ commands = 0 /\ died = "no"

Up == died = "no"

Die(cause) ==
  /\ died' = cause
  /\ pc' = "idle" /\ op' = None /\ arg' = None
  /\ _login' = FALSE /\ confirmed' = None /\ shown' = None
  /\ reply' = EmptyObject /\ buf' = NoBuffer
  /\ UNCHANGED <<cookie, damage, commands>>

-----------------------------------------------------------------------------
(* UserCommand::exec.  A command that is refused leaves all as it is; so do *)
(* usage messages.                                                          *)

Begin(o, e) ==
  /\ pc = "idle" /\ commands < MaxCommands
  /\ commands' = commands + 1
  /\ op' = o /\ arg' = e
  /\ pc' = "request"
  /\ shown' = None
  /\ UNCHANGED <<confirmed, cookie, reply, buf, damage, died>>

Login(e) == ~_login /\ Begin("LOGIN", e) /\ UNCHANGED _login

Info == _login /\ Begin("INFO", None) /\ UNCHANGED _login

\* Mutant: the flag is lowered only when the server has answered.
LogoutLater == _login /\ Begin("LOGOUT", None) /\ UNCHANGED _login

\* The flag is lowered before the request.  A POST without data reads the
\* daemon's standard input to its end first.
Logout == _login /\ Begin("LOGOUT", None) /\ _login' = FALSE

-----------------------------------------------------------------------------
(* The management server, and the way there and back.                       *)

\* POST_and_save_to_ptr and GET_and_save_to_ptr set up the buffer.
Request ==
  /\ pc = "request"
  /\ buf' = [data |-> "live", head |-> 0,
             size |-> IF Method = "GET" THEN GetSize ELSE PostSize]
  /\ pc' = "server"
  /\ UNCHANGED <<op, arg, userVars, cookie, reply, damage, commands, died>>

\* Answers without an account: a refusal, an error page, or worse.
Refusal == {b \in Body : b.email = None}

\* A login is accepted, or refused; while the cookie's session is open the
\* server may also answer for that.
ServesLogin ==
  \/ cookie' = arg /\ reply' = Response(TRUE, arg)
  \/ cookie # None /\ reply' = Response(TRUE, cookie) /\ UNCHANGED cookie
  \/ reply' \in Refusal /\ UNCHANGED cookie

ServesInfo ==
  /\ \/ cookie # None /\ reply' = Response(TRUE, cookie)
     \/ reply' \in Refusal
  /\ UNCHANGED cookie

ServesLogout == cookie' \in {cookie, None} /\ reply' \in Refusal

Server ==
  /\ pc = "server"
  /\ CASE op = "LOGIN"  -> ServesLogin
       [] op = "INFO"   -> ServesInfo
       [] op = "LOGOUT" -> ServesLogout
  /\ pc' = "transfer"
  /\ UNCHANGED <<op, arg, userVars, buf, damage, commands, died>>

Expires ==
  /\ cookie' = None
  /\ UNCHANGED <<pc, op, arg, userVars, reply, buf, damage, commands, died>>

-----------------------------------------------------------------------------
(* write_to_ptr and the end of the request.                                 *)

Room(b) == buf.head + b <= buf.size

\* A block of b bytes is copied to the end of what is there.
Copy(b, size) ==
  /\ buf' = [buf EXCEPT !.size = size, !.head = @ + b]
  /\ damage' = IF buf.head + b > size THEN damage \cup {<<Method, "block">>} ELSE damage
  /\ UNCHANGED <<pc, op, arg, userVars, cookie, reply, commands, died>>

\* Mutant: the buffer grows only when it is already full.
WriteLate(b) ==
  /\ pc = "transfer" /\ buf.head + b <= MaxBody
  /\ Copy(b, IF buf.head >= buf.size THEN 2 * buf.size ELSE buf.size)

\* The buffer is doubled, once, when the block does not fit.
Write(b) ==
  /\ pc = "transfer" /\ buf.head + b <= MaxBody
  /\ Copy(b, IF Room(b) THEN buf.size ELSE 2 * buf.size)

\* realloc fails: the buffer is freed and libcurl told to give up.
ReallocFails(b) ==
  /\ pc = "transfer" /\ ~Room(b)
  /\ buf' = [buf EXCEPT !.data = "freed"]
  /\ pc' = "failed"
  /\ UNCHANGED <<op, arg, userVars, cookie, reply, damage, commands, died>>

\* An option or the transfer fails: at once, after the server has had the
\* request and set its cookie, or half way through the answer.
TransferFails ==
  /\ pc \in {"server", "transfer"}
  /\ pc' = "failed"
  /\ UNCHANGED <<op, arg, userVars, cookie, reply, buf, damage, commands, died>>

\* The caller gets a null pointer.  The buffer is not freed.
Fails ==
  /\ pc = "failed"
  /\ reply' = EmptyObject
  /\ buf' = NoBuffer
  /\ pc' = "answer"
  /\ UNCHANGED <<op, arg, userVars, cookie, damage, commands, died>>

\* A zero byte is put behind the body, whether there is room or not.
Completes ==
  /\ pc = "transfer"
  /\ damage' = IF buf.head >= buf.size THEN damage \cup {<<Method, "end">>} ELSE damage
  /\ buf' = NoBuffer
  /\ pc' = "answer"
  /\ UNCHANGED <<op, arg, userVars, cookie, reply, commands, died>>

\* A heap that was written to out of bounds fails at any later time.
HeapFails == damage # {} /\ Die("heap")

-----------------------------------------------------------------------------
(* What becomes of the answer.                                              *)

model == Parsed(reply)

Return == pc' = "idle" /\ op' = None /\ arg' = None /\ reply' = EmptyObject

\* The constructor of the response asserts that the root is an object.
AnswerNoObject == pc = "answer" /\ op # "LOGOUT" /\ ~Parses(reply) /\ Die("assertion")

\* value() of a missing email in run, which is noexcept; or a responseBody
\* without members.
AnswerIncomplete ==
  /\ pc = "answer" /\ op # "LOGOUT" /\ Parses(reply)
  /\ \/ ~Lookups(model)
     \/ success(model) /\ get_value(model) = None
  /\ Die("incomplete")

\* Mutant: any success is taken for the user's.
LoginAnswerTrusts ==
  /\ pc = "answer" /\ op = "LOGIN" /\ Parses(reply) /\ Lookups(model)
  /\ success(model) => get_value(model) # None
  /\ IF success(model)
     THEN _login' = TRUE /\ confirmed' = arg
     ELSE UNCHANGED <<_login, confirmed>>
  /\ Return
  /\ UNCHANGED <<shown, cookie, buf, damage, commands, died>>

LoginAnswer ==
  /\ pc = "answer" /\ op = "LOGIN" /\ Parses(reply) /\ Lookups(model)
  /\ success(model) => get_value(model) # None
  /\ IF success(model) /\ get_value(model) = arg
     THEN _login' = TRUE /\ confirmed' = arg
     ELSE UNCHANGED <<_login, confirmed>>
  /\ Return
  /\ UNCHANGED <<shown, cookie, buf, damage, commands, died>>

InfoAnswer ==
  /\ pc = "answer" /\ op = "INFO" /\ Parses(reply) /\ Lookups(model)
  /\ success(model) /\ get_value(model) # None
  /\ shown' = get_value(model)
  /\ Return
  /\ UNCHANGED <<_login, confirmed, cookie, buf, damage, commands, died>>

\* user_detail returns a null pointer, which the command follows.
InfoFails ==
  /\ pc = "answer" /\ op = "INFO" /\ Parses(reply) /\ ~success(model)
  /\ Die("null detail")

\* Nobody looks at the answer to a logout.
LogoutAnswer ==
  /\ pc = "answer" /\ op = "LOGOUT"
  /\ Return
  /\ UNCHANGED <<userVars, cookie, buf, damage, commands, died>>

-----------------------------------------------------------------------------
Command == Info \/ Logout \/ \E e \in Email : Login(e)

Transfer ==
  \/ Request \/ Server \/ TransferFails \/ Fails \/ Completes \/ HeapFails
  \/ \E b \in 1 .. MaxBlock : Write(b) \/ ReallocFails(b)

Answer ==
  \/ AnswerNoObject \/ AnswerIncomplete
  \/ LoginAnswer \/ InfoAnswer \/ InfoFails \/ LogoutAnswer

Next == Up /\ (Command \/ Expires \/ Transfer \/ Answer)

Spec == Init /\ [][Next]_vars

-----------------------------------------------------------------------------
\* Types.  Only a logged in user's INFO, and nobody else's LOGIN or LOGOUT, is
\* ever under way.
TypeOK ==
  /\ pc \in {"idle", "request", "server", "transfer", "failed", "answer"}
  /\ op \in Op \cup {None} /\ arg \in Email \cup {None}
  /\ pc # "idle" => op \in Op /\ (_login <=> op = "INFO")
  /\ _login \in BOOLEAN
  /\ confirmed \in Email \cup {None} /\ shown \in Email \cup {None}
  /\ cookie \in Email \cup {None}
  /\ reply \in Body
  /\ buf \in Buffer
  /\ damage \subseteq {"GET", "POST"} \X {"block", "end"}
  /\ commands \in 0 .. MaxCommands
  /\ died \in {"no", "heap", "assertion", "incomplete", "null detail"}

\* The buffer of a GET is never overrun by a block: its first size is more
\* than libcurl hands over at once, so one doubling (curl_utils.cc:127) is
\* always enough.  (A POST starts with 1024 bytes, and is.)
GetBlocksFit == <<"GET", "block">> \notin damage

\* A session that is logged in talks to the server as the user who logged in,
\* or as nobody once the server has let the session expire, and INFO shows
\* that user.  Answers that were lost or were about another session on the
\* way there do not count (user_context.cc:42).
OwnAccount ==
  /\ _login => confirmed # None /\ cookie \in {confirmed, None}
  /\ shown \in {confirmed, None}
=============================================================================
