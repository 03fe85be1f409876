-------------------------- MODULE ApiClientProofs --------------------------
(****************************************************************************)
(* Proofs about ApiClient: types, that a GET is never overrun by a block,   *)
(* and that a session that is logged in is the user's own, for any accounts *)
(* and any sizes of buffers and blocks, as long as a block is no larger     *)
(* than the first buffer of a GET.                                          *)
(****************************************************************************)
EXTENDS ApiClient, TLAPS

\* The buffer belongs to the transfer.  During a GET it is at least of its
\* first size, and what was received is within it.
BufferInv ==
  /\ pc \in {"idle", "request", "answer"} => buf = NoBuffer
  /\ pc \in {"server", "transfer"} => buf.data = "live"
  /\ pc \in {"server", "transfer"} /\ op = "INFO"
       => buf.size >= GetSize /\ buf.head <= buf.size

\* What the answer says of an account was true when the server gave it: since
\* then the session can only have expired.
ReplyInv ==
  /\ pc \in {"idle", "request", "server"} => reply = EmptyObject
  /\ pc # "idle" => shown = None
  /\ pc # "idle" /\ op = "LOGIN" => arg \in Email
  /\ op = "LOGIN" /\ reply.email # None => cookie \in {reply.email, None}
  /\ op = "INFO" => reply.email \in {confirmed, None}

\* The inductive invariant.
IInv == TypeOK /\ GetBlocksFit /\ OwnAccount /\ BufferInv /\ ReplyInv

LEMMA EmptyIsBody == EmptyObject \in Body /\ EmptyObject.email = None /\ NoBuffer \in Buffer
  BY DEF EmptyObject, Body, NoBuffer, Buffer

LEMMA ResponseIsBody ==
  ASSUME NEW e \in Email \cup {None}
  PROVE  Response(TRUE, e) \in Body /\ Response(TRUE, e).email = e
  BY DEF Response, Body

LEMMA RefusalIsBody ==
  ASSUME NEW b \in Refusal PROVE b \in Body /\ b.email = None
  BY DEF Refusal

LEMMA InitIInv == Init => IInv
<1> SUFFICES ASSUME Init PROVE IInv
  OBVIOUS
<1>1. commands \in 0 .. MaxCommands
  BY SizeAssumption DEF Init
<1>2. TypeOK
  BY <1>1, EmptyIsBody DEF Init, TypeOK
<1>3. GetBlocksFit /\ BufferInv
  BY DEF Init, GetBlocksFit, BufferInv, NoBuffer
<1>4. OwnAccount /\ ReplyInv
  BY EmptyIsBody DEF Init, OwnAccount, ReplyInv
<1> QED BY <1>2, <1>3, <1>4 DEF IInv

\* The end of the process leaves no session.
LEMMA DieInv ==
  ASSUME IInv, NEW cause \in {"no", "heap", "assertion", "incomplete", "null detail"},
         Die(cause)
  PROVE  IInv'
  BY EmptyIsBody
  DEF IInv, Die, TypeOK, GetBlocksFit, OwnAccount, BufferInv, ReplyInv, NoBuffer

\* UserCommand::exec, up to the request.
LEMMA CommandInv == ASSUME IInv, Command PROVE IInv'
<1>0. commands \in 0 .. MaxCommands
  BY DEF IInv, TypeOK
<1>1. ASSUME NEW o, NEW e, Begin(o, e) PROVE commands' \in 0 .. MaxCommands
  BY <1>0, <1>1, SizeAssumption DEF Begin
<1> USE DEF IInv, TypeOK, GetBlocksFit, OwnAccount, BufferInv, ReplyInv
<1>2. CASE Info
  BY <1>1, <1>2, EmptyIsBody DEF Info, Begin, Op
<1>3. CASE Logout
  BY <1>1, <1>3, EmptyIsBody DEF Logout, Begin, Op
<1>4. ASSUME NEW e \in Email, Login(e) PROVE IInv'
  BY <1>1, <1>4, EmptyIsBody DEF Login, Begin, Op
<1> QED BY <1>2, <1>3, <1>4 DEF Command

\* The server's answers.
LEMMA ServerInv == ASSUME IInv, Server PROVE IInv'
<1> USE DEF IInv, userVars
<1>1. pc = "server" /\ pc' = "transfer" /\ op \in Op
      /\ UNCHANGED <<op, arg, userVars, buf, damage, commands, died>>
  BY DEF Server, TypeOK
<1>2. CASE op = "LOGIN"
  <2>1. ServesLogin
    BY <1>2 DEF Server
  <2>2. arg \in Email /\ _login = FALSE
    BY <1>1, <1>2 DEF TypeOK, ReplyInv
  <2>3. reply' \in Body /\ cookie' \in Email \cup {None}
        /\ (reply'.email # None => cookie' \in {reply'.email, None})
    <3>1. cookie \in Email \cup {None}
      BY DEF TypeOK
    <3>2. CASE cookie' = arg /\ reply' = Response(TRUE, arg)
      BY <3>2, <2>2, ResponseIsBody
    <3>3. CASE reply' = Response(TRUE, cookie) /\ UNCHANGED cookie
      BY <3>1, <3>3, ResponseIsBody
    <3>4. CASE reply' \in Refusal /\ UNCHANGED cookie
      BY <3>1, <3>4, RefusalIsBody
    <3> QED BY <2>1, <3>2, <3>3, <3>4 DEF ServesLogin
  <2> QED
    BY <1>1, <1>2, <2>2, <2>3
    DEF TypeOK, GetBlocksFit, OwnAccount, BufferInv, ReplyInv
<1>3. CASE op = "INFO"
  <2>1. ServesInfo
    BY <1>3 DEF Server
  <2>2. _login /\ cookie \in {confirmed, None}
    BY <1>1, <1>3 DEF TypeOK, OwnAccount
  <2>3. reply' \in Body /\ cookie' = cookie /\ reply'.email \in {confirmed, None}
    <3>1. cookie \in Email \cup {None}
      BY DEF TypeOK
    <3>2. CASE reply' = Response(TRUE, cookie)
      BY <2>1, <2>2, <3>1, <3>2, ResponseIsBody DEF ServesInfo
    <3>3. CASE reply' \in Refusal
      BY <2>1, <3>3, RefusalIsBody DEF ServesInfo
    <3> QED BY <2>1, <3>2, <3>3 DEF ServesInfo
  <2> QED
    BY <1>1, <1>3, <2>2, <2>3
    DEF TypeOK, GetBlocksFit, OwnAccount, BufferInv, ReplyInv
<1>4. CASE op = "LOGOUT"
  <2>1. ServesLogout
    BY <1>4 DEF Server
  <2>2. _login = FALSE
    BY <1>1, <1>4 DEF TypeOK
  <2>3. reply' \in Body /\ cookie' \in Email \cup {None}
    BY <2>1 DEF ServesLogout, Refusal, TypeOK
  <2> QED
    BY <1>1, <1>4, <2>2, <2>3
    DEF TypeOK, GetBlocksFit, OwnAccount, BufferInv, ReplyInv
<1> QED BY <1>1, <1>2, <1>3, <1>4 DEF Op

\* write_to_ptr: the case for which one doubling has to be enough.
LEMMA WriteInv == ASSUME IInv, NEW b \in 1 .. MaxBlock, Write(b) PROVE IInv'
<1> USE DEF IInv, userVars
<1> DEFINE size == IF Room(b) THEN buf.size ELSE 2 * buf.size
<1>a. pc = "transfer" /\ Copy(b, size)
  BY DEF Write
<1>b. buf \in Buffer
  BY DEF TypeOK
<1>c. buf.size \in Nat /\ buf.head \in Nat
  BY <1>b DEF Buffer
<1>d. b \in Nat /\ b <= MaxBlock /\ size \in Nat /\ buf.head + b \in Nat
  BY <1>c, SizeAssumption
<1>0. pc = "transfer" /\ Copy(b, size) /\ buf.size \in Nat /\ buf.head \in Nat
      /\ buf \in Buffer /\ b \in Nat /\ b <= MaxBlock /\ size \in Nat
  BY <1>a, <1>b, <1>c, <1>d
<1>1. buf' = [buf EXCEPT !.size = size, !.head = buf.head + b]
      /\ UNCHANGED <<pc, op, arg, userVars, cookie, reply, commands, died>>
  BY <1>0 DEF Copy
<1>2. buf' \in Buffer /\ buf'.data = buf.data /\ buf'.size = size /\ buf'.head = buf.head + b
  <2> DEFINE head == buf.head + b
  <2>1. buf' = [buf EXCEPT !.size = size, !.head = head] /\ head \in Nat
    BY <1>1, <1>d
  <2> HIDE DEF head, size
  <2>2. buf' \in Buffer /\ buf'.data = buf.data /\ buf'.size = size /\ buf'.head = head
    BY <1>0, <2>1 DEF Buffer
  <2> QED BY <2>2 DEF head
<1>3. ASSUME op = "INFO" PROVE buf'.size >= GetSize /\ buf'.head <= buf'.size
  BY <1>0, <1>2, <1>3, SizeAssumption DEF BufferInv, Room
<1>4. damage' \subseteq {"GET", "POST"} \X {"block", "end"} /\ <<"GET", "block">> \notin damage'
  <2>1. CASE buf.head + b > size
    <3>1. op # "INFO"
      BY <2>1, <1>0, <1>2, <1>3
    <3>2. Method = "POST"
      BY <3>1 DEF Method
    <3>3. damage' = damage \cup {<<"POST", "block">>}
      BY <2>1, <3>2, <1>0 DEF Copy
    <3>4. damage \subseteq {"GET", "POST"} \X {"block", "end"} /\ <<"GET", "block">> \notin damage
      BY DEF TypeOK, GetBlocksFit
    <3> QED BY <3>3, <3>4
  <2>2. CASE ~(buf.head + b > size)
    BY <2>2, <1>0 DEF Copy, TypeOK, GetBlocksFit
  <2> QED BY <2>1, <2>2
<1> HIDE DEF size
<1> QED
  BY <1>0, <1>1, <1>2, <1>3, <1>4
  DEF TypeOK, GetBlocksFit, OwnAccount, BufferInv, ReplyInv

\* The rest of a request.
LEMMA TransferInv == ASSUME IInv, Transfer PROVE IInv'
<1> USE DEF IInv, userVars
<1>1. CASE Request
  <2>1. buf' \in Buffer /\ buf'.data = "live" /\ buf'.head = 0
        /\ (op = "INFO" => buf'.size = GetSize) /\ buf'.size \in Nat
    BY <1>1, SizeAssumption DEF Request, Buffer, Method
  <2>2. TypeOK'
    BY <1>1, <2>1 DEF Request, TypeOK
  <2>3. GetBlocksFit' /\ OwnAccount' /\ ReplyInv'
    BY <1>1, <2>1 DEF Request, GetBlocksFit, OwnAccount, ReplyInv
  <2>4. BufferInv'
    BY <1>1, <2>1, SizeAssumption DEF Request, BufferInv
  <2> QED BY <2>2, <2>3, <2>4
<1>2. CASE Server
  BY <1>2, ServerInv
<1>3. CASE TransferFails
  BY <1>3 DEF TransferFails, TypeOK, GetBlocksFit, OwnAccount, BufferInv, ReplyInv
<1>4. CASE Fails
  BY <1>4, EmptyIsBody
  DEF Fails, TypeOK, GetBlocksFit, OwnAccount, BufferInv, ReplyInv, NoBuffer
<1>5. CASE Completes
  <2>1. damage' \subseteq {"GET", "POST"} \X {"block", "end"} /\ <<"GET", "block">> \notin damage'
    <3>1. damage \subseteq {"GET", "POST"} \X {"block", "end"} /\ <<"GET", "block">> \notin damage
      BY DEF TypeOK, GetBlocksFit
    <3>2. Method \in {"GET", "POST"}
      BY DEF Method
    <3>3. damage' \in {damage, damage \cup {<<Method, "end">>}}
      BY <1>5 DEF Completes
    <3> QED BY <3>1, <3>2, <3>3
  <2> QED
    BY <1>5, <2>1, EmptyIsBody
    DEF Completes, TypeOK, GetBlocksFit, OwnAccount, BufferInv, ReplyInv, NoBuffer
<1>6. CASE HeapFails
  BY <1>6, DieInv DEF HeapFails
<1>7. ASSUME NEW b \in 1 .. MaxBlock, Write(b) PROVE IInv'
  BY <1>7, WriteInv
<1>8. ASSUME NEW b \in 1 .. MaxBlock, ReallocFails(b) PROVE IInv'
  <2>1. buf' \in Buffer
    BY <1>8 DEF ReallocFails, TypeOK, Buffer
  <2> QED
    BY <1>8, <2>1
    DEF ReallocFails, TypeOK, GetBlocksFit, OwnAccount, BufferInv, ReplyInv
<1> QED
  BY <1>1, <1>2, <1>3, <1>4, <1>5, <1>6, <1>7, <1>8 DEF Transfer

\* What is made of the answer.
LEMMA AnswerInv == ASSUME IInv, Answer PROVE IInv'
<1> USE DEF IInv, userVars
<1>0. get_value(model) \in {reply.email, None}
  BY DEF get_value, model, Parsed, EmptyObject
<1>1. CASE AnswerNoObject
  BY <1>1, DieInv DEF AnswerNoObject
<1>2. CASE AnswerIncomplete
  BY <1>2, DieInv DEF AnswerIncomplete
<1>3. CASE LoginAnswer
  <2>1. pc = "answer" /\ op = "LOGIN" /\ arg \in Email /\ arg # None /\ _login = FALSE
        /\ shown' = None /\ cookie' = cookie
    BY <1>3, NoEmailAssumption DEF LoginAnswer, TypeOK, ReplyInv
  <2>2. _login' => confirmed' = arg /\ cookie \in {arg, None}
    BY <1>0, <1>3, <2>1 DEF LoginAnswer, ReplyInv
  <2>3. _login' \in BOOLEAN /\ confirmed' \in Email \cup {None}
    BY <1>3, <2>1 DEF LoginAnswer, TypeOK
  <2>4. pc' = "idle" /\ op' = None /\ arg' = None /\ reply' = EmptyObject
        /\ UNCHANGED <<buf, damage, commands, died>>
    BY <1>3 DEF LoginAnswer, Return
  <2> QED
    BY <2>1, <2>2, <2>3, <2>4, EmptyIsBody
    DEF TypeOK, GetBlocksFit, OwnAccount, BufferInv, ReplyInv
<1>4. CASE InfoAnswer
  <2>1. shown' \in {confirmed, None} /\ shown' \in Email \cup {None}
    BY <1>0, <1>4 DEF InfoAnswer, ReplyInv, TypeOK, Body
  <2> QED
    BY <1>4, <2>1, EmptyIsBody
    DEF InfoAnswer, Return, TypeOK, GetBlocksFit, OwnAccount, BufferInv, ReplyInv
<1>5. CASE InfoFails
  BY <1>5, DieInv DEF InfoFails
<1>6. CASE LogoutAnswer
  BY <1>6, EmptyIsBody
  DEF LogoutAnswer, Return, TypeOK, GetBlocksFit, OwnAccount, BufferInv, ReplyInv
<1> QED
  BY <1>1, <1>2, <1>3, <1>4, <1>5, <1>6 DEF Answer

\* The invariant is inductive.
LEMMA NextIInv == IInv /\ [Next]_vars => IInv'
<1> SUFFICES ASSUME IInv, [Next]_vars PROVE IInv'
  OBVIOUS
<1>1. CASE Command
  BY <1>1, CommandInv
<1>2. CASE Expires
  <2>1. TypeOK'
    BY <1>2 DEF Expires, userVars, IInv, TypeOK
  <2>2. GetBlocksFit' /\ BufferInv'
    BY <1>2 DEF Expires, IInv, GetBlocksFit, BufferInv
  <2>3. OwnAccount' /\ ReplyInv'
    BY <1>2 DEF Expires, userVars, IInv, OwnAccount, ReplyInv
  <2> QED BY <2>1, <2>2, <2>3 DEF IInv
<1>3. CASE Transfer
  BY <1>3, TransferInv
<1>4. CASE Answer
  BY <1>4, AnswerInv
<1>5. CASE UNCHANGED vars
  <2>1. TypeOK'
    BY <1>5 DEF vars, userVars, IInv, TypeOK
  <2>2. GetBlocksFit' /\ BufferInv'
    BY <1>5 DEF vars, IInv, GetBlocksFit, BufferInv
  <2>3. OwnAccount' /\ ReplyInv'
    BY <1>5 DEF vars, userVars, IInv, OwnAccount, ReplyInv
  <2> QED BY <2>1, <2>2, <2>3 DEF IInv
<1> QED BY <1>1, <1>2, <1>3, <1>4, <1>5 DEF Next

LEMMA AlwaysIInv == Spec => []IInv
  BY InitIInv, NextIInv, PTL DEF Spec

\* Type correctness: while a USER command is under way, the session is logged
\* in exactly if the command is an INFO (user_command.cc:26, 44, 67).
THEOREM ClientTyped == Spec => []TypeOK
<1>1. IInv => TypeOK BY DEF IInv
<1> QED BY AlwaysIInv, <1>1, PTL

\* One doubling of the buffer is enough for every block of a GET
\* (curl_utils.cc:127).
THEOREM GetIsNotOverrun == Spec => []GetBlocksFit
<1>1. IInv => GetBlocksFit BY DEF IInv
<1> QED BY AlwaysIInv, <1>1, PTL

\* A session that is logged in is the session of the user who logged in, and
\* INFO shows that user (user_context.cc:42).
THEOREM SessionIsOwn == Spec => []OwnAccount
<1>1. IInv => OwnAccount BY DEF IInv
<1> QED BY AlwaysIInv, <1>1, PTL
=============================================================================
