-------------------------- MODULE PeerSessionProofs --------------------------
(* Proofs about PeerSession. *)
EXTENDS PeerSession, TLAPS

\* A thread that is between finding a session and the result of verify.
Using == {"check", "create"} \cup Verifying

\* The arguments of the calls.
JobInv == job \in [Thread -> Msg \cup Peer \cup Packet \cup {None}]

\* A thread that signs alone finds the digest as its last call left it.
SignInv ==
  \A t \in Thread : pc[t] \in Signing /\ alone[t] =>
    /\ Others(t) = {}
    /\ pc[t] = "signUpdate" => md = << >>
    /\ pc[t] = "signFinal" => md = <<Whole(job[t])>>

\* A session that is not in the pool yet has no context and is known to the
\* thread that made it and to no other.
NewInv ==
  \A t \in Thread : pc[t] = "add" =>
    /\ sessions[held[t]].ctx = None
    /\ \A p \in Peer : pool[p] # held[t]
    /\ \A u \in Thread : held[u] = held[t] => u = t

\* Unless one was freed, every session has a context of its own, and one that
\* is initialised has the session's key.
CtxInv ==
  dangling = {} =>
    \A s \in Session : sessions[s].ctx # None =>
      /\ heap[sessions[s].ctx].alloc
      /\ heap[sessions[s].ctx].ready => heap[sessions[s].ctx].key = sessions[s].key
      /\ \A r \in Session : sessions[r].ctx = sessions[s].ctx => r = s

Maker(t) == pc[t] \in {"create", "init"}

\* The digest of t's session has the payload t is about, or is spoilt.
Covered(t) ==
  /\ Ready(t)
  /\ \/ Payload(job[t].msg) \in Range(heap[context(t)].over)
     \/ Noise \in Range(heap[context(t)].over)

\* Until two threads make a context for a session, a digest is initialised once,
\* before anybody puts something in.
MakeInv ==
  dangling = {} =>
    \A t \in Thread : held[t] \notin raced =>
      /\ Maker(t) => \A u \in Thread : Maker(u) /\ held[u] = held[t] => u = t
      /\ pc[t] = "create" => context(t) = None
      /\ pc[t] = "init" => context(t) # None /\ ~heap[context(t)].ready
      /\ pc[t] = "final" => Covered(t)

TypeInv == TypeOK /\ JobInv
Inv == /\ TypeInv /\ SignInv /\ SignsOwnMessage
       /\ OneSession /\ NewInv /\ CtxInv /\ SignedByPeer /\ MakeInv /\ CoversPayload

-----------------------------------------------------------------------------
(* Types: those of the threads, of the signing, of the sessions, and the rest. *)

ThreadType ==
  /\ pc \in [Thread -> {"idle", "add", "check", "create"} \cup Signing \cup Verifying]
  /\ held \in [Thread -> Session \cup {None}]
  /\ JobInv
  /\ \A t \in Thread :
       /\ pc[t] \in Signing => job[t] \in Msg
       /\ pc[t] = "add" => job[t] \in Peer /\ held[t] # None
       /\ pc[t] \in {"check", "create"} \cup Verifying =>
            job[t] \in Packet /\ held[t] # None

SignType ==
  /\ md \in Seq(Part)
  /\ alone \in [Thread -> BOOLEAN]
  /\ sent \in Sent \cup {None}

SessionType ==
  /\ pool \in [Peer -> Session \cup {None}]
  /\ sessions \in [Session -> [key : Key \cup {None}, ctx : Ctx \cup {None}]]
  /\ \A t \in Thread : held[t] # None => sessions[held[t]].key # None
  /\ \A p \in Peer : pool[p] # None => sessions[pool[p]].key # None

Cell == [alloc : BOOLEAN, ready : BOOLEAN, key : Key \cup {None}, over : Seq(Part)]

HeapType == heap \in [Ctx -> Cell]

HistoryType ==
  /\ dangling \subseteq Session /\ raced \subseteq Session
  /\ accepted \in Record \cup {None}
  /\ received \in 0 .. MaxPackets
  /\ died \in BOOLEAN

LEMMA TypeParts ==
  /\ TypeInv <=> ThreadType /\ SignType /\ SessionType /\ HeapType /\ HistoryType
  /\ TypeInv' <=> ThreadType' /\ SignType' /\ SessionType' /\ HeapType' /\ HistoryType'
BY DEF TypeInv, TypeOK, ThreadType, SignType, SessionType, HeapType, Cell, HistoryType

LEMMA PartTypes ==
  /\ Noise \in Part
  /\ \A m \in Msg : Whole(m) \in Part /\ Payload(m) \in Part
BY DEF Noise, Part, Whole, Payload

LEMMA DigestTyped ==
  ASSUME NEW t \in Thread, NEW digest \in Seq(Part), NEW over \in Digests(t, digest)
  PROVE  over \in Seq(Part)
<1>1. <<Noise>> \in Seq(Part)
  BY PartTypes
<1>2. QED
  BY <1>1 DEF Digests

LEMMA BlankTyped == Blank(TRUE) \in Cell /\ Blank(FALSE) \in Cell
BY DEF Blank, Cell

LEMMA InitTyped ==
  ASSUME NEW cell \in Cell, NEW key \in Key \cup {None}
  PROVE  [alloc |-> cell.alloc, ready |-> TRUE, key |-> key, over |-> << >>] \in Cell
<1>1. << >> \in Seq(Part)
  OBVIOUS
<1>2. cell.alloc \in BOOLEAN
  BY DEF Cell
<1>3. QED
  BY <1>1, <1>2 DEF Cell

LEMMA HeapChange ==
  ASSUME HeapType, NEW c, NEW cell \in Cell, heap' = [heap EXCEPT ![c] = cell]
  PROVE  HeapType'
BY DEF HeapType

LEMMA ContextTyped ==
  ASSUME HeapType, SessionType, NEW t \in Thread, held[t] \in Session, context(t) # None
  PROVE  context(t) \in Ctx /\ heap[context(t)] \in Cell
BY DEF HeapType, SessionType, context

\* Going on or returning is all that most steps do to the threads.
LEMMA GoTyped ==
  ASSUME ThreadType, NEW t \in Thread, NEW there, Go(t, there),
         UNCHANGED <<job, held>>,
         there \in {"idle", "add", "check", "create"} \cup Signing \cup Verifying,
         there \in Signing => job[t] \in Msg,
         there = "add" => job[t] \in Peer /\ held[t] # None,
         there \in {"check", "create"} \cup Verifying => job[t] \in Packet /\ held[t] # None
  PROVE  ThreadType'
BY DEF ThreadType, Go, JobInv, Signing, Verifying

LEMMA ReturnTyped ==
  ASSUME ThreadType, NEW t \in Thread, Return(t)
  PROVE  ThreadType' /\ held' = [held EXCEPT ![t] = None]
BY DEF ThreadType, Go, Return, JobInv, Signing, Verifying

LEMMA SignTypes ==
  ASSUME TypeInv, NEW t \in Thread, SignStep(t) PROVE TypeInv'
<1> USE TypeParts, PartTypes DEF signVars, sessionVars
<1>0. ThreadType /\ SignType /\ SessionType /\ HeapType /\ HistoryType
  OBVIOUS
<1>1. ASSUME NEW m \in Msg, Send(t, m) PROVE TypeInv'
  <2>1. ThreadType'
    BY <1>0, <1>1 DEF Send, ThreadType, Go, JobInv, Signing, Verifying
  <2>2. SignType'
    BY <1>0, <1>1 DEF Send, SignType, Others
  <2>3. SessionType' /\ HeapType' /\ HistoryType'
    BY <1>0, <1>1 DEF Send, SessionType, HeapType, HistoryType
  <2>4. QED  BY <2>1, <2>2, <2>3
<1>2. CASE SignInit(t)
  <2>1. ThreadType'
    BY <1>0, <1>2 DEF SignInit, ThreadType, Go, JobInv, Signing, Verifying
  <2>2. SignType'
    <3>1. << >> \in Seq(Part)
      OBVIOUS
    <3>2. md' \in Seq(Part)
      BY <1>2, <3>1, DigestTyped DEF SignInit
    <3>3. QED  BY <1>0, <1>2, <3>2 DEF SignInit, SignType
  <2>3. SessionType' /\ HeapType' /\ HistoryType'
    BY <1>0, <1>2 DEF SignInit, SessionType, HeapType, HistoryType
  <2>4. QED  BY <2>1, <2>2, <2>3
<1>3. CASE SignUpdate(t)
  <2>0. job[t] \in Msg
    BY <1>0, <1>3 DEF SignUpdate, ThreadType, Signing
  <2>1. ThreadType'
    BY <1>0, <1>3 DEF SignUpdate, ThreadType, Go, JobInv, Signing, Verifying
  <2>2. SignType'
    <3>1. Append(md, Whole(job[t])) \in Seq(Part)
      BY <1>0, <2>0 DEF SignType
    <3>2. md' \in Seq(Part)
      BY <1>3, <3>1, DigestTyped DEF SignUpdate
    <3>3. QED  BY <1>0, <1>3, <3>2 DEF SignUpdate, SignType
  <2>3. SessionType' /\ HeapType' /\ HistoryType'
    BY <1>0, <1>3 DEF SignUpdate, SessionType, HeapType, HistoryType
  <2>4. QED  BY <2>1, <2>2, <2>3
<1>4. CASE SignFinal(t)
  <2>0. job[t] \in Msg
    BY <1>0, <1>4 DEF SignFinal, ThreadType, Signing
  <2>1. ThreadType' /\ held' = [held EXCEPT ![t] = None]
    BY <1>0, <1>4, ReturnTyped DEF SignFinal
  <2>2. SignType'
    <3>1. PICK over \in Digests(t, md) :
            sent' = [msg |-> job[t], alone |-> alone[t],
                     sig |-> [key |-> Self, over |-> over]]
      BY <1>4 DEF SignFinal
    <3>2. over \in Seq(Part) /\ alone[t] \in BOOLEAN
      BY <1>0, DigestTyped DEF SignType
    <3>3. sent' \in Sent
      BY <2>0, <3>1, <3>2 DEF Sent
    <3>4. QED  BY <1>0, <1>4, <3>3 DEF SignFinal, SignType
  <2>3. SessionType' /\ HeapType' /\ HistoryType'
    BY <1>0, <1>4, <2>1 DEF SignFinal, ThreadType, SessionType, HeapType, HistoryType
  <2>4. QED  BY <2>1, <2>2, <2>3
<1>5. CASE SignFinalFails(t)
  <2>1. ThreadType' /\ held' = [held EXCEPT ![t] = None]
    BY <1>0, <1>5, ReturnTyped DEF SignFinalFails
  <2>2. SignType' /\ SessionType' /\ HeapType' /\ HistoryType'
    BY <1>0, <1>5, <2>1 DEF SignFinalFails, ThreadType, SignType, SessionType, HeapType, HistoryType
  <2>3. QED  BY <2>1, <2>2
<1>6. CASE SignDies(t)
  <2>1. ThreadType' /\ SignType' /\ SessionType' /\ HeapType' /\ HistoryType'
    BY <1>0, <1>6 DEF SignDies, Die, ThreadType, SignType, SessionType, HeapType, HistoryType, JobInv
  <2>2. QED  BY <2>1
<1>7. QED
  BY <1>1, <1>2, <1>3, <1>4, <1>5, <1>6 DEF SignStep

LEMMA PoolTypes ==
  ASSUME TypeInv, NewInv, NEW t \in Thread, PoolStep(t) PROVE TypeInv'
<1> USE TypeParts, NoneAssumption DEF signVars, sessionVars
<1>0. ThreadType /\ SignType /\ SessionType /\ HeapType /\ HistoryType
  OBVIOUS
<1>1. ASSUME NEW p \in Peer, NEW key \in Key, NewSession(t, p, key) PROVE TypeInv'
  <2>1. ThreadType'
    BY <1>0, <1>1 DEF NewSession, ThreadType, Go, JobInv, Signing, Verifying
  <2>2. SignType' /\ HeapType' /\ HistoryType'
    BY <1>0, <1>1 DEF NewSession, SignType, HeapType, HistoryType
  <2>3. SessionType'
    BY <1>0, <1>1 DEF NewSession, ThreadType, SessionType, NoSession
  <2>4. QED  BY <2>1, <2>2, <2>3
<1>2. CASE AddInstance(t)
  <2>1. ThreadType' /\ held' = [held EXCEPT ![t] = None]
    BY <1>0, <1>2, ReturnTyped DEF AddInstance
  <2>2. SignType' /\ HeapType' /\ HistoryType'
    BY <1>0, <1>2 DEF AddInstance, SignType, HeapType, HistoryType
  <2>3. SessionType'
    BY <1>0, <1>2, <2>1 DEF AddInstance, Destroy, NewInv, ThreadType, SessionType, NoSession
  <2>4. QED  BY <2>1, <2>2, <2>3
<1>3. QED
  BY <1>1, <1>2 DEF PoolStep

\* What a step that only returns leaves as it is.
LEMMA FailTypes ==
  ASSUME TypeInv, NEW t \in Thread, Return(t), UNCHANGED <<signVars, sessionVars, received, died>>
  PROVE  TypeInv'
<1> USE TypeParts DEF signVars, sessionVars
<1>1. ThreadType' /\ held' = [held EXCEPT ![t] = None]
  BY ReturnTyped
<1>2. SignType' /\ SessionType' /\ HeapType' /\ HistoryType'
  BY <1>1 DEF ThreadType, SignType, SessionType, HeapType, HistoryType
<1>3. QED  BY <1>1, <1>2

LEMMA VerifyTypes ==
  ASSUME TypeInv, NEW t \in Thread, VerifyStep(t) PROVE TypeInv'
<1> USE TypeParts, NoneAssumption DEF signVars, sessionVars
<1>0. ThreadType /\ SignType /\ SessionType /\ HeapType /\ HistoryType
  OBVIOUS
<1>1. ASSUME NEW packet \in Packet, Receive(t, packet) PROVE TypeInv'
  <2>0. packet.sender \in Peer
    BY PacketAssumption DEF PacketType
  <2>1. ThreadType'
    BY <1>0, <1>1, <2>0 DEF Receive, ThreadType, SessionType, Go, JobInv, Signing, Verifying
  <2>2. SignType' /\ HeapType' /\ HistoryType'
    BY <1>0, <1>1, PacketsAssumption DEF Receive, SignType, HeapType, HistoryType
  <2>3. SessionType'
    BY <1>0, <1>1, <2>0 DEF Receive, ThreadType, SessionType
  <2>4. QED  BY <2>1, <2>2, <2>3
<1>2. CASE Check(t)
  <2>0. job[t] \in Packet /\ held[t] \in Session
    BY <1>0, <1>2 DEF Check, ThreadType
  <2>1. ThreadType'
    BY <1>0, <1>2, <2>0, GoTyped DEF Check, Signing, Verifying
  <2>2. SignType' /\ SessionType' /\ HeapType' /\ HistoryType'
    BY <1>0, <1>2, <2>0 DEF Check, SignType, SessionType, HeapType, HistoryType
  <2>3. QED  BY <2>1, <2>2
<1>3. CASE Create(t)
  <2>0. job[t] \in Packet /\ held[t] \in Session
    BY <1>0, <1>3 DEF Create, ThreadType
  <2>1. ThreadType'
    BY <1>0, <1>3, <2>0, GoTyped DEF Create, Signing, Verifying
  <2>2. SignType' /\ HistoryType'
    BY <1>0, <1>3 DEF Create, SignType, HistoryType
  <2>3. SessionType'
    BY <1>0, <1>3, <2>0 DEF Create, ThreadType, SessionType
  <2>4. HeapType'
    BY <1>0, <1>3, BlankTyped, HeapChange DEF Create
  <2>5. QED  BY <2>1, <2>2, <2>3, <2>4
<1>4. CASE CreateFails(t)
  <2>0. held[t] \in Session
    BY <1>0, <1>4 DEF CreateFails, ThreadType
  <2>1. ThreadType' /\ held' = [held EXCEPT ![t] = None]
    BY <1>0, <1>4, ReturnTyped DEF CreateFails
  <2>2. SignType' /\ HeapType' /\ HistoryType'
    BY <1>0, <1>4 DEF CreateFails, SignType, HeapType, HistoryType
  <2>3. SessionType'
    BY <1>0, <1>4, <2>0, <2>1 DEF CreateFails, ThreadType, SessionType
  <2>4. QED  BY <2>1, <2>2, <2>3
<1>5. CASE VerifyInit(t)
  <2>0. job[t] \in Packet /\ held[t] \in Session
    BY <1>0, <1>5 DEF VerifyInit, ThreadType, Verifying
  <2>1. ThreadType'
    BY <1>0, <1>5, <2>0, GoTyped DEF VerifyInit, Signing, Verifying
  <2>2. SignType' /\ SessionType' /\ HistoryType'
    BY <1>0, <1>5 DEF VerifyInit, SignType, SessionType, HistoryType
  <2>3. HeapType'
    <3>1. context(t) \in Ctx /\ heap[context(t)] \in Cell
      BY <1>0, <1>5, <2>0, ContextTyped DEF VerifyInit
    <3>2. sessions[held[t]].key \in Key \cup {None}
      BY <1>0, <2>0 DEF SessionType
    <3>3. [alloc |-> heap[context(t)].alloc, ready |-> TRUE, key |-> sessions[held[t]].key,
           over |-> << >>] \in Cell
      BY <3>1, <3>2, InitTyped
    <3>4. QED  BY <1>0, <1>5, <3>3, HeapChange DEF VerifyInit
  <2>4. QED  BY <2>1, <2>2, <2>3
<1>6. CASE VerifyInitFails(t)
  BY <1>6, FailTypes DEF VerifyInitFails
<1>7. CASE Unsupported(t)
  <2>0. held[t] \in Session
    BY <1>0, <1>7 DEF Unsupported, ThreadType, Verifying
  <2>1. ThreadType' /\ held' = [held EXCEPT ![t] = None]
    BY <1>0, <1>7, ReturnTyped DEF Unsupported
  <2>2. SignType' /\ HistoryType'
    BY <1>0, <1>7, <2>0 DEF Unsupported, SignType, HistoryType
  <2>3. SessionType'
    BY <1>0, <1>7, <2>1 DEF Unsupported, ThreadType, SessionType
  <2>4. HeapType'
    <3>1. CASE UNCHANGED heap
      BY <1>0, <3>1 DEF HeapType
    <3>2. CASE heap' = [heap EXCEPT ![context(t)] = Blank(FALSE)]
      BY <1>0, <3>2, BlankTyped, HeapChange
    <3>3. QED  BY <1>7, <3>1, <3>2 DEF Unsupported
  <2>5. QED  BY <2>1, <2>2, <2>3, <2>4
<1>8. CASE VerifyUpdate(t)
  <2>0. job[t] \in Packet /\ held[t] \in Session
    BY <1>0, <1>8 DEF VerifyUpdate, ThreadType, Verifying
  <2>1. ThreadType'
    BY <1>0, <1>8, <2>0, GoTyped DEF VerifyUpdate, Signing, Verifying
  <2>2. SignType' /\ SessionType' /\ HistoryType'
    BY <1>0, <1>8 DEF VerifyUpdate, SignType, SessionType, HistoryType
  <2>3. job[t].msg \in Msg
    BY <2>0, PacketAssumption DEF PacketType
  <2>4. PICK part \in Part : heap' = [heap EXCEPT ![context(t)].over = Append(@, part)]
    BY <1>8, <2>3, PartTypes DEF VerifyUpdate
  <2>5. HeapType'
    <3>1. context(t) \in Ctx /\ heap[context(t)] \in Cell
      BY <1>0, <1>8, <2>0, ContextTyped DEF VerifyUpdate, Ready
    <3>2. [heap[context(t)] EXCEPT !.over = Append(heap[context(t)].over, part)] \in Cell
      BY <3>1 DEF Cell
    <3>3. QED  BY <1>0, <2>4, <3>2, HeapChange
  <2>6. QED  BY <2>1, <2>2, <2>5
<1>9. CASE VerifyUpdateFails(t)
  BY <1>9, FailTypes DEF VerifyUpdateFails
<1>10. CASE VerifyFinal(t)
  <2>0. job[t] \in Packet /\ held[t] \in Session
    BY <1>0, <1>10 DEF VerifyFinal, ThreadType, Verifying
  <2>1. ThreadType' /\ held' = [held EXCEPT ![t] = None]
    BY <1>0, <1>10, ReturnTyped DEF VerifyFinal
  <2>2. SignType' /\ HeapType'
    BY <1>0, <1>10 DEF VerifyFinal, SignType, HeapType
  <2>3. SessionType'
    BY <1>0, <1>10, <2>1 DEF VerifyFinal, ThreadType, SessionType
  <2>4. sessions[held[t]].key \in Key
    BY <1>0, <2>0 DEF SessionType, ThreadType
  <2>5. HistoryType'
    BY <1>0, <1>10, <2>0, <2>4 DEF VerifyFinal, Accept, Record, HistoryType
  <2>6. QED  BY <2>1, <2>2, <2>3, <2>5
<1>11. CASE VerifyFinalFails(t)
  BY <1>11, FailTypes DEF VerifyFinalFails
<1>12. CASE VerifyDies(t)
  <2>1. ThreadType' /\ SignType' /\ SessionType' /\ HeapType' /\ HistoryType'
    BY <1>0, <1>12 DEF VerifyDies, Die, ThreadType, SignType, SessionType, HeapType, HistoryType, JobInv
  <2>2. QED  BY <2>1
<1>13. QED
  BY <1>1, <1>2, <1>3, <1>4, <1>5, <1>6, <1>7, <1>8, <1>9, <1>10, <1>11, <1>12 DEF VerifyStep

-----------------------------------------------------------------------------
(* Signing.                                                                 *)

\* A step of t leaves the other threads where they are.
Alone(t) ==
  /\ \A u \in Thread \ {t} : pc'[u] = pc[u] /\ job'[u] = job[u] /\ held'[u] = held[u]
  /\ held'[t] \in {held[t], None}

LEMMA GoesAlone ==
  ASSUME ThreadType, NEW t \in Thread, NEW there, Go(t, there), UNCHANGED <<job, held>>
  PROVE  Alone(t) /\ pc'[t] = there /\ job'[t] = job[t] /\ held'[t] = held[t]
BY DEF ThreadType, JobInv, Go, Alone

LEMMA ReturnsAlone ==
  ASSUME ThreadType, NEW t \in Thread, Return(t)
  PROVE  Alone(t) /\ pc'[t] = "idle" /\ held'[t] = None
BY DEF ThreadType, JobInv, Go, Return, Alone

\* The other steps of a thread do not touch what signing uses.
LEMMA NotSigning ==
  ASSUME SignInv, SignsOwnMessage, NEW t \in Thread,
         pc[t] \notin Signing, pc'[t] \notin Signing,
         \A u \in Thread \ {t} : pc'[u] = pc[u] /\ job'[u] = job[u],
         UNCHANGED signVars
  PROVE  SignInv' /\ SignsOwnMessage'
<1> USE DEF signVars
<1>1. SignsOwnMessage'
  BY DEF SignsOwnMessage
<1>2. SignInv'
  BY DEF SignInv, Others
<1>3. QED  BY <1>1, <1>2

LEMMA SignSteps ==
  ASSUME TypeInv, SignInv, SignsOwnMessage, NEW t \in Thread, SignStep(t)
  PROVE  SignInv' /\ SignsOwnMessage'
<1> USE DEF signVars, sessionVars
<1>0. ThreadType /\ SignType
  BY TypeParts
<1>1. ASSUME NEW m \in Msg, Send(t, m) PROVE SignInv' /\ SignsOwnMessage'
  <2>1. SignsOwnMessage'
    BY <1>1 DEF Send, SignsOwnMessage
  <2>2. /\ pc'[t] = "signInit" /\ pc[t] = "idle" /\ UNCHANGED md
        /\ \A u \in Thread \ {t} : pc'[u] = pc[u] /\ job'[u] = job[u]
    BY <1>0, <1>1 DEF Send, Go, ThreadType, JobInv
  <2>3. ASSUME NEW u \in Thread, pc'[u] \in Signing, alone'[u]
        PROVE  /\ Others(u)' = {}
               /\ pc'[u] = "signUpdate" => md' = << >>
               /\ pc'[u] = "signFinal" => md' = <<Whole(job'[u])>>
    <3>1. u = t
      BY <1>1, <2>2, <2>3 DEF Send, Others
    <3>2. Others(t) = {}
      BY <1>1, <2>3, <3>1 DEF Send
    <3>3. QED
      BY <2>2, <3>1, <3>2 DEF Others
  <2>4. QED
    BY <2>1, <2>3 DEF SignInv
<1>2. ASSUME pc[t] \in Signing, Alone(t), pc'[t] \in Signing, job'[t] = job[t],
             UNCHANGED <<alone, sent>>,
             alone[t] => (pc'[t] = "signUpdate" => md' = << >>),
             alone[t] => (pc'[t] = "signFinal" => md' = <<Whole(job[t])>>)
      PROVE  SignInv' /\ SignsOwnMessage'
  <2>1. SignsOwnMessage'
    BY <1>2 DEF SignsOwnMessage
  <2>2. ASSUME NEW u \in Thread, pc'[u] \in Signing, alone'[u]
        PROVE  /\ Others(u)' = {}
               /\ pc'[u] = "signUpdate" => md' = << >>
               /\ pc'[u] = "signFinal" => md' = <<Whole(job'[u])>>
    <3>1. pc[u] \in Signing /\ alone[u]
      BY <1>2, <2>2 DEF Alone
    <3>2. Others(u) = {}
      BY <3>1 DEF SignInv
    <3>3. u = t
      BY <1>2, <3>2 DEF Others
    <3>4. QED
      BY <1>2, <3>1, <3>2, <3>3 DEF Others, Alone
  <2>3. QED
    BY <2>1, <2>2 DEF SignInv
<1>3. CASE SignInit(t)
  <2>1. alone[t] => md' = << >>
    BY <1>3 DEF SignInit, Digests, SignInv, Signing
  <2>2. Alone(t) /\ pc'[t] = "signUpdate" /\ job'[t] = job[t]
    BY <1>0, <1>3, GoesAlone DEF SignInit
  <2>3. QED
    BY <1>2, <1>3, <2>1, <2>2 DEF SignInit, Signing
<1>4. CASE SignUpdate(t)
  <2>1. alone[t] => md = << >> /\ Others(t) = {}
    BY <1>4 DEF SignUpdate, SignInv, Signing
  <2>2. alone[t] => md' = <<Whole(job[t])>>
    BY <1>4, <2>1 DEF SignUpdate, Digests
  <2>3. Alone(t) /\ pc'[t] = "signFinal" /\ job'[t] = job[t]
    BY <1>0, <1>4, GoesAlone DEF SignUpdate
  <2>4. QED
    BY <1>2, <1>4, <2>2, <2>3 DEF SignUpdate, Signing
<1>5. ASSUME Return(t), UNCHANGED <<md, alone>>, SignsOwnMessage'
      PROVE  SignInv' /\ SignsOwnMessage'
  <2>1. Alone(t) /\ pc'[t] \notin Signing
    BY <1>0, <1>5, ReturnsAlone DEF Signing
  <2>2. SignInv'
    BY <1>5, <2>1 DEF SignInv, Others, Alone
  <2>3. QED  BY <1>5, <2>2
<1>6. CASE SignFinal(t)
  <2>1. alone[t] => md = <<Whole(job[t])>> /\ Others(t) = {}
    BY <1>6 DEF SignFinal, SignInv, Signing
  <2>2. PICK over \in Digests(t, md) :
            sent' = [msg |-> job[t], alone |-> alone[t],
                     sig |-> [key |-> Self, over |-> over]]
    BY <1>6 DEF SignFinal
  <2>3. alone[t] => over = <<Whole(job[t])>>
    BY <2>1 DEF Digests
  <2>4. SignsOwnMessage'
    BY <2>2, <2>3 DEF SignsOwnMessage
  <2>5. QED
    BY <1>5, <1>6, <2>4 DEF SignFinal
<1>7. CASE SignFinalFails(t)
  BY <1>5, <1>7 DEF SignFinalFails, SignsOwnMessage
<1>8. CASE SignDies(t)
  <2>1. UNCHANGED <<pc, job, md, alone, sent>>
    BY <1>8 DEF SignDies, Die
  <2>2. QED
    BY <2>1 DEF SignInv, SignsOwnMessage, Others
<1>9. QED
  BY <1>1, <1>3, <1>4, <1>6, <1>7, <1>8 DEF SignStep

-----------------------------------------------------------------------------
(* Sessions and their contexts.                                             *)

SessionInv == OneSession /\ NewInv /\ CtxInv /\ MakeInv
AcceptInv == SignedByPeer /\ CoversPayload

Away == {"idle"} \cup Signing

\* A thread that goes away, or has nothing to do with sessions.
LEMMA Leaves ==
  ASSUME TypeInv, SessionInv, NEW t \in Thread, Alone(t), pc'[t] \in Away,
         UNCHANGED <<pool, sessions, heap, dangling, raced>>
  PROVE  SessionInv'
<1>0. ThreadType /\ SessionType
  BY TypeParts
<1>1. OneSession'
  BY DEF SessionInv, OneSession, Away, Alone, Signing, Verifying
<1>2. NewInv'
  BY <1>0 DEF SessionInv, NewInv, Away, Alone, Signing, ThreadType
<1>3. CtxInv'
  BY DEF SessionInv, CtxInv
<1>4. MakeInv'
  <2>1. ASSUME NEW u \in Thread, pc'[u] \in {"create", "init", "final"}
        PROVE  u # t /\ pc'[u] = pc[u] /\ job'[u] = job[u] /\ held'[u] = held[u]
    BY <2>1 DEF Away, Signing, Alone
  <2>2. \A u \in Thread : Maker(u)' => Maker(u) /\ held'[u] = held[u]
    BY <2>1 DEF Maker
  <2>3. QED
    BY <2>1, <2>2 DEF SessionInv, MakeInv, Maker, Covered, Ready, context
<1>5. QED  BY <1>1, <1>2, <1>3, <1>4 DEF SessionInv

\* What was accepted stays as good as it was.
LEMMA Accepted ==
  ASSUME AcceptInv, UNCHANGED accepted, dangling \subseteq dangling'
  PROVE  AcceptInv'
<1>1. SignedByPeer'
  BY DEF AcceptInv, SignedByPeer
<1>2. CoversPayload'
  BY DEF AcceptInv, CoversPayload
<1>3. QED  BY <1>1, <1>2 DEF AcceptInv

LEMMA NewSessions ==
  ASSUME TypeInv, SessionInv, NEW t \in Thread, NEW p \in Peer, NEW key \in Key,
         NewSession(t, p, key)
  PROVE  SessionInv'
<1>0. ThreadType /\ SessionType
  BY TypeParts
<1>1. PICK s \in Session : /\ sessions[s] = NoSession
                           /\ sessions' = [sessions EXCEPT ![s].key = key]
                           /\ held' = [held EXCEPT ![t] = s]
  BY DEF NewSession
<1>2. /\ s # None /\ sessions[s].key = None /\ sessions[s].ctx = None
      /\ \A u \in Thread : held[u] # s
      /\ \A q \in Peer : pool[q] # s
  BY <1>0, <1>1, NoneAssumption DEF NoSession, ThreadType, SessionType
<1>3. /\ \A u \in Thread \ {t} : pc'[u] = pc[u] /\ job'[u] = job[u] /\ held'[u] = held[u]
      /\ pc'[t] = "add" /\ held'[t] = s /\ pc[t] = "idle"
      /\ UNCHANGED <<pool, heap, dangling, raced>>
  BY <1>0, <1>1 DEF NewSession, Go, ThreadType, JobInv
<1>4. /\ \A r \in Session : sessions'[r].ctx = sessions[r].ctx
      /\ \A r \in Session \ {s} : sessions'[r] = sessions[r]
  BY <1>0, <1>1 DEF SessionType
<1>5. OneSession'
  BY <1>3 DEF SessionInv, OneSession, Verifying
<1>6. NewInv'
  BY <1>0, <1>2, <1>3, <1>4 DEF SessionInv, NewInv, ThreadType
<1>7. CtxInv'
  <2>1. ASSUME NEW r \in Session, sessions'[r].ctx # None PROVE sessions'[r] = sessions[r]
    BY <1>2, <1>4, <2>1
  <2>2. QED  BY <1>3, <1>4, <2>1 DEF SessionInv, CtxInv
<1>8. MakeInv'
  <2>1. ASSUME NEW u \in Thread, pc'[u] \in {"create", "init", "final"}
        PROVE  /\ u # t /\ pc'[u] = pc[u] /\ job'[u] = job[u] /\ held'[u] = held[u]
               /\ held[u] \in Session /\ held[u] # s /\ context(u)' = context(u)
    BY <1>0, <1>2, <1>3, <1>4, <2>1 DEF ThreadType, Verifying, context
  <2>2. \A u \in Thread : Maker(u)' => Maker(u) /\ held'[u] = held[u]
    BY <2>1 DEF Maker
  <2>3. QED
    BY <1>3, <2>1, <2>2 DEF SessionInv, MakeInv, Maker, Covered, Ready
<1>9. QED  BY <1>5, <1>6, <1>7, <1>8 DEF SessionInv

LEMMA AddInstances ==
  ASSUME TypeInv, SessionInv, NEW t \in Thread, AddInstance(t)
  PROVE  SessionInv'
<1>0. ThreadType /\ SessionType
  BY TypeParts
<1>1. Alone(t) /\ pc'[t] = "idle" /\ held'[t] = None
  BY <1>0, ReturnsAlone DEF AddInstance
<1>2. /\ pc[t] = "add" /\ job[t] \in Peer /\ held[t] \in Session /\ held[t] # None
      /\ sessions[held[t]].ctx = None
      /\ \A q \in Peer : pool[q] # held[t]
      /\ \A u \in Thread : held[u] = held[t] => u = t
      /\ UNCHANGED <<heap, dangling, raced>>
  BY <1>0, NoneAssumption DEF AddInstance, ThreadType, SessionInv, NewInv
<1>3. /\ \A r \in Session : sessions'[r].ctx = sessions[r].ctx
      /\ \A r \in Session \ {held[t]} : sessions'[r] = sessions[r]
  BY <1>0, <1>2 DEF AddInstance, Destroy, NoSession, SessionType
<1>4. \A q \in Peer : pool'[q] = pool[q] \/ (pool[q] = None /\ pool'[q] = held[t])
  <2>1. CASE pool[job[t]] = None
    <3>1. pool' = [pool EXCEPT ![job[t]] = held[t]]
      BY <2>1 DEF AddInstance
    <3>2. QED  BY <1>0, <1>2, <2>1, <3>1 DEF SessionType
  <2>2. CASE pool[job[t]] # None
    BY <2>2 DEF AddInstance
  <2>3. QED  BY <2>1, <2>2
<1>5. OneSession'
  <2>1. ASSUME NEW u \in Thread, pc'[u] \in {"check", "create"} \cup Verifying
        PROVE  held'[u] = pool'[job'[u].sender]
    <3>1. /\ u # t /\ pc'[u] = pc[u] /\ job'[u] = job[u] /\ held'[u] = held[u]
          /\ job[u] \in Packet /\ held[u] # None
      BY <1>0, <1>1, <2>1 DEF Alone, Verifying, ThreadType
    <3>2. job[u].sender \in Peer /\ held[u] = pool[job[u].sender]
      BY <2>1, <3>1, PacketAssumption DEF PacketType, SessionInv, OneSession
    <3>3. QED  BY <1>4, <3>1, <3>2
  <2>2. QED  BY <2>1 DEF OneSession
<1>6. NewInv'
  <2>1. ASSUME NEW u \in Thread, pc'[u] = "add"
        PROVE  /\ sessions'[held'[u]].ctx = None
               /\ \A q \in Peer : pool'[q] # held'[u]
               /\ \A v \in Thread : held'[v] = held'[u] => v = u
    <3>1. /\ u # t /\ pc[u] = "add" /\ held'[u] = held[u] /\ held[u] # held[t]
          /\ held[u] \in Session /\ held[u] # None
      BY <1>0, <1>1, <1>2, <2>1 DEF Alone, ThreadType
    <3>2. /\ sessions[held[u]].ctx = None
          /\ \A q \in Peer : pool[q] # held[u]
          /\ \A v \in Thread : held[v] = held[u] => v = u
      BY <3>1 DEF SessionInv, NewInv
    <3>3. QED  BY <1>1, <1>3, <1>4, <3>1, <3>2 DEF Alone
  <2>2. QED  BY <2>1 DEF NewInv
<1>7. CtxInv'
  <2>1. ASSUME NEW r \in Session, sessions'[r].ctx # None PROVE sessions'[r] = sessions[r]
    BY <1>2, <1>3, <2>1
  <2>2. QED  BY <1>2, <1>3, <2>1 DEF SessionInv, CtxInv
<1>8. MakeInv'
  <2>1. ASSUME NEW u \in Thread, pc'[u] \in {"create", "init", "final"}
        PROVE  /\ u # t /\ pc'[u] = pc[u] /\ job'[u] = job[u] /\ held'[u] = held[u]
               /\ held[u] \in Session /\ context(u)' = context(u)
    BY <1>0, <1>1, <1>3, <2>1 DEF ThreadType, Verifying, context, Alone
  <2>2. \A u \in Thread : Maker(u)' => Maker(u) /\ held'[u] = held[u]
    BY <2>1 DEF Maker
  <2>3. QED
    BY <1>2, <2>1, <2>2 DEF SessionInv, MakeInv, Maker, Covered, Ready
<1>9. QED  BY <1>5, <1>6, <1>7, <1>8 DEF SessionInv

LEMMA Receives ==
  ASSUME TypeInv, SessionInv, NEW t \in Thread, NEW packet \in Packet, Receive(t, packet)
  PROVE  SessionInv'
<1>0. ThreadType /\ SessionType
  BY TypeParts
<1>1. packet.sender \in Peer
  BY PacketAssumption DEF PacketType
<1>2. /\ \A u \in Thread \ {t} : pc'[u] = pc[u] /\ job'[u] = job[u] /\ held'[u] = held[u]
      /\ pc'[t] = "check" /\ job'[t] = packet /\ held'[t] = pool[packet.sender]
      /\ UNCHANGED <<pool, sessions, heap, dangling, raced>>
  BY <1>0 DEF Receive, Go, ThreadType, JobInv, sessionVars
<1>3. OneSession'
  BY <1>2 DEF SessionInv, OneSession
<1>4. NewInv'
  BY <1>1, <1>2 DEF SessionInv, NewInv
<1>5. CtxInv'
  BY <1>2 DEF SessionInv, CtxInv
<1>6. MakeInv'
  <2>1. ASSUME NEW u \in Thread, pc'[u] \in {"create", "init", "final"}
        PROVE  u # t /\ pc'[u] = pc[u] /\ job'[u] = job[u] /\ held'[u] = held[u]
    BY <1>2, <2>1
  <2>2. \A u \in Thread : Maker(u)' => Maker(u) /\ held'[u] = held[u]
    BY <2>1 DEF Maker
  <2>3. QED
    BY <1>2, <2>1, <2>2 DEF SessionInv, MakeInv, Maker, Covered, Ready, context
<1>7. QED  BY <1>3, <1>4, <1>5, <1>6 DEF SessionInv

\* A step within verify keeps what concerns the pool.
LEMMA Stays ==
  ASSUME TypeInv, OneSession, NewInv, NEW t \in Thread, NEW there \in Using,
         pc[t] \in Using, Go(t, there), UNCHANGED <<job, held, pool>>,
         \A r \in Session \ {held[t]} : sessions'[r] = sessions[r]
  PROVE  OneSession' /\ NewInv'
<1>0. ThreadType /\ SessionType
  BY TypeParts
<1>1. /\ \A u \in Thread : job'[u] = job[u] /\ held'[u] = held[u] /\ (u # t => pc'[u] = pc[u])
      /\ pc'[t] = there
  BY <1>0 DEF Go, ThreadType
<1>2. OneSession'
  BY <1>1 DEF OneSession, Using
<1>3. NewInv'
  <2>1. ASSUME NEW u \in Thread, pc'[u] = "add"
        PROVE  pc[u] = "add" /\ held[u] \in Session /\ held[u] # held[t]
    BY <1>0, <1>1, <2>1 DEF Using, Verifying, NewInv, ThreadType
  <2>2. QED  BY <1>1, <2>1 DEF NewInv
<1>4. QED  BY <1>2, <1>3

LEMMA Checks ==
  ASSUME TypeInv, SessionInv, NEW t \in Thread, Check(t)
  PROVE  SessionInv'
<1>0. ThreadType /\ SessionType
  BY TypeParts
<1>1. /\ \A u \in Thread : job'[u] = job[u] /\ held'[u] = held[u] /\ (u # t => pc'[u] = pc[u])
      /\ pc[t] = "check"
      /\ pc'[t] = IF context(t) = None THEN "create" ELSE "update"
      /\ UNCHANGED <<pool, sessions, heap, dangling>>
      /\ raced \subseteq raced'
  BY <1>0 DEF Check, Go, ThreadType
<1>2. OneSession' /\ NewInv'
  BY <1>1, Stays DEF Check, SessionInv, Using, Verifying
<1>3. CtxInv'
  BY <1>1 DEF SessionInv, CtxInv
<1>4. ASSUME dangling' = {}, NEW u \in Thread, held'[u] \notin raced'
      PROVE  /\ Maker(u)' => \A v \in Thread : Maker(v)' /\ held'[v] = held'[u] => v = u
             /\ pc'[u] = "create" => context(u)' = None
             /\ pc'[u] = "init" => context(u)' # None /\ ~heap'[context(u)'].ready
             /\ pc'[u] = "final" => Covered(u)'
  <2>1. /\ Maker(u) => \A v \in Thread : Maker(v) /\ held[v] = held[u] => v = u
        /\ pc[u] = "create" => context(u) = None
        /\ pc[u] = "init" => context(u) # None /\ ~heap[context(u)].ready
        /\ pc[u] = "final" => Covered(u)
    BY <1>1, <1>4 DEF SessionInv, MakeInv
  <2>2. context(u)' = context(u)
    BY <1>1 DEF context
  <2>3. Covered(u)' <=> Covered(u)
    BY <1>1 DEF Covered, Ready, context
  <2>4. Maker(t)' /\ held[u] = held[t] =>
           \A v \in Thread : Maker(v) => held[v] # held[t]
    BY <1>1, <1>4 DEF Check, Maker
  <2>5. \A v \in Thread : Maker(v)' => v = t \/ Maker(v)
    BY <1>1 DEF Maker
  <2>6. Maker(u)' => \A v \in Thread : Maker(v)' /\ held'[v] = held'[u] => v = u
    BY <1>1, <2>1, <2>4, <2>5
  <2>7. QED  BY <1>1, <2>1, <2>2, <2>3, <2>6
<1>5. MakeInv'
  BY <1>4 DEF MakeInv
<1>6. QED  BY <1>2, <1>3, <1>5 DEF SessionInv

LEMMA Creates ==
  ASSUME TypeInv, SessionInv, NEW t \in Thread, Create(t)
  PROVE  SessionInv'
<1>0. ThreadType /\ SessionType /\ HeapType
  BY TypeParts
<1>1. PICK c \in Ctx : /\ ~heap[c].alloc
                       /\ heap' = [heap EXCEPT ![c] = Blank(TRUE)]
                       /\ sessions' = [sessions EXCEPT ![held[t]].ctx = c]
  BY DEF Create
<1>2. /\ \A u \in Thread : job'[u] = job[u] /\ held'[u] = held[u] /\ (u # t => pc'[u] = pc[u])
      /\ pc[t] = "create" /\ pc'[t] = "init" /\ held[t] \in Session
      /\ UNCHANGED <<pool, dangling, raced>>
  BY <1>0 DEF Create, Go, ThreadType
<1>3. /\ \A r \in Session \ {held[t]} : sessions'[r] = sessions[r]
      /\ sessions'[held[t]].ctx = c /\ sessions'[held[t]].key = sessions[held[t]].key
      /\ heap'[c].alloc /\ ~heap'[c].ready /\ c # None
      /\ \A d \in Ctx \ {c} : heap'[d] = heap[d]
  BY <1>0, <1>1, <1>2, NoneAssumption DEF SessionType, HeapType, Blank
<1>4. dangling = {} => \A r \in Session : sessions[r].ctx # c
  BY <1>1, <1>3 DEF SessionInv, CtxInv
<1>5. \A r \in Session : sessions[r].ctx # None => sessions[r].ctx \in Ctx
  BY <1>0 DEF SessionType
<1>6. OneSession' /\ NewInv'
  BY <1>2, <1>3, Stays DEF Create, SessionInv, Using, Verifying
<1>7. CtxInv'
  <2>1. ASSUME dangling = {}, NEW s \in Session, sessions'[s].ctx # None
        PROVE  /\ heap'[sessions'[s].ctx].alloc
               /\ heap'[sessions'[s].ctx].ready =>
                    heap'[sessions'[s].ctx].key = sessions'[s].key
               /\ \A r \in Session : sessions'[r].ctx = sessions'[s].ctx => r = s
    <3>1. CASE s = held[t]
      BY <1>3, <1>4, <2>1, <3>1
    <3>2. CASE s # held[t]
      <4>1. /\ sessions'[s] = sessions[s] /\ sessions[s].ctx \in Ctx \ {c}
            /\ heap'[sessions[s].ctx] = heap[sessions[s].ctx]
        BY <1>3, <1>4, <1>5, <2>1, <3>2
      <4>2. /\ heap[sessions[s].ctx].alloc
            /\ heap[sessions[s].ctx].ready => heap[sessions[s].ctx].key = sessions[s].key
            /\ \A r \in Session : sessions[r].ctx = sessions[s].ctx => r = s
        BY <2>1, <4>1, <1>3 DEF SessionInv, CtxInv
      <4>3. QED  BY <1>3, <4>1, <4>2
    <3>3. QED  BY <3>1, <3>2
  <2>2. QED  BY <1>2, <2>1 DEF CtxInv
<1>8. ASSUME dangling = {}, NEW u \in Thread, held[u] \notin raced
      PROVE  /\ Maker(u)' => \A v \in Thread : Maker(v)' /\ held[v] = held[u] => v = u
             /\ pc'[u] = "create" => context(u)' = None
             /\ pc'[u] = "init" => context(u)' # None /\ ~heap'[context(u)'].ready
             /\ pc'[u] = "final" => Covered(u)'
  <2>1. /\ Maker(u) => \A v \in Thread : Maker(v) /\ held[v] = held[u] => v = u
        /\ pc[u] = "create" => context(u) = None
        /\ pc[u] = "init" => context(u) # None /\ ~heap[context(u)].ready
        /\ pc[u] = "final" => Covered(u)
    BY <1>8 DEF SessionInv, MakeInv
  <2>2. \A v \in Thread : Maker(v)' <=> Maker(v)
    BY <1>2 DEF Maker
  <2>3. CASE u = t
    BY <1>2, <1>3, <2>1, <2>2, <2>3 DEF context
  <2>4. CASE u # t
    <3>1. /\ pc'[u] = pc[u]
          /\ pc[u] \in {"create", "init", "final"} => held[u] \in Session
      BY <1>0, <1>2, <2>4 DEF ThreadType, Verifying
    <3>2. pc[u] \in {"create", "init"} => held[u] # held[t]
      BY <1>2, <2>1, <2>4 DEF Maker
    <3>3. pc[u] = "final" => held[u] # held[t]
      <4>1. held[t] \notin raced => context(t) = None
        BY <1>2, <1>8 DEF SessionInv, MakeInv
      <4>2. QED  BY <1>8, <2>1, <4>1 DEF Covered, Ready, context
    <3>4. pc[u] \in {"create", "init", "final"} =>
            context(u)' = context(u)
      BY <1>2, <1>3, <3>1, <3>2, <3>3 DEF context
    <3>5. pc[u] \in {"init", "final"} => heap'[context(u)] = heap[context(u)]
      <4>1. pc[u] \in {"init", "final"} => context(u) # None
        BY <2>1 DEF Covered, Ready
      <4>2. QED  BY <1>3, <1>4, <1>5, <1>8, <3>1, <4>1 DEF context
    <3>6. QED
      BY <1>2, <2>1, <2>2, <3>1, <3>4, <3>5 DEF Covered, Ready
  <2>5. QED  BY <2>3, <2>4
<1>9. MakeInv'
  BY <1>2, <1>8 DEF MakeInv
<1>10. QED  BY <1>6, <1>7, <1>9 DEF SessionInv

LEMMA CreateFailures ==
  ASSUME TypeInv, SessionInv, NEW t \in Thread, CreateFails(t)
  PROVE  SessionInv'
<1>0. ThreadType /\ SessionType
  BY TypeParts
<1>1. Alone(t) /\ pc'[t] = "idle" /\ held'[t] = None
  BY <1>0, ReturnsAlone DEF CreateFails
<1>2. /\ held[t] \in Session /\ pc[t] = "create"
      /\ \A r \in Session \ {held[t]} : sessions'[r] = sessions[r]
      /\ sessions'[held[t]].ctx = None
      /\ UNCHANGED <<pool, heap, dangling, raced>>
  BY <1>0 DEF CreateFails, ThreadType, SessionType
<1>3. OneSession'
  BY <1>1, <1>2 DEF SessionInv, OneSession, Verifying, Alone
<1>4. NewInv'
  <2>1. ASSUME NEW u \in Thread, pc'[u] = "add"
        PROVE  /\ u # t /\ pc[u] = "add" /\ held'[u] = held[u]
               /\ held[u] \in Session /\ held[u] # None /\ held[u] # held[t]
    BY <1>0, <1>1, <1>2, <2>1 DEF Alone, SessionInv, NewInv, ThreadType
  <2>2. QED  BY <1>1, <1>2, <2>1 DEF SessionInv, NewInv, Alone
<1>5. CtxInv'
  <2>1. ASSUME NEW r \in Session, sessions'[r].ctx # None
        PROVE  r # held[t] /\ sessions'[r] = sessions[r]
    BY <1>2, <2>1
  <2>2. QED  BY <1>2, <2>1 DEF SessionInv, CtxInv
<1>6. MakeInv'
  <2>1. ASSUME NEW u \in Thread, pc'[u] \in {"create", "init", "final"}
        PROVE  /\ u # t /\ pc'[u] = pc[u] /\ job'[u] = job[u] /\ held'[u] = held[u]
               /\ held[u] \in Session
    BY <1>0, <1>1, <2>1 DEF ThreadType, Verifying, Alone
  <2>2. \A u \in Thread : Maker(u)' => Maker(u) /\ held'[u] = held[u]
    BY <2>1 DEF Maker
  <2>3. ASSUME dangling = {}, NEW u \in Thread, held[u] \notin raced,
               pc'[u] \in {"create", "init", "final"}
        PROVE  context(u)' = context(u)
    <3>1. CASE held[u] # held[t]
      BY <1>2, <2>1, <2>3, <3>1 DEF context
    <3>2. CASE held[u] = held[t]
      <4>1. context(t) = None
        BY <1>2, <2>3, <3>2 DEF SessionInv, MakeInv
      <4>2. QED  BY <1>2, <2>1, <2>3, <3>2, <4>1 DEF context
    <3>3. QED  BY <3>1, <3>2
  <2>4. QED
    BY <1>2, <2>1, <2>2, <2>3 DEF SessionInv, MakeInv, Maker, Covered, Ready
<1>7. QED  BY <1>3, <1>4, <1>5, <1>6 DEF SessionInv

\* The contexts of other sessions are other contexts.
LEMMA OwnContext ==
  ASSUME TypeInv, SessionInv, dangling = {}, NEW t \in Thread, held[t] \in Session,
         context(t) # None
  PROVE  /\ context(t) \in Ctx
         /\ \A r \in Session : sessions[r].ctx = context(t) => r = held[t]
         /\ heap[context(t)].alloc
         /\ heap[context(t)].ready => heap[context(t)].key = sessions[held[t]].key
<1>1. context(t) \in Ctx
  BY TypeParts, ContextTyped
<1>2. QED
  BY <1>1 DEF SessionInv, CtxInv, context

LEMMA VerifyInits ==
  ASSUME TypeInv, SessionInv, NEW t \in Thread, VerifyInit(t)
  PROVE  SessionInv'
<1>0. ThreadType /\ SessionType /\ HeapType
  BY TypeParts
<1>1. /\ \A u \in Thread : job'[u] = job[u] /\ held'[u] = held[u] /\ (u # t => pc'[u] = pc[u])
      /\ pc[t] = "init" /\ pc'[t] = "update" /\ held[t] \in Session
      /\ context(t) # None
      /\ UNCHANGED <<pool, sessions, dangling, raced>>
  BY <1>0 DEF VerifyInit, Go, ThreadType, Verifying
<1>2. context(t) \in Ctx
  BY <1>0, <1>1, ContextTyped
<1>3. /\ heap'[context(t)].alloc = heap[context(t)].alloc
      /\ heap'[context(t)].key = sessions[held[t]].key
      /\ \A d \in Ctx \ {context(t)} : heap'[d] = heap[d]
  BY <1>0, <1>2 DEF VerifyInit, HeapType
<1>4. OneSession' /\ NewInv'
  BY <1>1, Stays DEF VerifyInit, SessionInv, Using, Verifying
<1>5. CtxInv'
  <2>1. ASSUME dangling = {}, NEW s \in Session, sessions[s].ctx # None
        PROVE  /\ heap'[sessions[s].ctx].alloc
               /\ heap'[sessions[s].ctx].ready => heap'[sessions[s].ctx].key = sessions[s].key
    <3>1. sessions[s].ctx \in Ctx
      BY <1>0, <2>1 DEF SessionType
    <3>2. heap[sessions[s].ctx].alloc /\
             (heap[sessions[s].ctx].ready => heap[sessions[s].ctx].key = sessions[s].key)
      BY <2>1 DEF SessionInv, CtxInv
    <3>3. sessions[s].ctx = context(t) => s = held[t]
      BY <1>1, <2>1, OwnContext
    <3>4. QED  BY <1>3, <3>1, <3>2, <3>3
  <2>2. QED  BY <1>1, <2>1 DEF SessionInv, CtxInv
<1>6. ASSUME dangling = {}, NEW u \in Thread, held[u] \notin raced
      PROVE  /\ Maker(u)' => \A v \in Thread : Maker(v)' /\ held[v] = held[u] => v = u
             /\ pc'[u] = "create" => context(u) = None
             /\ pc'[u] = "init" => context(u) # None /\ ~heap'[context(u)].ready
             /\ pc'[u] = "final" => Covered(u)'
  <2>1. /\ Maker(u) => \A v \in Thread : Maker(v) /\ held[v] = held[u] => v = u
        /\ pc[u] = "create" => context(u) = None
        /\ pc[u] = "init" => context(u) # None /\ ~heap[context(u)].ready
        /\ pc[u] = "final" => Covered(u)
    BY <1>6 DEF SessionInv, MakeInv
  <2>2. \A v \in Thread : Maker(v)' => Maker(v) /\ v # t
    BY <1>1 DEF Maker
  <2>3. ASSUME pc'[u] \in {"init", "final"}
        PROVE  /\ u # t /\ pc'[u] = pc[u] /\ held[u] \in Session /\ held[u] # held[t]
               /\ context(u) # None /\ heap'[context(u)] = heap[context(u)]
    <3>1. u # t /\ pc'[u] = pc[u] /\ held[u] \in Session
      BY <1>0, <1>1, <2>3 DEF ThreadType, Verifying
    <3>2. held[u] # held[t]
      <4>1. CASE pc[u] = "init"
        BY <1>1, <2>1, <3>1, <4>1 DEF Maker
      <4>2. CASE pc[u] = "final"
        <5>1. held[t] \notin raced => ~heap[context(t)].ready
          BY <1>1, <1>6 DEF SessionInv, MakeInv
        <5>2. QED  BY <1>6, <2>1, <4>2, <5>1 DEF Covered, Ready, context
      <4>3. QED  BY <2>3, <3>1, <4>1, <4>2
    <3>3. context(u) # None
      BY <2>1, <2>3, <3>1 DEF Covered, Ready
    <3>4. context(u) \in Ctx /\ context(u) # context(t)
      BY <1>1, <1>6, <3>1, <3>2, <3>3, OwnContext DEF context
    <3>5. QED  BY <1>3, <3>1, <3>2, <3>3, <3>4
  <2>4. context(u)' = context(u)
    BY <1>1 DEF context
  <2>5. QED
    BY <1>1, <2>1, <2>2, <2>3, <2>4 DEF Covered, Ready
<1>7. MakeInv'
  <2>1. \A u \in Thread : context(u)' = context(u)
    BY <1>1 DEF context
  <2>2. QED  BY <1>1, <1>6, <2>1 DEF MakeInv
<1>8. QED  BY <1>4, <1>5, <1>7 DEF SessionInv

LEMMA Unsupporteds ==
  ASSUME TypeInv, SessionInv, NEW t \in Thread, Unsupported(t)
  PROVE  SessionInv'
<1>0. ThreadType
  BY TypeParts
<1>1. Alone(t) /\ pc'[t] = "idle" /\ held'[t] = None
  BY <1>0, ReturnsAlone DEF Unsupported
<1>2. CASE context(t) = None
  BY <1>1, <1>2, Leaves DEF Unsupported, Away
<1>3. CASE context(t) # None
  <2>1. dangling' # {} /\ UNCHANGED <<pool, sessions>>
    BY <1>3 DEF Unsupported
  <2>2. OneSession'
    BY <1>1, <2>1 DEF SessionInv, OneSession, Verifying, Alone
  <2>3. NewInv'
    BY <1>0, <1>1, <2>1 DEF SessionInv, NewInv, Alone, ThreadType
  <2>4. CtxInv' /\ MakeInv'
    BY <2>1 DEF CtxInv, MakeInv
  <2>5. QED  BY <2>2, <2>3, <2>4 DEF SessionInv
<1>4. QED  BY <1>2, <1>3

LEMMA RangeAppend ==
  ASSUME NEW over \in Seq(Part), NEW part \in Part
  PROVE  /\ part \in Range(Append(over, part))
         /\ Range(over) \subseteq Range(Append(over, part))
<1> DEFINE longer == Append(over, part)
<1>1. /\ longer \in Seq(Part) /\ Len(longer) = Len(over) + 1
      /\ longer[Len(over) + 1] = part
      /\ \A i \in 1 .. Len(over) : longer[i] = over[i]
  OBVIOUS
<1>2. DOMAIN over = 1 .. Len(over) /\ DOMAIN longer = 1 .. Len(over) + 1 /\ Len(over) \in Nat
  BY <1>1
<1> HIDE DEF longer
<1>3. part \in Range(longer)
  BY <1>1, <1>2 DEF Range
<1>4. Range(over) \subseteq Range(longer)
  BY <1>1, <1>2 DEF Range
<1>5. QED  BY <1>3, <1>4 DEF longer

LEMMA VerifyUpdates ==
  ASSUME TypeInv, SessionInv, NEW t \in Thread, VerifyUpdate(t)
  PROVE  SessionInv'
<1>0. ThreadType /\ SessionType /\ HeapType
  BY TypeParts
<1>1. /\ \A u \in Thread : job'[u] = job[u] /\ held'[u] = held[u] /\ (u # t => pc'[u] = pc[u])
      /\ pc[t] = "update" /\ pc'[t] = "final" /\ held[t] \in Session
      /\ job[t] \in Packet
      /\ UNCHANGED <<pool, sessions, dangling, raced>>
  BY <1>0 DEF VerifyUpdate, Go, ThreadType, Verifying
<1>2. job[t].msg \in Msg
  BY <1>1, PacketAssumption DEF PacketType
<1>3. PICK part \in {Payload(job[t].msg), Noise} :
         heap' = [heap EXCEPT ![context(t)].over = Append(@, part)]
  BY DEF VerifyUpdate
<1>4. part \in Part /\ (part = Payload(job[t].msg) \/ part = Noise)
  BY <1>2, PartTypes
<1>5. /\ context(t) \in Ctx /\ context(t) # None
      /\ heap[context(t)] \in Cell /\ heap[context(t)].ready
  BY <1>0, <1>1, ContextTyped DEF VerifyUpdate, Ready
<1>6. /\ heap'[context(t)].over = Append(heap[context(t)].over, part)
      /\ \A d \in Ctx :
           /\ heap'[d].alloc = heap[d].alloc /\ heap'[d].ready = heap[d].ready
           /\ heap'[d].key = heap[d].key
           /\ d # context(t) => heap'[d] = heap[d]
  BY <1>0, <1>3, <1>5 DEF HeapType, Cell
<1>7. heap[context(t)].over \in Seq(Part)
  BY <1>5 DEF Cell
<1>8. /\ part \in Range(heap'[context(t)].over)
      /\ Range(heap[context(t)].over) \subseteq Range(heap'[context(t)].over)
  BY <1>4, <1>6, <1>7, RangeAppend
<1>9. OneSession' /\ NewInv'
  BY <1>1, Stays DEF VerifyUpdate, SessionInv, Using, Verifying
<1>10. CtxInv'
  <2>1. \A s \in Session : sessions[s].ctx # None => sessions[s].ctx \in Ctx
    BY <1>0 DEF SessionType
  <2>2. QED  BY <1>1, <1>6, <2>1 DEF SessionInv, CtxInv
<1>11. ASSUME dangling = {}, NEW u \in Thread, held[u] \notin raced
      PROVE  /\ Maker(u)' => \A v \in Thread : Maker(v)' /\ held[v] = held[u] => v = u
             /\ pc'[u] = "create" => context(u)' = None
             /\ pc'[u] = "init" => context(u)' # None /\ ~heap'[context(u)'].ready
             /\ pc'[u] = "final" => Covered(u)'
  <2>1. /\ Maker(u) => \A v \in Thread : Maker(v) /\ held[v] = held[u] => v = u
        /\ pc[u] = "create" => context(u) = None
        /\ pc[u] = "init" => context(u) # None /\ ~heap[context(u)].ready
        /\ pc[u] = "final" => Covered(u)
    BY <1>11 DEF SessionInv, MakeInv
  <2>2. \A v \in Thread : Maker(v)' <=> Maker(v)
    BY <1>1 DEF Maker
  <2>3. context(u)' = context(u)
    BY <1>1 DEF context
  <2>4. context(u) # None /\ pc[u] \in {"init", "final"} => context(u) \in Ctx
    BY <1>0, <1>11, ContextTyped DEF ThreadType, Verifying
  <2>5. pc'[u] = "final" => Covered(u)'
    <3>1. CASE u = t
      BY <1>1, <1>4, <1>5, <1>6, <1>8, <2>3, <3>1 DEF Covered, Ready
    <3>2. CASE u # t
      BY <1>1, <1>6, <1>8, <2>1, <2>3, <2>4, <3>2 DEF Covered, Ready
    <3>3. QED  BY <3>1, <3>2
  <2>6. QED
    BY <1>1, <1>6, <2>1, <2>2, <2>3, <2>4, <2>5
<1>12. MakeInv'
  BY <1>1, <1>11 DEF MakeInv
<1>13. QED  BY <1>9, <1>10, <1>12 DEF SessionInv

LEMMA ResultOne ==
  ASSUME NEW ctx, NEW sig, Result(ctx, sig) = 1
  PROVE  sig = [key |-> ctx.key, over |-> ctx.over] /\ Noise \notin Range(ctx.over)
BY DEF Result

LEMMA VerifyFinals ==
  ASSUME TypeInv, SessionInv, AcceptInv, NEW t \in Thread, VerifyFinal(t)
  PROVE  SessionInv' /\ AcceptInv'
<1>0. ThreadType
  BY TypeParts
<1>1. /\ pc[t] = "final" /\ held[t] \in Session /\ Ready(t)
      /\ UNCHANGED <<pool, sessions, heap, dangling, raced>>
      /\ accepted' = [packet |-> job[t], raced |-> held[t] \in raced,
                      key |-> sessions[held[t]].key]
  BY <1>0 DEF VerifyFinal, ThreadType, Verifying, Accept
<1>2. SessionInv'
  BY <1>0, <1>1, ReturnsAlone, Leaves DEF VerifyFinal, Away
<1>3. /\ job[t].sig.key = heap[context(t)].key
      /\ job[t].sig.over = heap[context(t)].over
      /\ Noise \notin Range(heap[context(t)].over)
  BY ResultOne DEF VerifyFinal
<1>4. SignedByPeer'
  <2>1. dangling = {} => heap[context(t)].key = sessions[held[t]].key
    BY <1>1, OwnContext DEF Ready
  <2>2. QED  BY <1>1, <1>3, <2>1 DEF SignedByPeer
<1>5. CoversPayload'
  <2>1. dangling = {} /\ held[t] \notin raced =>
          Payload(job[t].msg) \in Range(heap[context(t)].over)
    BY <1>1, <1>3 DEF SessionInv, MakeInv, Covered
  <2>2. QED  BY <1>1, <1>3, <2>1 DEF CoversPayload
<1>6. QED  BY <1>2, <1>4, <1>5 DEF AcceptInv

-----------------------------------------------------------------------------
(* Every step keeps the invariant.                                          *)

LEMMA SignKeeps ==
  ASSUME Inv, NEW t \in Thread, SignStep(t) PROVE Inv'
<1>0. TypeInv /\ ThreadType /\ SignInv /\ SignsOwnMessage /\ SessionInv /\ AcceptInv
  BY TypeParts DEF Inv, SessionInv, AcceptInv
<1>1. TypeInv' /\ SignInv' /\ SignsOwnMessage'
  BY <1>0, SignTypes, SignSteps
<1>2. UNCHANGED sessionVars
  BY DEF SignStep, Send, SignInit, SignUpdate, SignFinal, SignFinalFails, SignDies, Die
<1>3. SessionInv'
  <2>1. ASSUME NEW m \in Msg, Send(t, m) PROVE Alone(t) /\ pc'[t] \in Away
    BY <1>0, <2>1 DEF Send, Go, ThreadType, JobInv, Alone, Away, Signing
  <2>2. SignInit(t) \/ SignUpdate(t) => Alone(t) /\ pc'[t] \in Away
    BY <1>0, GoesAlone DEF SignInit, SignUpdate, Away, Signing
  <2>3. SignFinal(t) \/ SignFinalFails(t) => Alone(t) /\ pc'[t] \in Away
    BY <1>0, ReturnsAlone DEF SignFinal, SignFinalFails, Away
  <2>4. CASE SignDies(t)
    <3>1. UNCHANGED <<pc, job, held, pool, sessions, heap, dangling, raced>>
      BY <2>4 DEF SignDies, Die, sessionVars
    <3>2. QED
      BY <1>0, <3>1 DEF SessionInv, OneSession, NewInv, CtxInv, MakeInv, Maker, Covered, Ready, context
  <2>5. CASE Alone(t) /\ pc'[t] \in Away
    BY <1>0, <1>2, <2>5, Leaves DEF sessionVars
  <2>6. QED  BY <2>1, <2>2, <2>3, <2>4, <2>5 DEF SignStep
<1>4. AcceptInv'
  BY <1>0, <1>2, Accepted DEF sessionVars
<1>5. QED  BY <1>1, <1>3, <1>4 DEF Inv, SessionInv, AcceptInv

LEMMA PoolKeeps ==
  ASSUME Inv, NEW t \in Thread, PoolStep(t) PROVE Inv'
<1>0. TypeInv /\ ThreadType /\ SignInv /\ SignsOwnMessage /\ SessionInv /\ AcceptInv /\ NewInv
  BY TypeParts DEF Inv, SessionInv, AcceptInv
<1>1. TypeInv'
  BY <1>0, PoolTypes
<1>2. SessionInv'
  BY <1>0, NewSessions, AddInstances DEF PoolStep
<1>3. AcceptInv'
  BY <1>0, Accepted DEF PoolStep, NewSession, AddInstance
<1>4. SignInv' /\ SignsOwnMessage'
  <2>1. ASSUME NEW p \in Peer, NEW key \in Key, NewSession(t, p, key)
        PROVE  /\ pc[t] \notin Signing /\ pc'[t] \notin Signing /\ UNCHANGED signVars
               /\ \A u \in Thread \ {t} : pc'[u] = pc[u] /\ job'[u] = job[u]
    BY <1>0, <2>1 DEF NewSession, Go, ThreadType, JobInv, Signing
  <2>2. ASSUME AddInstance(t)
        PROVE  /\ pc[t] \notin Signing /\ pc'[t] \notin Signing /\ UNCHANGED signVars
               /\ \A u \in Thread \ {t} : pc'[u] = pc[u] /\ job'[u] = job[u]
    BY <1>0, <2>2, ReturnsAlone DEF AddInstance, Signing, Alone
  <2>3. QED  BY <1>0, <2>1, <2>2, NotSigning DEF PoolStep
<1>5. QED  BY <1>1, <1>2, <1>3, <1>4 DEF Inv, SessionInv, AcceptInv

LEMMA VerifyKeeps ==
  ASSUME Inv, NEW t \in Thread, VerifyStep(t) PROVE Inv'
<1>0. TypeInv /\ ThreadType /\ SignInv /\ SignsOwnMessage /\ SessionInv /\ AcceptInv
  BY TypeParts DEF Inv, SessionInv, AcceptInv
<1>1. TypeInv'
  BY <1>0, VerifyTypes
<1>2. UNCHANGED signVars
  BY DEF VerifyStep, Receive, Check, Create, CreateFails, VerifyInit, VerifyInitFails,
         Unsupported, VerifyUpdate, VerifyUpdateFails, VerifyFinal, VerifyFinalFails, VerifyDies, Die
<1>3. SignInv' /\ SignsOwnMessage'
  <2>1. ASSUME NEW packet \in Packet, Receive(t, packet)
        PROVE  /\ pc[t] \notin Signing /\ pc'[t] \notin Signing
               /\ \A u \in Thread \ {t} : pc'[u] = pc[u] /\ job'[u] = job[u]
    BY <1>0, <2>1 DEF Receive, Go, ThreadType, JobInv, Signing
  <2>2. ASSUME Check(t) \/ Create(t) \/ VerifyInit(t) \/ VerifyUpdate(t)
        PROVE  /\ pc[t] \notin Signing /\ pc'[t] \notin Signing
               /\ \A u \in Thread \ {t} : pc'[u] = pc[u] /\ job'[u] = job[u]
    BY <1>0, <2>2 DEF Check, Create, VerifyInit, VerifyUpdate, Go, ThreadType, Signing
  <2>3. ASSUME CreateFails(t) \/ VerifyInitFails(t) \/ Unsupported(t)
               \/ VerifyUpdateFails(t) \/ VerifyFinal(t) \/ VerifyFinalFails(t)
        PROVE  /\ pc[t] \notin Signing /\ pc'[t] \notin Signing
               /\ \A u \in Thread \ {t} : pc'[u] = pc[u] /\ job'[u] = job[u]
    <3>1. Return(t) /\ pc[t] \in {"create", "init", "update", "final"}
      BY <2>3 DEF CreateFails, VerifyInitFails, Unsupported, VerifyUpdateFails, VerifyFinal, VerifyFinalFails
    <3>2. QED  BY <1>0, <3>1, ReturnsAlone DEF Signing, Alone
  <2>4. CASE VerifyDies(t)
    <3>1. UNCHANGED <<pc, job, md, alone, sent>>
      BY <2>4 DEF VerifyDies, Die, signVars
    <3>2. QED  BY <1>0, <3>1 DEF SignInv, SignsOwnMessage, Others
  <2>5. QED  BY <1>0, <1>2, <2>1, <2>2, <2>3, <2>4, NotSigning DEF VerifyStep
<1>4. SessionInv'
  <2>1. ASSUME NEW packet \in Packet, Receive(t, packet) PROVE SessionInv'
    BY <1>0, <2>1, Receives
  <2>2. CASE Check(t) \/ Create(t) \/ CreateFails(t)
    BY <1>0, <2>2, Checks, Creates, CreateFailures
  <2>3. CASE VerifyInit(t) \/ Unsupported(t) \/ VerifyUpdate(t) \/ VerifyFinal(t)
    BY <1>0, <2>3, VerifyInits, Unsupporteds, VerifyUpdates, VerifyFinals
  <2>4. CASE VerifyInitFails(t) \/ VerifyUpdateFails(t) \/ VerifyFinalFails(t)
    <3>1. Return(t) /\ UNCHANGED <<pool, sessions, heap, dangling, raced>>
      BY <2>4 DEF VerifyInitFails, VerifyUpdateFails, VerifyFinalFails, sessionVars
    <3>2. QED  BY <1>0, <3>1, ReturnsAlone, Leaves DEF Away
  <2>5. CASE VerifyDies(t)
    <3>1. UNCHANGED <<pc, job, held, pool, sessions, heap, dangling, raced>>
      BY <2>5 DEF VerifyDies, Die, sessionVars
    <3>2. QED
      BY <1>0, <3>1 DEF SessionInv, OneSession, NewInv, CtxInv, MakeInv, Maker, Covered, Ready, context
  <2>6. QED  BY <2>1, <2>2, <2>3, <2>4, <2>5 DEF VerifyStep
<1>5. AcceptInv'
  <2>1. CASE VerifyFinal(t)
    BY <1>0, <2>1, VerifyFinals
  <2>2. CASE ~VerifyFinal(t)
    <3>1. UNCHANGED accepted /\ dangling \subseteq dangling'
      BY <2>2 DEF VerifyStep, Receive, Check, Create, CreateFails, VerifyInit, VerifyInitFails,
         Unsupported, VerifyUpdate, VerifyUpdateFails, VerifyFinalFails, VerifyDies, Die, sessionVars
    <3>2. QED  BY <1>0, <3>1, Accepted
  <2>3. QED  BY <2>1, <2>2
<1>6. QED  BY <1>1, <1>3, <1>4, <1>5 DEF Inv, SessionInv, AcceptInv

LEMMA NoneReceived == 0 \in 0 .. MaxPackets
BY PacketsAssumption

LEMMA InitInv == Init => Inv
<1> SUFFICES ASSUME Init PROVE Inv
  OBVIOUS
<1> USE DEF Init
<1>1. ThreadType
  BY DEF ThreadType, JobInv, Signing, Verifying
<1>2. SignType
  <2>1. md \in Seq(Part)
    OBVIOUS
  <2>2. QED  BY <2>1 DEF SignType
<1>3. SessionType
  <2>1. NoSession \in [key : Key \cup {None}, ctx : Ctx \cup {None}]
    BY DEF NoSession
  <2>2. QED  BY <2>1 DEF SessionType
<1>4. HistoryType
  <2>1. received \in 0 .. MaxPackets /\ died \in BOOLEAN
    BY NoneReceived, Zenon
  <2>2. dangling \subseteq Session /\ raced \subseteq Session /\ accepted \in Record \cup {None}
    OBVIOUS
  <2>3. QED  BY <2>1, <2>2 DEF HistoryType
<1>5. HeapType
  BY BlankTyped DEF HeapType
<1>6. SignInv /\ SignsOwnMessage
  BY DEF SignInv, SignsOwnMessage, Signing
<1>7. OneSession /\ NewInv
  BY DEF OneSession, NewInv, Verifying
<1>8. CtxInv /\ MakeInv
  BY DEF CtxInv, MakeInv, Maker, NoSession
<1>9. SignedByPeer /\ CoversPayload
  BY DEF SignedByPeer, CoversPayload
<1>10. QED
  BY <1>1, <1>2, <1>3, <1>4, <1>5, <1>6, <1>7, <1>8, <1>9, TypeParts DEF Inv

LEMMA NextInv == Inv /\ [Next]_vars => Inv'
<1> SUFFICES ASSUME Inv, [Next]_vars PROVE Inv'
  OBVIOUS
<1>1. CASE Next
  BY <1>1, SignKeeps, PoolKeeps, VerifyKeeps DEF Next
<1>2. CASE UNCHANGED vars
  <2>1. UNCHANGED <<pc, job, held, md, alone, sent, pool, sessions, heap, dangling, raced,
                    accepted, received, died>>
    BY <1>2 DEF vars, signVars, sessionVars
  <2>2. TypeInv' /\ SignInv' /\ SignsOwnMessage'
    BY <2>1 DEF Inv, TypeInv, TypeOK, JobInv, SignInv, SignsOwnMessage, Others
  <2>3. OneSession' /\ NewInv' /\ CtxInv' /\ MakeInv'
    BY <2>1 DEF Inv, OneSession, NewInv, CtxInv, MakeInv, Maker, Covered, Ready, context
  <2>4. SignedByPeer' /\ CoversPayload'
    BY <2>1 DEF Inv, SignedByPeer, CoversPayload
  <2>5. QED  BY <2>2, <2>3, <2>4 DEF Inv
<1>3. QED  BY <1>1, <1>2

LEMMA SessionsInv == Spec => []Inv
BY InitInv, NextInv, PTL DEF Spec

\* The state of send_pkg, verify and the pool always has its type: nothing that
\* is pooled or held is a session that was destroyed.
THEOREM SessionsTyped == Spec => []TypeOK
<1>1. Inv => TypeOK
  BY DEF Inv, TypeInv
<1>2. QED  BY SessionsInv, <1>1, PTL

\* A send_pkg that ran alone signed its own message, whatever earlier ones,
\* overlapping or not, left in the shared context.
THEOREM SoleSenderSignsOwn == Spec => []SignsOwnMessage
<1>1. Inv => SignsOwnMessage
  BY DEF Inv
<1>2. QED  BY SessionsInv, <1>1, PTL

\* add_instance never gives a peer a second session while the first is in use.
THEOREM PeerHasOneSession == Spec => []OneSession
<1>1. Inv => OneSession
  BY DEF Inv
<1>2. QED  BY SessionsInv, <1>1, PTL

\* Until verify frees a context, it accepts only what its session's key signed.
THEOREM AcceptedIsSigned == Spec => []SignedByPeer
<1>1. Inv => SignedByPeer
  BY DEF Inv
<1>2. QED  BY SessionsInv, <1>1, PTL

\* And while a session's context was made once, the signature that verify
\* accepts is over the payload it was given.
THEOREM AcceptedIsCovered == Spec => []CoversPayload
<1>1. Inv => CoversPayload
  BY DEF Inv
<1>2. QED  BY SessionsInv, <1>1, PTL
=============================================================================
