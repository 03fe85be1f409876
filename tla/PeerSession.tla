----------------------------- MODULE PeerSession -----------------------------
(****************************************************************************)
(* Signatures: send_pkg (daemon/p2p_server_context.cc), which signs what a  *)
(* node sends, and P2PServerContext::PeerSession (daemon/peer_session.cc),  *)
(* which verifies what it receives, with the InstancePool that holds the    *)
(* sessions (daemon/utils/data_struct/instance_pool.h).                     *)
(*                                                                          *)
(* The threads are the workers and the thread that greets.  All sign with   *)
(* one digest context, and all who verify packets of a peer share that of   *)
(* its session; nothing locks either.  A step is one call of OpenSSL.  Of   *)
(* two calls on one context at the same time either may spoil the digest or *)
(* end the process.                                                         *)
(*                                                                          *)
(* A digest is the sequence of what was put in since it was initialised,    *)
(* and a signature such a sequence under a key.  EVP_DigestVerifyFinal and  *)
(* EVP_DigestSignFinal finish a copy: the digest itself goes on.            *)
(****************************************************************************)
EXTENDS Naturals, Sequences, FiniteSets, Functions

CONSTANTS Thread,     \* the threads of a node
          Peer,       \* device ids of the senders
          Key,        \* key pairs
          Self,       \* the node's own one
          Msg,        \* messages
          Session,    \* where a PeerSession can be
          Ctx,        \* where the heap has room for an EVP_MD_CTX
          Packet,     \* the packets that are received
          MaxPackets, \* bound: the packets received
          None        \* no value, a null pointer

\* send_pkg signs a message as a whole, verify is given its payload; noise is
\* what is left when two threads write at once.
Part == ({"whole", "payload"} \X Msg) \cup {<<"noise", None>>}
Noise == <<"noise", None>>
Whole(m) == <<"whole", m>>
Payload(m) == <<"payload", m>>

Signature == [key : Key, over : Seq(Part)]

\* A signature that OpenSSL cannot even decode.
Malformed == [key |-> None, over |-> << >>]

\* proto3 enumerations are open: SHA_256 is the one with a name.
Algorithm == {"SHA_256", "unknown"}

PacketType == [sender : Peer, msg : Msg, sig : Signature \cup {Malformed},
               algorithm : Algorithm]

ASSUME SelfAssumption == Self \in Key
ASSUME NoneAssumption ==
  None \notin Key \cup Msg \cup Session \cup Ctx \cup Packet
ASSUME PacketAssumption == Packet \subseteq PacketType
ASSUME PacketsAssumption == MaxPackets \in Nat

VARIABLES pc,        \* where each thread is
          job,       \* the message or packet it is about
          held,      \* the shared_ptr to a session it holds
          md,        \* P2PServerContext::_evp_md_ctx
          alone,     \* history: no other send_pkg ran during a thread's own
          sent,      \* history: the packet handed to the pool last
          pool,      \* _peer_pool
          sessions,  \* the PeerSessions: _public_key and _evp_md_ctx
          heap,      \* the EVP_MD_CTXs of the sessions
          dangling,  \* history: sessions whose context was freed under them
          raced,     \* history: sessions two threads made a context for
          accepted,  \* history: the packet verified last
          received,  \* the number of packets received
          died       \* the process has crashed

signVars == <<md, alone, sent>>
sessionVars == <<pool, sessions, heap, dangling, raced, accepted>>
vars == <<pc, job, held, signVars, sessionVars, received, died>>

\* A place that holds no session has no key.
NoSession == [key |-> None, ctx |-> None]

\* Memory that is not allocated, or as EVP_MD_CTX_new returns it.
Blank(alloc) == [alloc |-> alloc, ready |-> FALSE, key |-> None, over |-> << >>]

Init ==
  /\ pc = [t \in Thread |-> "idle"]
  /\ job = [t \in Thread |-> None]
  /\ held = [t \in Thread |-> None]
  /\ md = << >>
  /\ alone = [t \in Thread |-> TRUE]
  /\ sent = None
  /\ pool = [p \in Peer |-> None]
  /\ sessions = [s \in Session |-> NoSession]
  /\ heap = [c \in Ctx |-> Blank(FALSE)]
  /\ dangling = {} /\ raced = {}
  /\ accepted = None
  /\ received = 0
  /\ died = FALSE

Die == died' = TRUE /\ UNCHANGED <<pc, job, held, signVars, sessionVars, received>>

Go(t, there) == pc' = [pc EXCEPT ![t] = there]

Return(t) ==
  /\ Go(t, "idle")
  /\ job' = [job EXCEPT ![t] = None]
  /\ held' = [held EXCEPT ![t] = None]

-----------------------------------------------------------------------------
(* send_pkg.                                                                *)

Signing == {"signInit", "signUpdate", "signFinal"}
Others(t) == {u \in Thread \ {t} : pc[u] \in Signing}

\* A message to send: the answer of the hello handler, or a turn of start().
Send(t, m) ==
  /\ pc[t] = "idle"
  /\ Go(t, "signInit")
  /\ job' = [job EXCEPT ![t] = m]
  /\ alone' = [u \in Thread |->
                 IF u = t THEN Others(t) = {} ELSE alone[u] /\ u \notin Others(t)]
  /\ UNCHANGED <<held, md, sent, sessionVars, received, died>>

\* What a call makes of the digest, which others may be in the middle of using.
Digests(t, digest) == {digest} \cup IF Others(t) = {} THEN {} ELSE {<<Noise>>}

\* Mutant: the context is initialised once, not for every message.
SignInitOnce(t) ==
  /\ pc[t] = "signInit"
  /\ md' \in Digests(t, md)
  /\ Go(t, "signUpdate")
  /\ UNCHANGED <<job, held, alone, sent, sessionVars, received, died>>

SignInit(t) ==
  /\ pc[t] = "signInit"
  /\ md' \in Digests(t, << >>)
  /\ Go(t, "signUpdate")
  /\ UNCHANGED <<job, held, alone, sent, sessionVars, received, died>>

SignUpdate(t) ==
  /\ pc[t] = "signUpdate"
  /\ md' \in Digests(t, Append(md, Whole(job[t])))
  /\ Go(t, "signFinal")
  /\ UNCHANGED <<job, held, alone, sent, sessionVars, received, died>>

\* The first EVP_DigestSignFinal only asks for the length.  The packet that
\* goes to the thread pool is signed with what the digest holds by now.
SignFinal(t) ==
  /\ pc[t] = "signFinal"
  /\ \E over \in Digests(t, md) :
       sent' = [msg |-> job[t], alone |-> alone[t],
                sig |-> [key |-> Self, over |-> over]]
  /\ Return(t)
  /\ UNCHANGED <<md, alone, sessionVars, received, died>>

\* The future says false; nobody asks it.
SignFinalFails(t) ==
  /\ pc[t] = "signFinal"
  /\ Return(t)
  /\ UNCHANGED <<signVars, sessionVars, received, died>>

\* LOG(FATAL), or a crash in a context that others use.
SignDies(t) ==
  /\ \/ pc[t] \in {"signInit", "signUpdate"}
     \/ pc[t] = "signFinal" /\ Others(t) # {}
  /\ Die

-----------------------------------------------------------------------------
(* new_session and the pool.                                                *)

\* The hello handler finds no session for the sender and makes one from a
\* certificate that parses and verifies, and that is for this key.  (With one
\* of another kind, or with a session, it has nothing to do here.)
NewSession(t, p, key) ==
  /\ pc[t] = "idle"
  /\ pool[p] = None
  /\ \E s \in Session :
       /\ sessions[s] = NoSession
       /\ sessions' = [sessions EXCEPT ![s].key = key]
       /\ held' = [held EXCEPT ![t] = s]
  /\ job' = [job EXCEPT ![t] = p]
  /\ Go(t, "add")
  /\ UNCHANGED <<signVars, pool, heap, dangling, raced, accepted, received, died>>

\* ~PeerSession; a session that was never pooled has no context yet.
Destroy(s) == sessions' = [sessions EXCEPT ![s] = NoSession]

\* Mutant: add_instance replaces the session that is there.
AddInstanceReplaces(t) ==
  /\ pc[t] = "add"
  /\ pool' = [pool EXCEPT ![job[t]] = held[t]]
  /\ Return(t)
  /\ UNCHANGED <<signVars, sessions, heap, dangling, raced, accepted, received, died>>

\* Mutant: when there is a session, it is the one that gets destroyed.
AddInstanceDestroys(t) ==
  /\ pc[t] = "add"
  /\ IF pool[job[t]] = None
     THEN pool' = [pool EXCEPT ![job[t]] = held[t]] /\ UNCHANGED sessions
     ELSE Destroy(pool[job[t]]) /\ UNCHANGED pool
  /\ Return(t)
  /\ UNCHANGED <<signVars, heap, dangling, raced, accepted, received, died>>

\* InstancePool::add_instance: another thread may have been first, and then
\* the new session goes with the last pointer to it.
AddInstance(t) ==
  /\ pc[t] = "add"
  /\ IF pool[job[t]] = None
     THEN pool' = [pool EXCEPT ![job[t]] = held[t]] /\ UNCHANGED sessions
     ELSE Destroy(held[t]) /\ UNCHANGED pool
  /\ Return(t)
  /\ UNCHANGED <<signVars, heap, dangling, raced, accepted, received, died>>

-----------------------------------------------------------------------------
(* verify.                                                                  *)

context(t) == sessions[held[t]].ctx

Verifying == {"init", "update", "final"}
Sharers(t) == {u \in Thread \ {t} : pc[u] \in Verifying /\ context(u) = context(t)}

\* PacketHandler::handle finds the sender's session; without one the packet
\* is ignored.
Receive(t, packet) ==
  /\ pc[t] = "idle" /\ received < MaxPackets
  /\ received' = received + 1
  /\ pool[packet.sender] # None
  /\ job' = [job EXCEPT ![t] = packet]
  /\ held' = [held EXCEPT ![t] = pool[packet.sender]]
  /\ Go(t, "check")
  /\ UNCHANGED <<signVars, sessionVars, died>>

\* The first to come makes the context; others may come before it is there.
Check(t) ==
  /\ pc[t] = "check"
  /\ LET makers == {u \in Thread : pc[u] \in {"create", "init"} /\ held[u] = held[t]}
     IN  raced' = IF context(t) = None /\ makers # {} THEN raced \cup {held[t]} ELSE raced
  /\ Go(t, IF context(t) = None THEN "create" ELSE "update")
  /\ UNCHANGED <<job, held, signVars, pool, sessions, heap, dangling, accepted, received, died>>

\* EVP_MD_CTX_new: the pointer is stored before the context is initialised.
Create(t) ==
  /\ pc[t] = "create"
  /\ \E c \in Ctx :
       /\ ~heap[c].alloc
       /\ heap' = [heap EXCEPT ![c] = Blank(TRUE)]
       /\ sessions' = [sessions EXCEPT ![held[t]].ctx = c]
  /\ Go(t, "init")
  /\ UNCHANGED <<job, held, signVars, pool, dangling, raced, accepted, received, died>>

\* It returns null, which is stored as well.
CreateFails(t) ==
  /\ pc[t] = "create"
  /\ sessions' = [sessions EXCEPT ![held[t]].ctx = None]
  /\ Return(t)
  /\ UNCHANGED <<signVars, pool, heap, dangling, raced, accepted, received, died>>

VerifyInit(t) ==
  /\ pc[t] = "init" /\ job[t].algorithm = "SHA_256"
  /\ context(t) # None
  /\ heap' = [heap EXCEPT ![context(t)] =
                [alloc |-> @.alloc, ready |-> TRUE, key |-> sessions[held[t]].key,
                 over |-> << >>]]
  /\ Go(t, "update")
  /\ UNCHANGED <<job, held, signVars, pool, sessions, dangling, raced, accepted, received, died>>

\* Mutant: the error path frees the context, as the other one does.
VerifyInitFailsFrees(t) ==
  /\ pc[t] = "init" /\ job[t].algorithm = "SHA_256"
  /\ context(t) # None
  /\ heap' = [heap EXCEPT ![context(t)] = Blank(FALSE)]
  /\ Return(t)
  /\ UNCHANGED <<signVars, pool, sessions, dangling, raced, accepted, received, died>>

VerifyInitFails(t) ==
  /\ pc[t] = "init" /\ job[t].algorithm = "SHA_256"
  /\ Return(t)
  /\ UNCHANGED <<signVars, sessionVars, received, died>>

\* An unsupported algorithm: the context is freed, and the pointer kept.
Unsupported(t) ==
  /\ pc[t] = "init" /\ job[t].algorithm # "SHA_256"
  /\ IF context(t) = None
     THEN UNCHANGED <<heap, dangling>>
     ELSE /\ heap[context(t)].alloc
          /\ heap' = [heap EXCEPT ![context(t)] = Blank(FALSE)]
          /\ dangling' = dangling \cup {held[t]}
  /\ Return(t)
  /\ UNCHANGED <<signVars, pool, sessions, raced, accepted, received, died>>

Ready(t) == context(t) # None /\ heap[context(t)].ready

VerifyUpdate(t) ==
  /\ pc[t] = "update" /\ Ready(t)
  /\ \E part \in {Payload(job[t].msg)} \cup IF Sharers(t) = {} THEN {} ELSE {Noise} :
       heap' = [heap EXCEPT ![context(t)].over = Append(@, part)]
  /\ Go(t, "final")
  /\ UNCHANGED <<job, held, signVars, pool, sessions, dangling, raced, accepted, received, died>>

\* It fails, as it does on a context that is not initialised.
VerifyUpdateFails(t) ==
  /\ pc[t] = "update" /\ context(t) # None
  /\ Return(t)
  /\ UNCHANGED <<signVars, sessionVars, received, died>>

\* EVP_DigestVerifyFinal: 1, 0, or a negative number for a serious error.
Result(ctx, sig) ==
  CASE sig = Malformed -> -1
    [] /\ sig = [key |-> ctx.key, over |-> ctx.over]
       /\ Noise \notin Range(ctx.over) -> 1
    [] OTHER -> 0

Accept(t) ==
  accepted' = [packet |-> job[t], raced |-> held[t] \in raced,
               key |-> sessions[held[t]].key]

\* Mutant: whatever is not zero counts as success.
VerifyFinalNotZero(t) ==
  /\ pc[t] = "final" /\ Ready(t)
  /\ Result(heap[context(t)], job[t].sig) # 0
  /\ Accept(t)
  /\ Return(t)
  /\ UNCHANGED <<signVars, pool, sessions, heap, dangling, raced, received, died>>

\* verify returns true.
VerifyFinal(t) ==
  /\ pc[t] = "final" /\ Ready(t)
  /\ Result(heap[context(t)], job[t].sig) = 1
  /\ Accept(t)
  /\ Return(t)
  /\ UNCHANGED <<signVars, pool, sessions, heap, dangling, raced, received, died>>

\* verify returns false: a wrong signature, or a digest others have changed.
VerifyFinalFails(t) ==
  /\ pc[t] = "final" /\ context(t) # None
  /\ \/ ~Ready(t)
     \/ Result(heap[context(t)], job[t].sig) # 1
     \/ Sharers(t) # {}
  /\ Return(t)
  /\ UNCHANGED <<signVars, sessionVars, received, died>>

\* A crash: a null pointer, a context that is freed or not initialised or that
\* is freed twice, or two threads in one context.
VerifyDies(t) ==
  /\ pc[t] \in Verifying
  /\ \/ context(t) = None /\ (pc[t] = "init" => job[t].algorithm = "SHA_256")
     \/ context(t) # None /\ ~heap[context(t)].alloc
     \/ pc[t] # "init" /\ ~Ready(t)
     \/ Sharers(t) # {}
  /\ Die

-----------------------------------------------------------------------------
SignStep(t) ==
  \/ \E m \in Msg : Send(t, m)
  \/ SignInit(t) \/ SignUpdate(t) \/ SignFinal(t) \/ SignFinalFails(t) \/ SignDies(t)

PoolStep(t) == AddInstance(t) \/ \E p \in Peer, key \in Key : NewSession(t, p, key)

VerifyStep(t) ==
  \/ \E packet \in Packet : Receive(t, packet)
  \/ Check(t) \/ Create(t) \/ CreateFails(t)
  \/ VerifyInit(t) \/ VerifyInitFails(t) \/ Unsupported(t)
  \/ VerifyUpdate(t) \/ VerifyUpdateFails(t)
  \/ VerifyFinal(t) \/ VerifyFinalFails(t) \/ VerifyDies(t)

Next == ~died /\ \E t \in Thread : SignStep(t) \/ PoolStep(t) \/ VerifyStep(t)

Spec == Init /\ [][Next]_vars

-----------------------------------------------------------------------------
(* What holds.                                                              *)

Record == [packet : Packet, raced : BOOLEAN, key : Key]
Sent == [msg : Msg, alone : BOOLEAN, sig : [key : {Self}, over : Seq(Part)]]

\* Types.  What the pool or a thread points to is a session that is there.
TypeOK ==
  /\ pc \in [Thread -> {"idle", "add", "check", "create"} \cup Signing \cup Verifying]
  /\ held \in [Thread -> Session \cup {None}]
  /\ \A t \in Thread :
       /\ pc[t] \in Signing => job[t] \in Msg
       /\ pc[t] = "add" => job[t] \in Peer /\ held[t] # None
       /\ pc[t] \in {"check", "create"} \cup Verifying =>
            job[t] \in Packet /\ held[t] # None
       /\ held[t] # None => sessions[held[t]].key # None
  /\ md \in Seq(Part)
  /\ alone \in [Thread -> BOOLEAN]
  /\ sent \in Sent \cup {None}
  /\ pool \in [Peer -> Session \cup {None}]
  /\ \A p \in Peer : pool[p] # None => sessions[pool[p]].key # None
  /\ sessions \in [Session -> [key : Key \cup {None}, ctx : Ctx \cup {None}]]
  /\ heap \in [Ctx -> [alloc : BOOLEAN, ready : BOOLEAN, key : Key \cup {None},
                       over : Seq(Part)]]
  /\ dangling \subseteq Session /\ raced \subseteq Session
  /\ accepted \in Record \cup {None}
  /\ received \in 0 .. MaxPackets
  /\ died \in BOOLEAN

\* A packet carries a signature over the very message it carries, unless
\* another send_pkg ran at the same time (p2p_server_context.cc:316-331): an
\* overlap in the past, however it left the shared context, does no harm.
SignsOwnMessage ==
  sent # None /\ sent.alone => sent.sig.over = <<Whole(sent.msg)>>

\* All threads that verify packets of a peer use the session in the pool, also
\* when several hellos of that peer were handled at once
\* (hello_message.tcc:32-52, instance_pool.h:36).
OneSession ==
  \A t \in Thread :
    pc[t] \in {"check", "create"} \cup Verifying => held[t] = pool[job[t].sender]

\* As long as no context was freed under a session (peer_session.cc:143), a
\* packet is accepted only when it was signed with the key its sender's session
\* was made with, however the threads interleave in the contexts.
SignedByPeer ==
  accepted # None /\ dangling = {} =>
    accepted.packet.sig.key = accepted.key

\* And the signature covers the payload that was accepted, unless two threads
\* made a context for that session (peer_session.cc:129).
CoversPayload ==
  accepted # None /\ dangling = {} /\ ~accepted.raced =>
    Payload(accepted.packet.msg) \in Range(accepted.packet.sig.over)
=============================================================================
