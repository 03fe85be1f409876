---------------------------- MODULE DeviceStartup ----------------------------
(* How the daemon gets from main() to a serving P2P server, and what is left *)
(* on disk when it dies on the way: the YAML configuration (main.cc,         *)
(* utils/config_reader.cc), the management console (manage_interface.cc),    *)
(* the registration of the device (management_api/management_context.cc),    *)
(* its activation and its certificate (management_api/device_context.cc) and *)
(* P2PServerContext::init and start (p2p_server_context.cc).                 *)
(*                                                                           *)
(* The main thread and the console connections are actors of one process;    *)
(* any of them may bring the process down, which loses everything but the    *)
(* three files.  A file is written through an ofstream: it is created empty  *)
(* when the stream opens and has its content when the stream is closed, so a *)
(* process that dies in between leaves a torn file.                          *)
EXTENDS Base64, FiniteSets

CONSTANTS
  Main,        \* the main thread
  Console,     \* the console connections, each a thread of its own
  Id,          \* the device ids the management server can give out
  Document,    \* the files that d2i_PKCS12_fp accepts, as sequences of bytes
  Garbled,     \* what the server can send in the place of an encoded document
  MaxRetries,  \* MAX_DOWNLOAD_RETIRES
  MaxLives,    \* bound: how often the daemon is started
  Absent,      \* a file that does not exist
  Torn,        \* the registration file does not parse
  None         \* a null pointer

ASSUME ActorsAssumption == Main \notin Console
ASSUME RetriesAssumption == MaxRetries \in Nat \ {0}
ASSUME LivesAssumption == MaxLives \in Nat
ASSUME MarksAssumption == /\ Absent \notin Id /\ Torn \notin Id /\ None \notin Id
                          /\ Absent # Torn /\ Absent # None /\ Torn # None
ASSUME DocumentAssumption == /\ Document \subseteq Seq(Byte)
                             /\ << >> \notin Document /\ Absent \notin Document

Actor == Console \union {Main}

VARIABLES
  yaml,      \* the file of FLAGS_config: "absent", "torn" or "whole"
  conf,      \* the registration, saved at _server_certifiacte_path
  cert,      \* the bytes of the PKCS12 file, or Absent
  issued,    \* management server: the ids it has registered
  enabled,   \* management server: the ids its operator has enabled
  pc,        \* where each actor is; "idle": no process (Main), no command
  got,       \* an actor's DeviceConfiguration, then its device context
  ctx,       \* ManagementContext::_device_ctx_instance
  streams,   \* the actors with an open stream on the current registration file
  sent,      \* the certificate of the last download, in Base64; empty: none yet
  interface, \* the console's thread: "none", "spawned" or "listening"
  retries,   \* the loop counter of client_certificate
  lives,     \* how often the daemon was started
  died       \* why the process is down; "alive" while it is up

disk == <<yaml, conf, cert>>
server == <<issued, enabled>>
memory == <<got, ctx, streams, sent>>
control == <<interface, retries, lives, died>>
vars == <<disk, server, pc, memory, control>>

File == {"absent", "torn", "whole"}

(* What the member of the server's answer can be, and the certificate file.  *)
Text == {Encoded(d) : d \in Document} \union Garbled
Content == {decode(t) : t \in Text} \union {Absent, << >>}

InDevCtx == {"dev_ctx", "register", "save", "open", "write", "construct"}
Provisioning == {"certificate", "download", "store"}
Loaded == {"load", "start", "serving"}
Label == {"idle", "config", "write_config", "api", "assign", "poll", "sleep",
          "listen", "info"} \union InDevCtx \union Provisioning \union Loaded

Cause == {"alive", "fatal", "bad config", "null interface", "null conf",
          "bad conf", "null response", "null info", "null server",
          "no certificate", "unverified", "null peers", "bad answer", "killed"}

Init ==
  /\ yaml \in {"absent", "whole"}
  /\ conf = Absent /\ cert = Absent
  /\ issued = {} /\ enabled = {}
  /\ pc = [a \in Actor |-> "idle"]
  /\ got = [a \in Actor |-> None]
  /\ ctx = None /\ streams = {} /\ sent = << >>
  /\ interface = "none" /\ retries = 0 /\ lives = 0 /\ died = "killed"

Up == pc[Main] # "idle"

Goto(a, label) == pc' = [pc EXCEPT ![a] = label]

(* The process is gone: every thread, and all memory. *)
Die(cause) ==
  /\ pc' = [a \in Actor |-> "idle"]
  /\ got' = [a \in Actor |-> None]
  /\ ctx' = None /\ streams' = {} /\ sent' = << >>
  /\ interface' = "none" /\ retries' = 0 /\ died' = cause
  /\ UNCHANGED lives

------------------------------------------------------------------------------
(* The environment: the daemon is started and killed, the operator of the    *)
(* management server enables a device.                                       *)

Boot ==
  /\ ~Up /\ lives < MaxLives
  /\ Goto(Main, "config")
  /\ lives' = lives + 1 /\ died' = "alive"
  /\ UNCHANGED <<disk, server, memory, interface, retries>>

Killed == Up /\ Die("killed") /\ UNCHANGED <<disk, server>>

Enable(d) ==
  /\ d \in issued \ enabled
  /\ enabled' = enabled \union {d}
  /\ UNCHANGED <<disk, issued, pc, memory, control>>

------------------------------------------------------------------------------
(* main(): the configuration, the thread pool and the console.               *)

LoadConfig ==
  /\ pc[Main] = "config" /\ yaml = "whole"
  /\ Goto(Main, "api")
  /\ UNCHANGED <<disk, server, memory, control>>

(* LoadFile accepts an empty file; the conversions that follow throw outside *)
(* of the try block.                                                         *)
LoadTornConfig ==
  /\ pc[Main] = "config" /\ yaml = "torn"
  /\ Die("bad config")
  /\ UNCHANGED <<disk, server>>

CreateConfig ==
  /\ pc[Main] = "config" /\ yaml = "absent"
  /\ yaml' = "torn"
  /\ Goto(Main, "write_config")
  /\ UNCHANGED <<conf, cert, server, memory, control>>

WriteConfig ==
  /\ pc[Main] = "write_config"
  /\ yaml' = "whole"
  /\ Goto(Main, "api")
  /\ UNCHANGED <<conf, cert, server, memory, control>>

(* Every check of main and of the ManagementInterface constructor that ends  *)
(* in LOG(FATAL): known hosts, config file, config folder, socket path,      *)
(* socket, bind.                                                             *)
SetupFails ==
  /\ pc[Main] \in {"config", "api"}
  /\ Die("fatal")
  /\ UNCHANGED <<disk, server>>

(* ManagementAPI::init, and the constructor that starts the console thread.  *)
StartInterface ==
  /\ pc[Main] = "api"
  /\ interface' = "spawned"
  /\ Goto(Main, "assign")
  /\ UNCHANGED <<disk, server, memory, retries, lives, died>>

(* Singleton::create stores the pointer after the constructor has returned.  *)
AssignInterface ==
  /\ pc[Main] = "assign"
  /\ Goto(Main, "dev_ctx")
  /\ UNCHANGED <<disk, server, memory, control>>

Assigned == pc[Main] \notin {"idle", "config", "write_config", "api", "assign"}

InterfaceListens ==
  /\ interface = "spawned" /\ Assigned
  /\ interface' = "listening"
  /\ UNCHANGED <<disk, server, pc, memory, retries, lives, died>>

InterfaceTooEarly ==
  /\ interface = "spawned" /\ ~Assigned
  /\ Die("null interface")
  /\ UNCHANGED <<disk, server>>

------------------------------------------------------------------------------
(* ManagementContext::dev_ctx, by the main thread and by INFO commands, with *)
(* register_client and JsonModel::save in it.  Nothing locks any of it.      *)

(* What the caller does with the context it gets. *)
AfterDevCtx(a) == IF a = Main THEN "poll" ELSE "info"

ContextExists(a) ==
  /\ pc[a] = "dev_ctx" /\ ctx # None
  /\ got' = [got EXCEPT ![a] = ctx]
  /\ Goto(a, AfterDevCtx(a))
  /\ UNCHANGED <<disk, server, ctx, streams, sent, control>>

LoadRegistration(a) ==
  /\ pc[a] = "dev_ctx" /\ ctx = None /\ conf # Absent
  /\ got' = [got EXCEPT ![a] = conf]
  /\ Goto(a, "construct")
  /\ UNCHANGED <<disk, server, ctx, streams, sent, control>>

(* Mutant: dev_ctx forgets to look for the file. *)
NotRegisteredUnchecked(a) ==
  /\ pc[a] = "dev_ctx" /\ ctx = None
  /\ Goto(a, "register")
  /\ UNCHANGED <<disk, server, memory, control>>

NotRegistered(a) ==
  /\ pc[a] = "dev_ctx" /\ ctx = None /\ conf = Absent
  /\ Goto(a, "register")
  /\ UNCHANGED <<disk, server, memory, control>>

Register(a) ==
  /\ pc[a] = "register"
  /\ \E d \in Id \ issued :
       issued' = issued \union {d} /\ got' = [got EXCEPT ![a] = d]
  /\ Goto(a, "save")
  /\ UNCHANGED <<disk, enabled, ctx, streams, sent, control>>

(* No answer, or one that is not a success: the request may have been served *)
(* all the same.                                                             *)
RegisterFails(a) ==
  /\ pc[a] = "register"
  /\ \/ UNCHANGED issued
     \/ \E d \in Id \ issued : issued' = issued \union {d}
  /\ Die("fatal")
  /\ UNCHANGED <<disk, enabled>>

(* The server has registered the device and says so, but its answer lacks the *)
(* id or the token, or has it empty: the DeviceConfiguration throws, and      *)
(* dev_ctx is noexcept.                                                       *)
RegisterIncomplete(a) ==
  /\ pc[a] = "register"
  /\ \E d \in Id \ issued : issued' = issued \union {d}
  /\ Die("bad answer")
  /\ UNCHANGED <<disk, enabled>>

SaveRemoves(a) ==
  /\ pc[a] = "save"
  /\ conf' = Absent
  /\ streams' = {}
  /\ Goto(a, "open")
  /\ UNCHANGED <<yaml, cert, server, got, ctx, sent, control>>

(* The stream truncates a file that another actor has created meanwhile. *)
SaveOpens(a) ==
  /\ pc[a] = "open"
  /\ conf' = Torn
  /\ streams' = streams \union {a}
  /\ Goto(a, "write")
  /\ UNCHANGED <<yaml, cert, server, got, ctx, sent, control>>

(* Mutant: dev_ctx goes on with the configuration it has registered. *)
SaveWritesKeeps(a) ==
  /\ pc[a] = "write"
  /\ conf' \in IF a \notin streams THEN {conf}
               ELSE IF conf = Torn THEN {got[a]} ELSE {got[a], Torn}
  /\ streams' = streams \ {a}
  /\ Goto(a, "construct")
  /\ UNCHANGED <<yaml, cert, server, got, ctx, sent, control>>

(* The buffered document is written from offset 0 when the stream closes. If *)
(* the file was removed, nobody sees it; over another actor's document it    *)
(* leaves a tail when it is shorter.  The configuration is register_client's *)
(* own: dev_ctx is left with its null pointer.                               *)
SaveWrites(a) ==
  /\ pc[a] = "write"
  /\ conf' \in IF a \notin streams THEN {conf}
               ELSE IF conf = Torn THEN {got[a]} ELSE {got[a], Torn}
  /\ streams' = streams \ {a}
  /\ got' = [got EXCEPT ![a] = None]
  /\ Goto(a, "construct")
  /\ UNCHANGED <<yaml, cert, server, ctx, sent, control>>

(* Behind the save, register_client asks the answer for the enable_url. *)
EnableUrlMissing(a) ==
  /\ pc[a] = "construct" /\ got[a] = None
  /\ Die("bad answer")
  /\ UNCHANGED <<disk, server>>

Construct(a) ==
  /\ pc[a] = "construct" /\ got[a] \in Id
  /\ ctx' = got[a]
  /\ Goto(a, AfterDevCtx(a))
  /\ UNCHANGED <<disk, server, got, streams, sent, control>>

(* The constructor follows the null pointer, or asks an empty document for   *)
(* the device id; dev_ctx is noexcept.                                       *)
ConstructFails(a) ==
  /\ pc[a] = "construct" /\ got[a] \notin Id
  /\ Die(IF got[a] = None THEN "null conf" ELSE "bad conf")
  /\ UNCHANGED <<disk, server>>

DevCtx(a) ==
  \/ ContextExists(a) \/ LoadRegistration(a) \/ NotRegistered(a)
  \/ Register(a) \/ RegisterFails(a) \/ RegisterIncomplete(a)
  \/ SaveRemoves(a) \/ SaveOpens(a) \/ SaveWrites(a) \/ EnableUrlMissing(a)
  \/ Construct(a) \/ ConstructFails(a)

------------------------------------------------------------------------------
(* The console: INFO and PEER.                                               *)

InfoCommand(c) ==
  /\ interface = "listening" /\ pc[c] = "idle"
  /\ Goto(c, "dev_ctx")
  /\ UNCHANGED <<disk, server, memory, control>>

InfoPrints(c) ==
  /\ pc[c] = "info" /\ got[c] \in enabled
  /\ got' = [got EXCEPT ![c] = None]
  /\ Goto(c, "idle")
  /\ UNCHANGED <<disk, server, ctx, streams, sent, control>>

(* device_info: strlen of the null pointer of a failed request; for a device *)
(* that is not enabled, and for an answer that is empty, does not parse or   *)
(* is no success, a null response, which INFO does not check.                *)
InfoFails(c) ==
  /\ pc[c] = "info"
  /\ Die("null response") \/ Die("null info")
  /\ UNCHANGED <<disk, server>>

(* INFO prints four members of the answer; value() throws for one that is not *)
(* there, on the connection's thread.  A document that is no object fails the *)
(* assertion in HasMember.                                                    *)
InfoIncomplete(c) ==
  /\ pc[c] = "info"
  /\ Die("bad answer")
  /\ UNCHANGED <<disk, server>>

(* P2PServerContext::get() is null until init has created the instance. *)
PeerCommandTooEarly(c) ==
  /\ interface = "listening" /\ pc[c] = "idle"
  /\ pc[Main] \notin {"start", "serving"}
  /\ Die("null server")
  /\ UNCHANGED <<disk, server>>

Command(c) ==
  \/ InfoCommand(c) \/ InfoPrints(c) \/ InfoFails(c) \/ InfoIncomplete(c)
  \/ PeerCommandTooEarly(c)

------------------------------------------------------------------------------
(* P2PServerContext::init and start, and client_certificate.                 *)

Poll ==
  /\ pc[Main] = "poll" /\ got[Main] \in enabled
  /\ Goto(Main, "listen")
  /\ UNCHANGED <<disk, server, memory, control>>

(* device_info is null: the device is not enabled, or the answer is empty,   *)
(* does not parse or is no success.  None of them tells an enabled device.   *)
PollAgain ==
  /\ pc[Main] = "poll"
  /\ Goto(Main, "sleep")
  /\ UNCHANGED <<disk, server, memory, control>>

(* No answer at all, or a document that is no object. *)
PollFails ==
  /\ pc[Main] = "poll"
  /\ Die("null response") \/ Die("bad answer")
  /\ UNCHANGED <<disk, server>>

Wake ==
  /\ pc[Main] = "sleep"
  /\ Goto(Main, "poll")
  /\ UNCHANGED <<disk, server, memory, control>>

Listen ==
  /\ pc[Main] = "listen"
  /\ Goto(Main, "certificate")
  /\ retries' = 0
  /\ UNCHANGED <<disk, server, memory, interface, lives, died>>

(* init returns false: socket, bind or listen, or PKCS12_parse. *)
InitFails ==
  /\ pc[Main] \in {"listen", "load"}
  /\ Die("fatal")
  /\ UNCHANGED <<disk, server>>

(* Mutant: a file that exists is taken for good. *)
CertificateExists ==
  /\ pc[Main] = "certificate" /\ retries < MaxRetries
  /\ cert # Absent
  /\ Goto(Main, "load")
  /\ UNCHANGED <<disk, server, memory, control>>

CertificateGood ==
  /\ pc[Main] = "certificate" /\ retries < MaxRetries
  /\ cert \in Document
  /\ Goto(Main, "load")
  /\ UNCHANGED <<disk, server, memory, control>>

(* Mutant: one round too many. *)
CertificateBadLate ==
  /\ pc[Main] = "certificate" /\ retries <= MaxRetries
  /\ cert \notin Document
  /\ cert' = Absent /\ sent' = << >>
  /\ Goto(Main, "download")
  /\ UNCHANGED <<yaml, conf, server, got, ctx, streams, control>>

(* Mutant: the file is downloaded anew on every start. *)
CertificateAlwaysBad ==
  /\ pc[Main] = "certificate" /\ retries < MaxRetries
  /\ cert' = Absent /\ sent' = << >>
  /\ Goto(Main, "download")
  /\ UNCHANGED <<yaml, conf, server, got, ctx, streams, control>>

(* A torn file is removed after the wait; the download follows either way. *)
CertificateBad ==
  /\ pc[Main] = "certificate" /\ retries < MaxRetries
  /\ cert \notin Document
  /\ cert' = Absent /\ sent' = << >>
  /\ Goto(Main, "download")
  /\ UNCHANGED <<yaml, conf, server, got, ctx, streams, control>>

(* A success; the stream on the file is opened. *)
Download ==
  /\ pc[Main] = "download"
  /\ sent' \in Text
  /\ cert' = << >>
  /\ Goto(Main, "store")
  /\ UNCHANGED <<yaml, conf, server, got, ctx, streams, control>>

(* Mutant: the continue does not count. *)
DownloadFailsUncounted ==
  /\ pc[Main] = "download"
  /\ Goto(Main, "certificate")
  /\ UNCHANGED <<disk, server, memory, control>>

DownloadFails ==
  /\ pc[Main] = "download"
  /\ retries' = retries + 1
  /\ Goto(Main, "certificate")
  /\ UNCHANGED <<disk, server, memory, interface, lives, died>>

(* A success without a certificate in it: value() throws, main has no handler. *)
DownloadIncomplete ==
  /\ pc[Main] = "download"
  /\ Die("bad answer")
  /\ UNCHANGED <<disk, server>>

(* The decoded text is written, be it a PKCS12 document or not. *)
Store ==
  /\ pc[Main] = "store"
  /\ cert' = decode(sent)
  /\ retries' = retries + 1
  /\ Goto(Main, "certificate")
  /\ UNCHANGED <<yaml, conf, server, memory, interface, lives, died>>

NoCertificate ==
  /\ pc[Main] = "certificate" /\ retries = MaxRetries
  /\ Die("no certificate")
  /\ UNCHANGED <<disk, server>>

(* The file is opened and decoded once more; the instance is created. *)
CreateServer ==
  /\ pc[Main] = "load"
  /\ Goto(Main, "start")
  /\ UNCHANGED <<disk, server, memory, control>>

(* The constructor cannot make its event base, or cannot verify the device's  *)
(* certificate with the chain that came with it.                              *)
Unverified ==
  /\ pc[Main] = "load"
  /\ Die("unverified")
  /\ UNCHANGED <<disk, server>>

(* The listening thread, the peer list and a hello to each peer in it. *)
Start ==
  /\ pc[Main] = "start"
  /\ Goto(Main, "serving")
  /\ UNCHANGED <<disk, server, memory, control>>

StartFails ==
  /\ pc[Main] = "start"
  /\ Die("null peers")
  /\ UNCHANGED <<disk, server>>

(* get_map asserts that the member peers is an object, of strings. *)
PeersMalformed ==
  /\ pc[Main] = "start"
  /\ Die("bad answer")
  /\ UNCHANGED <<disk, server>>

ClientCertificate ==
  \/ CertificateGood \/ CertificateBad
  \/ Download \/ DownloadFails \/ DownloadIncomplete \/ Store
  \/ NoCertificate

MainStep ==
  \/ LoadConfig \/ LoadTornConfig \/ CreateConfig \/ WriteConfig \/ SetupFails
  \/ StartInterface \/ AssignInterface
  \/ DevCtx(Main)
  \/ Poll \/ PollAgain \/ PollFails \/ Wake \/ Listen \/ InitFails
  \/ ClientCertificate
  \/ CreateServer \/ Unverified \/ Start \/ StartFails \/ PeersMalformed

Next ==
  \/ MainStep
  \/ InterfaceListens \/ InterfaceTooEarly
  \/ \E c \in Console : DevCtx(c) \/ Command(c)
  \/ Boot \/ Killed
  \/ \E d \in Id : Enable(d)

(* Where the main thread waits for a request to the management server, which *)
(* has no timeout (curl_utils.cc): it may wait for ever.                     *)
Requests == {"register", "poll", "download", "start"}

(* The operating system schedules the main thread wherever it does not wait  *)
(* for a request; nothing answers a request, restarts the daemon, enables a  *)
(* device or types a command.                                                *)
Spec == Init /\ [][Next]_vars /\ WF_vars(pc[Main] \notin Requests /\ MainStep)

------------------------------------------------------------------------------
(* Type correctness.  An actor that writes the registration holds the id it  *)
(* was given, and one that has its context holds a registered id.            *)
TypeOK ==
  /\ yaml \in File /\ cert \in Content
  /\ conf \in issued \union {Absent, Torn}
  /\ issued \subseteq Id /\ enabled \subseteq issued
  /\ pc \in [Actor -> Label]
  /\ got \in [Actor -> issued \union {None, Torn}]
  /\ ctx \in issued \union {None}
  /\ streams \subseteq Actor
  /\ sent \in Text \union {<< >>}
  /\ interface \in {"none", "spawned", "listening"}
  /\ retries \in 0 .. MaxRetries
  /\ lives \in 0 .. MaxLives
  /\ died \in Cause
  /\ \A a \in Actor : pc[a] \in {"save", "open", "write", "poll", "sleep", "info"}
                         => got[a] \in issued

(* The P2P server is created and serves only with a device that the          *)
(* management server has enabled and with a certificate file that decodes,   *)
(* whatever a process that died in an earlier life left of that file.        *)
ServesProvisioned ==
  pc[Main] \in Loaded => got[Main] \in enabled /\ cert \in Document

(* A document that the management server has sent lies in the file byte for  *)
(* byte when client_certificate looks at it and when the P2P server loads    *)
(* it: decode and the padding of its last group lose nothing, and nobody     *)
(* touches the file in between (device_context.cc:84-87).                    *)
StoredAsSent ==
  \A d \in Document :
    pc[Main] \in {"certificate"} \union Loaded /\ sent = Encoded(d) => cert = d

Registering(a) == pc[a] \in {"register", "save", "open", "write"}

Registered == conf \in Id /\ \A a \in Actor : ~Registering(a)

(* On its way through register_client, or about to follow the null pointer. *)
Doomed(a) == Registering(a) \/ (pc[a] = "construct" /\ got[a] = None)

(* The device that the process acts as is the one of the registration file:  *)
(* what main and the consoles have loaded, and the context they share, agree *)
(* with the file, although dev_ctx checks, registers, saves and constructs   *)
(* without a lock (management_context.cc:94-124).  Only as long as an actor  *)
(* is registering, which ends with the process, may another one act as a     *)
(* device that is no longer in the file.                                     *)
ActsAsSaved ==
  (\A a \in Actor : ~Doomed(a)) =>
    ctx \in {None, conf} /\ \A a \in Actor : got[a] \in {None, conf}

(* Once a registration is saved and no registration is under way, it is kept *)
(* for ever: no step of any actor, no crash and no restart removes, tears or *)
(* replaces it (dev_ctx registers only when the file does not exist).        *)
RegistrationKept == [][Registered => Registered' /\ conf' = conf]_vars

(* A certificate file that can be loaded is never removed, overwritten or    *)
(* replaced, through all restarts (client_certificate downloads only what it *)
(* cannot load).                                                             *)
CertificateKept == [][(cert \in Document) => cert' = cert]_vars

(* The main thread gets on: again and again it serves, is dead or sleeps     *)
(* between two polls, unless a request to the management server never ends.  *)
(* The retry loop of client_certificate ends, whatever the server sends, and *)
(* dev_ctx does, whatever the consoles do with the registration.             *)
StartSettles ==
  \/ []<>(pc[Main] \in {"idle", "serving", "sleep"})
  \/ \E label \in Requests : <>[](pc[Main] = label)

------------------------------------------------------------------------------
(* What the comments say and the code does not do.                           *)

(* "if not register will goto step 3, otherwise read the device config and   *)
(* get saved JWT Token" (management_api.h:182-183): when the registration    *)
(* file exists, dev_ctx gets the saved token from it.                        *)
SavedTokenIsRead == died # "bad conf"
==============================================================================
