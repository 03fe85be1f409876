------------------------- MODULE DeviceStartupProofs -------------------------
(* Proofs about DeviceStartup: its types, that the server only ever serves   *)
(* with an enabled device and a good certificate, and that neither the       *)
(* registration nor the certificate is lost again, for any number of console *)
(* connections, restarts, retries, ids and documents; and about Base64, that *)
(* decode inverts the encoding of every text, so that the certificate file   *)
(* has what the server has sent.                                             *)
EXTENDS DeviceStartup, Integers, SequenceTheorems, WellFoundedInduction,
        NaturalsInduction, TLAPS

(* What the main thread knows of the certificate file, which nobody else     *)
(* touches, and of its loop counter.                                         *)
CertificateInv ==
  /\ pc[Main] = "download" => cert = Absent /\ retries < MaxRetries
  /\ pc[Main] = "store" => cert = << >> /\ sent \in Text /\ retries < MaxRetries
  /\ pc[Main] \in Loaded => cert \in Document

(* What the main thread knows of its device, which is never disabled again. *)
EnabledInv ==
  pc[Main] \in {"listen"} \union Provisioning \union Loaded => got[Main] \in enabled

(* Until the main thread removes the file, it has what the last download has *)
(* brought.                                                                  *)
SentInv ==
  sent = << >> \/ pc[Main] = "store" \/ cert = decode(sent)

(* The inductive invariant: ServesProvisioned needs what the main thread has *)
(* seen at each step before it serves, StoredAsSent that the file is left    *)
(* alone between its download and its use.                                   *)
IInv == TypeOK /\ CertificateInv /\ EnabledInv /\ SentInv

LEMMA MainIsActor == Main \in Actor /\ Main \notin Console /\ Console \subseteq Actor
  BY ActorsAssumption DEF Actor

(* The contents of the certificate file that the actions name.               *)
LEMMA ContentTyped ==
  /\ Absent \in Content /\ << >> \in Content
  /\ \A t \in Text : decode(t) \in Content
  BY DEF Content

(* The initial state, whether or not there is a configuration file. *)
LEMMA InitIInv == Init => IInv
  BY MainIsActor, ContentTyped, RetriesAssumption, LivesAssumption
  DEF Init, IInv, TypeOK, CertificateInv, EnabledInv, SentInv, File, Label, Cause, Loaded,
      Provisioning, InDevCtx

(* Dying leaves a state in which every thread is idle; the disk and the      *)
(* management server are as they were, or the server has one id more.        *)
LEMMA DeathIsSafe ==
  ASSUME IInv, NEW cause \in Cause, Die(cause), UNCHANGED <<disk, enabled>>,
         issued \subseteq issued', issued' \subseteq Id
  PROVE  IInv'
<1>1. TypeOK'
  BY RetriesAssumption DEF IInv, TypeOK, Die, disk, Label
<1>2. CertificateInv' /\ EnabledInv' /\ SentInv'
  BY MainIsActor DEF CertificateInv, EnabledInv, SentInv, Die, Loaded, Provisioning
<1> QED  BY <1>1, <1>2 DEF IInv

(* An action of the main thread that moves its program counter only. *)
LEMMA MoveIsSafe ==
  ASSUME IInv, NEW label \in Label, Goto(Main, label),
         UNCHANGED <<disk, server, memory, interface, lives, died>>,
         retries' \in 0 .. MaxRetries,
         label \notin {"save", "open", "write", "info", "download", "store"},
         label \in {"poll", "sleep"} => got[Main] \in issued,
         label \in Loaded => cert \in Document,
         pc[Main] # "store",
         label \in {"listen"} \union Provisioning \union Loaded => got[Main] \in enabled
  PROVE  IInv'
<1>1. pc' = [pc EXCEPT ![Main] = label] /\ pc'[Main] = label
  BY MainIsActor DEF IInv, TypeOK, Goto
<1>2. TypeOK'
  BY <1>1, MainIsActor DEF IInv, TypeOK, disk, server, memory
<1>3. CertificateInv' /\ EnabledInv' /\ SentInv'
  BY <1>1 DEF IInv, CertificateInv, EnabledInv, SentInv, disk, server, memory
<1> QED  BY <1>2, <1>3 DEF IInv

(* dev_ctx, by any actor. *)
LEMMA DevCtxIsSafe ==
  ASSUME IInv, NEW a \in Actor, DevCtx(a)  PROVE  IInv'
<1> USE DEF Goto, disk, server, control, memory
<1>t. TypeOK  BY DEF IInv
<1>m. Main \in Actor  BY MainIsActor
<1>0. AfterDevCtx(a) \in {"poll", "info"}  BY DEF AfterDevCtx
<1>1. CASE ContextExists(a)
  <2>1. TypeOK'  BY <1>1, <1>t, <1>0 DEF TypeOK, ContextExists, Label
  <2>2. CertificateInv' /\ EnabledInv' /\ SentInv'
    BY <1>1, <1>t, <1>0, <1>m
    DEF IInv, TypeOK, CertificateInv, EnabledInv, SentInv, ContextExists, Loaded, Provisioning
  <2> QED  BY <2>1, <2>2 DEF IInv
<1>2. CASE LoadRegistration(a)
  <2>1. TypeOK'  BY <1>2, <1>t DEF TypeOK, LoadRegistration, Label, InDevCtx
  <2>2. CertificateInv' /\ EnabledInv' /\ SentInv'
    BY <1>2, <1>t, <1>m
    DEF IInv, TypeOK, CertificateInv, EnabledInv, SentInv, LoadRegistration, Loaded, Provisioning
  <2> QED  BY <2>1, <2>2 DEF IInv
<1>3. CASE NotRegistered(a)
  <2>1. TypeOK'  BY <1>3, <1>t DEF TypeOK, NotRegistered, Label, InDevCtx
  <2>2. CertificateInv' /\ EnabledInv' /\ SentInv'
    BY <1>3, <1>t, <1>m
    DEF IInv, TypeOK, CertificateInv, EnabledInv, SentInv, NotRegistered, Loaded, Provisioning
  <2> QED  BY <2>1, <2>2 DEF IInv
<1>4. CASE Register(a)
  <2>0. PICK d \in Id \ issued : issued' = issued \union {d} /\ got' = [got EXCEPT ![a] = d]
    BY <1>4 DEF Register
  <2>1. TypeOK'  BY <1>4, <2>0, <1>t DEF TypeOK, Register, Label, InDevCtx
  <2>2. CertificateInv' /\ EnabledInv' /\ SentInv'
    BY <1>4, <2>0, <1>t, <1>m
    DEF IInv, TypeOK, CertificateInv, EnabledInv, SentInv, Register, Loaded, Provisioning
  <2> QED  BY <2>1, <2>2 DEF IInv
<1>5. CASE RegisterFails(a)
  <2>1. issued \subseteq issued' /\ issued' \subseteq Id
    BY <1>5, <1>t DEF TypeOK, RegisterFails
  <2> QED  BY <1>5, <2>1, DeathIsSafe DEF RegisterFails, Cause
<1>11. CASE RegisterIncomplete(a)
  <2>1. issued \subseteq issued' /\ issued' \subseteq Id
    BY <1>11, <1>t DEF TypeOK, RegisterIncomplete
  <2> QED  BY <1>11, <2>1, DeathIsSafe DEF RegisterIncomplete, Cause
<1>6. CASE SaveRemoves(a)
  <2>1. TypeOK'  BY <1>6, <1>t DEF TypeOK, SaveRemoves, Label, InDevCtx
  <2>2. CertificateInv' /\ EnabledInv' /\ SentInv'
    BY <1>6, <1>t, <1>m
    DEF IInv, TypeOK, CertificateInv, EnabledInv, SentInv, SaveRemoves, Loaded, Provisioning
  <2> QED  BY <2>1, <2>2 DEF IInv
<1>7. CASE SaveOpens(a)
  <2>1. TypeOK'  BY <1>7, <1>t DEF TypeOK, SaveOpens, Label, InDevCtx
  <2>2. CertificateInv' /\ EnabledInv' /\ SentInv'
    BY <1>7, <1>t, <1>m
    DEF IInv, TypeOK, CertificateInv, EnabledInv, SentInv, SaveOpens, Loaded, Provisioning
  <2> QED  BY <2>1, <2>2 DEF IInv
<1>8. CASE SaveWrites(a)
  <2>0. conf' \in issued \union {Absent, Torn}  BY <1>8, <1>t DEF TypeOK, SaveWrites
  <2>1. TypeOK'  BY <1>8, <2>0, <1>t DEF TypeOK, SaveWrites, Label, InDevCtx
  <2>2. CertificateInv' /\ EnabledInv' /\ SentInv'
    BY <1>8, <1>t, <1>m
    DEF IInv, TypeOK, CertificateInv, EnabledInv, SentInv, SaveWrites, Loaded, Provisioning
  <2> QED  BY <2>1, <2>2 DEF IInv
<1>9. CASE Construct(a)
  <2>0. got[a] \in issued  BY <1>9, <1>t, MarksAssumption DEF TypeOK, Construct
  <2>1. TypeOK'  BY <1>9, <2>0, <1>t, <1>0 DEF TypeOK, Construct, Label
  <2>2. CertificateInv' /\ EnabledInv' /\ SentInv'
    BY <1>9, <1>t, <1>0, <1>m
    DEF IInv, TypeOK, CertificateInv, EnabledInv, SentInv, Construct, Loaded, Provisioning
  <2> QED  BY <2>1, <2>2 DEF IInv
<1>10. CASE ConstructFails(a)
  <2>1. (IF got[a] = None THEN "null conf" ELSE "bad conf") \in Cause  BY DEF Cause
  <2>2. issued' = issued /\ issued \subseteq Id  BY <1>10, <1>t DEF ConstructFails, TypeOK
  <2> QED  BY <1>10, <2>1, <2>2, DeathIsSafe DEF ConstructFails
<1>12. CASE EnableUrlMissing(a)
  <2>1. issued' = issued /\ issued \subseteq Id  BY <1>12, <1>t DEF EnableUrlMissing, TypeOK
  <2> QED  BY <1>12, <2>1, DeathIsSafe DEF EnableUrlMissing, Cause
<1> QED
  BY <1>1, <1>2, <1>3, <1>4, <1>5, <1>6, <1>7, <1>8, <1>9, <1>10, <1>11, <1>12 DEF DevCtx

(* The console's commands. *)
LEMMA CommandIsSafe ==
  ASSUME IInv, NEW c \in Console, Command(c)  PROVE  IInv'
<1> USE DEF Goto, disk, server, control, memory
<1>t. TypeOK  BY DEF IInv
<1>m. Main \in Actor /\ c \in Actor /\ c # Main  BY MainIsActor
<1>s. issued \subseteq Id  BY <1>t DEF TypeOK
<1>1. CASE InfoCommand(c)
  <2>1. TypeOK'  BY <1>1, <1>t, <1>m DEF TypeOK, InfoCommand, Label, InDevCtx
  <2>2. CertificateInv' /\ EnabledInv' /\ SentInv'
    BY <1>1, <1>t, <1>m DEF IInv, TypeOK, CertificateInv, EnabledInv, SentInv, InfoCommand
  <2> QED  BY <2>1, <2>2 DEF IInv
<1>2. CASE InfoPrints(c)
  <2>1. TypeOK'  BY <1>2, <1>t, <1>m DEF TypeOK, InfoPrints, Label
  <2>2. CertificateInv' /\ EnabledInv' /\ SentInv'
    BY <1>2, <1>t, <1>m DEF IInv, TypeOK, CertificateInv, EnabledInv, SentInv, InfoPrints
  <2> QED  BY <2>1, <2>2 DEF IInv
<1>3. CASE InfoFails(c)
  <2>1. PICK cause \in Cause : Die(cause)  BY <1>3 DEF InfoFails, Cause
  <2> QED  BY <1>3, <2>1, <1>s, DeathIsSafe DEF InfoFails
<1>4. CASE PeerCommandTooEarly(c)
  BY <1>4, <1>s, DeathIsSafe DEF PeerCommandTooEarly, Cause
<1>5. CASE InfoIncomplete(c)
  BY <1>5, <1>s, DeathIsSafe DEF InfoIncomplete, Cause
<1> QED  BY <1>1, <1>2, <1>3, <1>4, <1>5 DEF Command

(* client_certificate. *)
LEMMA ClientCertificateIsSafe ==
  ASSUME IInv, ClientCertificate  PROVE  IInv'
<1> USE DEF Goto, disk, server, control, memory
<1>t. TypeOK  BY DEF IInv
<1>m. Main \in Actor  BY MainIsActor
<1>s. issued \subseteq Id  BY <1>t DEF TypeOK
<1>1. CASE CertificateGood
  BY <1>1, <1>t, MoveIsSafe
  DEF IInv, TypeOK, EnabledInv, CertificateGood, Label, Loaded, Provisioning
<1>2. CASE CertificateBad
  <2>1. TypeOK'  BY <1>2, <1>t, <1>m, ContentTyped DEF TypeOK, CertificateBad, Label, Provisioning
  <2>2. CertificateInv' /\ EnabledInv' /\ SentInv'
    BY <1>2, <1>t, <1>m
    DEF IInv, TypeOK, CertificateInv, EnabledInv, SentInv, CertificateBad, Loaded, Provisioning
  <2> QED  BY <2>1, <2>2 DEF IInv
<1>3. CASE Download
  <2>1. TypeOK'  BY <1>3, <1>t, <1>m, ContentTyped DEF TypeOK, Download, Label, Provisioning
  <2>2. CertificateInv' /\ EnabledInv' /\ SentInv'
    BY <1>3, <1>t, <1>m
    DEF IInv, TypeOK, CertificateInv, EnabledInv, SentInv, Download, Loaded, Provisioning
  <2> QED  BY <2>1, <2>2 DEF IInv
<1>4. CASE DownloadFails
  <2>1. retries' \in 0 .. MaxRetries
    BY <1>4, <1>t, RetriesAssumption DEF IInv, TypeOK, CertificateInv, DownloadFails
  <2> QED
    BY <1>4, <2>1, MoveIsSafe
    DEF IInv, EnabledInv, DownloadFails, Label, Loaded, Provisioning
<1>5. CASE Store
  <2>0. retries' \in 0 .. MaxRetries
    BY <1>5, <1>t, RetriesAssumption DEF IInv, TypeOK, CertificateInv, Store
  <2>3. cert' \in Content
    BY <1>5, ContentTyped DEF IInv, CertificateInv, Store
  <2>1. TypeOK'  BY <1>5, <2>0, <2>3, <1>t, <1>m DEF TypeOK, Store, Label, Provisioning
  <2>2. CertificateInv' /\ EnabledInv' /\ SentInv'
    BY <1>5, <1>t, <1>m
    DEF IInv, TypeOK, CertificateInv, EnabledInv, SentInv, Store, Loaded, Provisioning
  <2> QED  BY <2>1, <2>2 DEF IInv
<1>6. CASE NoCertificate
  BY <1>6, <1>s, DeathIsSafe DEF NoCertificate, Cause
<1>7. CASE DownloadIncomplete
  BY <1>7, <1>s, DeathIsSafe DEF DownloadIncomplete, Cause
<1> QED  BY <1>1, <1>2, <1>3, <1>4, <1>5, <1>6, <1>7 DEF ClientCertificate

(* Every other step of the main thread. *)
LEMMA MainStepIsSafe ==
  ASSUME IInv, MainStep  PROVE  IInv'
<1> USE DEF Goto, disk, server, control, memory
<1>t. TypeOK  BY DEF IInv
<1>m. Main \in Actor  BY MainIsActor
<1>s. issued \subseteq Id  BY <1>t DEF TypeOK
<1>r. retries \in 0 .. MaxRetries /\ 0 \in 0 .. MaxRetries
  BY <1>t, RetriesAssumption DEF TypeOK
<1>1. CASE LoadConfig
  BY <1>1, <1>r, MoveIsSafe DEF LoadConfig, Label, Loaded, Provisioning
<1>2. CASE LoadTornConfig
  BY <1>2, <1>s, DeathIsSafe DEF LoadTornConfig, Cause
<1>3. CASE CreateConfig
  <2>1. TypeOK'  BY <1>3, <1>t, <1>m DEF TypeOK, CreateConfig, Label, File
  <2>2. CertificateInv' /\ EnabledInv' /\ SentInv'
    BY <1>3, <1>t, <1>m
    DEF IInv, TypeOK, CertificateInv, EnabledInv, SentInv, CreateConfig, Loaded, Provisioning
  <2> QED  BY <2>1, <2>2 DEF IInv
<1>4. CASE WriteConfig
  <2>1. TypeOK'  BY <1>4, <1>t, <1>m DEF TypeOK, WriteConfig, Label, File
  <2>2. CertificateInv' /\ EnabledInv' /\ SentInv'
    BY <1>4, <1>t, <1>m
    DEF IInv, TypeOK, CertificateInv, EnabledInv, SentInv, WriteConfig, Loaded, Provisioning
  <2> QED  BY <2>1, <2>2 DEF IInv
<1>5. CASE SetupFails
  BY <1>5, <1>s, DeathIsSafe DEF SetupFails, Cause
<1>6. CASE StartInterface
  <2>1. TypeOK'  BY <1>6, <1>t, <1>m DEF TypeOK, StartInterface, Label
  <2>2. CertificateInv' /\ EnabledInv' /\ SentInv'
    BY <1>6, <1>t, <1>m
    DEF IInv, TypeOK, CertificateInv, EnabledInv, SentInv, StartInterface, Loaded, Provisioning
  <2> QED  BY <2>1, <2>2 DEF IInv
<1>7. CASE AssignInterface
  BY <1>7, <1>r, MoveIsSafe DEF AssignInterface, Label, InDevCtx, Loaded, Provisioning
<1>8. CASE DevCtx(Main)
  BY <1>8, <1>m, DevCtxIsSafe
<1>9. CASE Poll
  BY <1>9, <1>r, MoveIsSafe DEF Poll, Label, Loaded, Provisioning
<1>20. CASE PollAgain
  BY <1>20, <1>r, <1>t, <1>m, MoveIsSafe DEF TypeOK, PollAgain, Label, Loaded, Provisioning
<1>10. CASE PollFails
  BY <1>10, <1>s, DeathIsSafe DEF PollFails, Cause
<1>11. CASE Wake
  BY <1>11, <1>r, <1>t, <1>m, MoveIsSafe DEF TypeOK, Wake, Label, Loaded, Provisioning
<1>12. CASE Listen
  BY <1>12, <1>r, MoveIsSafe DEF IInv, EnabledInv, Listen, Label, Loaded, Provisioning
<1>13. CASE InitFails
  BY <1>13, <1>s, DeathIsSafe DEF InitFails, Cause
<1>14. CASE ClientCertificate
  BY <1>14, ClientCertificateIsSafe
<1>15. CASE CreateServer
  BY <1>15, <1>r, MoveIsSafe
  DEF IInv, CertificateInv, EnabledInv, SentInv, CreateServer, Label, Loaded, Provisioning
<1>16. CASE Start
  BY <1>16, <1>r, MoveIsSafe
  DEF IInv, CertificateInv, EnabledInv, SentInv, Start, Label, Loaded, Provisioning
<1>17. CASE StartFails
  BY <1>17, <1>s, DeathIsSafe DEF StartFails, Cause
<1>18. CASE Unverified
  BY <1>18, <1>s, DeathIsSafe DEF Unverified, Cause
<1>19. CASE PeersMalformed
  BY <1>19, <1>s, DeathIsSafe DEF PeersMalformed, Cause
<1> QED
  BY <1>1, <1>2, <1>3, <1>4, <1>5, <1>6, <1>7, <1>8, <1>9, <1>10, <1>11, <1>12,
     <1>13, <1>14, <1>15, <1>16, <1>17, <1>18, <1>19, <1>20 DEF MainStep

(* The invariant is inductive. *)
LEMMA NextIInv == IInv /\ [Next]_vars => IInv'
<1> SUFFICES ASSUME IInv, [Next]_vars  PROVE IInv'  OBVIOUS
<1> USE DEF Goto, disk, server, control, memory
<1>t. TypeOK  BY DEF IInv
<1>m. Main \in Actor  BY MainIsActor
<1>s. issued \subseteq Id  BY <1>t DEF TypeOK
<1>1. CASE MainStep  BY <1>1, MainStepIsSafe
<1>2. CASE InterfaceListens
  BY <1>2 DEF IInv, TypeOK, CertificateInv, EnabledInv, SentInv, InterfaceListens
<1>3. CASE InterfaceTooEarly
  BY <1>3, <1>s, DeathIsSafe DEF InterfaceTooEarly, Cause
<1>4. ASSUME NEW c \in Console, DevCtx(c) \/ Command(c)  PROVE IInv'
  BY <1>4, MainIsActor, DevCtxIsSafe, CommandIsSafe
<1>5. CASE Boot
  <2>0. lives' \in 0 .. MaxLives  BY <1>5, <1>t, LivesAssumption DEF TypeOK, Boot
  <2>1. TypeOK'  BY <1>5, <2>0, <1>t, <1>m DEF TypeOK, Boot, Label, Cause
  <2>2. CertificateInv' /\ EnabledInv' /\ SentInv'
    BY <1>5, <1>t, <1>m
    DEF IInv, TypeOK, CertificateInv, EnabledInv, SentInv, Boot, Up, Loaded, Provisioning
  <2> QED  BY <2>1, <2>2 DEF IInv
<1>6. CASE Killed
  BY <1>6, <1>s, DeathIsSafe DEF Killed, Cause
<1>7. ASSUME NEW d \in Id, Enable(d)  PROVE IInv'
  BY <1>7 DEF IInv, TypeOK, CertificateInv, EnabledInv, SentInv, Enable
<1>8. CASE UNCHANGED vars
  BY <1>8 DEF IInv, TypeOK, CertificateInv, EnabledInv, SentInv, vars
<1> QED
  BY <1>1, <1>2, <1>3, <1>4, <1>5, <1>6, <1>7, <1>8 DEF Next

LEMMA AlwaysIInv == Spec => []IInv
  BY InitIInv, NextIInv, PTL DEF Spec

(* Type correctness of the startup: an actor that saves a registration or    *)
(* asks the server for its state has an id the server has issued.            *)
THEOREM StartupTyped == Spec => []TypeOK
<1>1. IInv => TypeOK  BY DEF IInv
<1> QED  BY AlwaysIInv, <1>1, PTL

(* P2PServerContext is created only for an enabled device and with a         *)
(* certificate file that decodes, whatever crashes came before.              *)
THEOREM OnlyProvisionedServes == Spec => []ServesProvisioned
<1>1. IInv => ServesProvisioned
  BY DEF IInv, CertificateInv, EnabledInv, SentInv, ServesProvisioned
<1> QED  BY AlwaysIInv, <1>1, PTL

(* A registration that is saved while nobody registers is never lost again,  *)
(* neither by another actor nor by a crash or a restart.                     *)
THEOREM RegistrationIsKept == Spec => RegistrationKept
<1>1. IInv /\ [Next]_vars => [Registered => Registered' /\ conf' = conf]_vars
  <2> SUFFICES ASSUME IInv, Next, Registered  PROVE Registered' /\ conf' = conf
    OBVIOUS
  <2> USE DEF Goto, disk, server, control, memory
  <2>t. pc \in [Actor -> Label]  BY DEF IInv, TypeOK
  <2>r. conf \in Id /\ conf # Absent /\ \A a \in Actor : ~Registering(a)
    BY MarksAssumption DEF Registered
  <2>m. Main \in Actor /\ Console \subseteq Actor  BY MainIsActor
  <2>0. ASSUME NEW cause, Die(cause), conf' = conf  PROVE Registered' /\ conf' = conf
    BY <2>0, <2>r DEF Die, Registered, Registering
  <2>1. ASSUME NEW a \in Actor, NEW label, conf' = conf, Goto(a, label),
               label \notin {"register", "save", "open", "write"}
        PROVE  Registered' /\ conf' = conf
    BY <2>1, <2>r, <2>t DEF Registered, Registering
  <2>2. ASSUME NEW a \in Actor, DevCtx(a)  PROVE Registered' /\ conf' = conf
    <3>0. AfterDevCtx(a) \notin {"register", "save", "open", "write"}  BY DEF AfterDevCtx
    <3>1. pc[a] \notin {"register", "save", "open", "write"}  BY <2>r DEF Registering
    <3>2. CASE ContextExists(a)  BY <3>2, <3>0, <2>1 DEF ContextExists
    <3>3. CASE LoadRegistration(a)  BY <3>3, <2>1 DEF LoadRegistration
    <3>4. CASE Construct(a)  BY <3>4, <3>0, <2>1 DEF Construct
    <3>5. CASE ConstructFails(a)  BY <3>5, <2>0 DEF ConstructFails
    <3>6. CASE EnableUrlMissing(a)  BY <3>6, <2>0 DEF EnableUrlMissing
    <3> QED
      BY <2>2, <3>1, <3>2, <3>3, <3>4, <3>5, <3>6, <2>r
      DEF DevCtx, NotRegistered, Register, RegisterFails, RegisterIncomplete, SaveRemoves,
          SaveOpens, SaveWrites
  <2>3. ASSUME NEW c \in Console, Command(c)  PROVE Registered' /\ conf' = conf
    <3>1. CASE InfoCommand(c)  BY <3>1, <2>m, <2>1 DEF InfoCommand
    <3>2. CASE InfoPrints(c)  BY <3>2, <2>m, <2>1 DEF InfoPrints
    <3>3. CASE InfoFails(c)  BY <3>3, <2>0 DEF InfoFails
    <3>4. CASE PeerCommandTooEarly(c)  BY <3>4, <2>0 DEF PeerCommandTooEarly
    <3>5. CASE InfoIncomplete(c)  BY <3>5, <2>0 DEF InfoIncomplete
    <3> QED  BY <2>3, <3>1, <3>2, <3>3, <3>4, <3>5 DEF Command
  <2>4. CASE ClientCertificate
    <3>1. CASE NoCertificate \/ DownloadIncomplete
      BY <3>1, <2>0 DEF NoCertificate, DownloadIncomplete
    <3> QED
      BY <2>4, <3>1, <2>m, <2>1
      DEF ClientCertificate, CertificateGood, CertificateBad, Download, DownloadFails, Store
  <2>5. CASE LoadConfig \/ CreateConfig \/ WriteConfig \/ StartInterface \/ AssignInterface
    BY <2>5, <2>m, <2>1
    DEF LoadConfig, CreateConfig, WriteConfig, StartInterface, AssignInterface
  <2>6. CASE LoadTornConfig \/ SetupFails \/ PollFails \/ InitFails \/ StartFails
             \/ Unverified \/ PeersMalformed \/ InterfaceTooEarly \/ Killed
    BY <2>6, <2>0
    DEF Unverified, PeersMalformed, LoadTornConfig, SetupFails, PollFails, InitFails, StartFails, InterfaceTooEarly, Killed
  <2>7. CASE Poll \/ PollAgain
    BY <2>7, <2>m, <2>1 DEF Poll, PollAgain
  <2>8. CASE Wake \/ Listen \/ CreateServer \/ Start \/ Boot
    BY <2>8, <2>m, <2>1 DEF Wake, Listen, CreateServer, Start, Boot
  <2>9. CASE InterfaceListens \/ \E d \in Id : Enable(d)
    BY <2>9, <2>r DEF InterfaceListens, Enable, Registered, Registering
  <2> QED
    BY <2>2, <2>3, <2>4, <2>5, <2>6, <2>7, <2>8, <2>9, <2>m DEF Next, MainStep
<1> QED  BY AlwaysIInv, <1>1, PTL DEF Spec, RegistrationKept

(* Nobody is doomed after a step only when nobody was before, or when the    *)
(* process has died in it: then the registration file is as it was.          *)
LEMMA ActsAsSavedKept == IInv /\ ActsAsSaved /\ [Next]_vars => ActsAsSaved'
<1> SUFFICES ASSUME IInv, ActsAsSaved, [Next]_vars, \A a \in Actor : ~Doomed(a)'
             PROVE  ctx' \in {None, conf'} /\ \A a \in Actor : got'[a] \in {None, conf'}
  BY DEF ActsAsSaved
<1> DEFINE Agree == ctx' \in {None, conf'} /\ \A a \in Actor : got'[a] \in {None, conf'}
<1>t. pc \in [Actor -> Label] /\ got \in [Actor -> issued \union {None, Torn}]
  BY DEF IInv, TypeOK
<1>m. Main \in Actor /\ Console \subseteq Actor  BY MainIsActor
<1>0. ASSUME NEW cause, Die(cause)  PROVE Agree
  BY <1>0 DEF Die
<1>1. ASSUME UNCHANGED <<conf, pc, got, ctx>>  PROVE Agree
  BY <1>1 DEF ActsAsSaved, Doomed, Registering
<1>2. ASSUME NEW a \in Actor, NEW label, Goto(a, label),
             pc[a] \notin {"register", "save", "open", "write", "construct"},
             UNCHANGED <<conf, got, ctx>>
      PROVE  Agree
  BY <1>2, <1>t DEF ActsAsSaved, Doomed, Registering, Goto
<1>3. ASSUME NEW a \in Actor, DevCtx(a)  PROVE Agree
  <2> USE DEF disk, memory, Goto
  <2>d. ~Doomed(a)'  BY <1>3
  <2>1. CASE RegisterFails(a) \/ RegisterIncomplete(a) \/ EnableUrlMissing(a)
             \/ ConstructFails(a)
    BY <2>1, <1>0 DEF RegisterFails, RegisterIncomplete, EnableUrlMissing, ConstructFails
  <2>2. CASE ContextExists(a)
    BY <2>2, <1>t DEF ContextExists, ActsAsSaved, Doomed, Registering
  <2>3. CASE LoadRegistration(a)
    BY <2>3, <1>t DEF LoadRegistration, ActsAsSaved, Doomed, Registering
  <2>4. CASE Construct(a)
    BY <2>4, <1>t, MarksAssumption DEF Construct, ActsAsSaved, Doomed, Registering
  <2>5. CASE NotRegistered(a) \/ Register(a) \/ SaveRemoves(a) \/ SaveOpens(a)
    BY <2>5, <2>d, <1>t
    DEF NotRegistered, Register, SaveRemoves, SaveOpens, Doomed, Registering
  <2>6. CASE SaveWrites(a)
    BY <2>6, <2>d, <1>t DEF SaveWrites, Doomed, Registering
  <2> QED  BY <1>3, <2>1, <2>2, <2>3, <2>4, <2>5, <2>6 DEF DevCtx
<1>4. ASSUME NEW c \in Console, Command(c)  PROVE Agree
  <2> USE DEF disk, memory
  <2>1. CASE InfoFails(c) \/ InfoIncomplete(c) \/ PeerCommandTooEarly(c)
    BY <2>1, <1>0 DEF InfoFails, InfoIncomplete, PeerCommandTooEarly
  <2>2. CASE InfoCommand(c)
    BY <2>2, <1>m, <1>2 DEF InfoCommand
  <2>3. CASE InfoPrints(c)
    BY <2>3, <1>m, <1>t DEF InfoPrints, ActsAsSaved, Doomed, Registering, Goto
  <2> QED  BY <1>4, <2>1, <2>2, <2>3 DEF Command
<1>5. CASE ClientCertificate
  <2>1. CASE NoCertificate \/ DownloadIncomplete
    BY <2>1, <1>0 DEF NoCertificate, DownloadIncomplete
  <2> QED
    BY <1>5, <2>1, <1>m, <1>2
    DEF ClientCertificate, CertificateGood, CertificateBad, Download, DownloadFails, Store,
        disk, memory
<1>6. CASE LoadConfig \/ CreateConfig \/ WriteConfig \/ StartInterface \/ AssignInterface
           \/ Poll \/ PollAgain \/ Wake \/ Listen \/ CreateServer \/ Start \/ Boot
  BY <1>6, <1>m, <1>2
  DEF LoadConfig, CreateConfig, WriteConfig, StartInterface, AssignInterface, Poll,
      PollAgain, Wake, Listen, CreateServer, Start, Boot, Up, disk, memory
<1>7. CASE LoadTornConfig \/ SetupFails \/ PollFails \/ InitFails \/ StartFails
           \/ Unverified \/ PeersMalformed \/ InterfaceTooEarly \/ Killed
  BY <1>7, <1>0
  DEF Unverified, PeersMalformed, LoadTornConfig, SetupFails, PollFails, InitFails,
      StartFails, InterfaceTooEarly, Killed
<1>8. CASE InterfaceListens \/ (\E d \in Id : Enable(d)) \/ UNCHANGED vars
  BY <1>8, <1>1 DEF InterfaceListens, Enable, vars, disk, memory
<1> QED
  BY <1>3, <1>4, <1>5, <1>6, <1>7, <1>8, <1>m DEF Next, MainStep

(* Main and all consoles act as the device of the registration file, unless  *)
(* somebody is registering or about to die of it.                            *)
THEOREM DeviceActsAsSaved == Spec => []ActsAsSaved
<1>1. Init => ActsAsSaved  BY DEF Init, ActsAsSaved
<1> QED  BY AlwaysIInv, <1>1, ActsAsSavedKept, PTL DEF Spec

(* A certificate that can be loaded is never removed or written again: the   *)
(* removal is guarded by the failed load, and the download follows the       *)
(* removal.                                                                  *)
THEOREM CertificateIsKept == Spec => CertificateKept
<1>1. IInv /\ [Next]_vars => [(cert \in Document) => cert' = cert]_vars
  <2> SUFFICES ASSUME IInv, Next, cert \in Document  PROVE cert' = cert
    OBVIOUS
  <2> USE DEF disk
  <2>1. ASSUME NEW a \in Actor, DevCtx(a)  PROVE cert' = cert
    BY <2>1
    DEF DevCtx, ContextExists, LoadRegistration, NotRegistered, Register, RegisterFails,
        RegisterIncomplete, SaveRemoves, SaveOpens, SaveWrites, EnableUrlMissing,
        Construct, ConstructFails
  <2>2. ASSUME NEW c \in Console, Command(c)  PROVE cert' = cert
    BY <2>2 DEF Command, InfoCommand, InfoPrints, InfoFails, InfoIncomplete,
                 PeerCommandTooEarly
  <2>3. CASE ClientCertificate
    BY <2>3, DocumentAssumption
    DEF IInv, CertificateInv, ClientCertificate, CertificateGood, CertificateBad,
        Download, DownloadFails, DownloadIncomplete, Store, NoCertificate
  <2>4. CASE MainStep
    BY <2>4, <2>1, <2>3, MainIsActor
    DEF MainStep, LoadConfig, LoadTornConfig, CreateConfig, WriteConfig, SetupFails,
        StartInterface, AssignInterface, Poll, PollAgain, PollFails, Wake, Listen, InitFails,
        CreateServer, Unverified, Start, StartFails, PeersMalformed
  <2>5. CASE InterfaceListens \/ InterfaceTooEarly \/ Boot \/ Killed \/ \E d \in Id : Enable(d)
    BY <2>5 DEF InterfaceListens, InterfaceTooEarly, Boot, Killed, Enable
  <2> QED  BY <2>1, <2>2, <2>4, <2>5, MainIsActor DEF Next
<1> QED  BY AlwaysIInv, <1>1, PTL DEF Spec, CertificateKept

(* The most steps that the main thread has before it until it serves, given  *)
(* where it is and its loop counter.                                         *)
Left(label, r) ==
  CASE label = "serving" -> 0
    [] label = "start" -> 1
    [] label = "load" -> 2
    [] label = "store" -> 3 * (MaxRetries - r) + 1
    [] label = "download" -> 3 * (MaxRetries - r) + 2
    [] label = "certificate" -> 3 * (MaxRetries - r) + 3
    [] label = "listen" -> 3 * MaxRetries + 4
    [] label = "poll" -> 3 * MaxRetries + 5
    [] label = "sleep" -> 3 * MaxRetries + 6
    [] label = "construct" -> 3 * MaxRetries + 7
    [] label = "write" -> 3 * MaxRetries + 8
    [] label = "open" -> 3 * MaxRetries + 9
    [] label = "save" -> 3 * MaxRetries + 10
    [] label = "register" -> 3 * MaxRetries + 11
    [] label = "dev_ctx" -> 3 * MaxRetries + 12
    [] label = "assign" -> 3 * MaxRetries + 13
    [] label = "api" -> 3 * MaxRetries + 14
    [] label = "write_config" -> 3 * MaxRetries + 15
    [] label = "config" -> 3 * MaxRetries + 16

(* A start is bounded: as long as the process lives, every move of the main  *)
(* thread is one of a fixed number, retries included, and nothing that the   *)
(* consoles do sets it back.  Only a poll sends it back to sleep, when the   *)
(* answer is not that of an enabled device (device_context.cc:34-95,         *)
(* p2p_server_context.cc:63-66).                                             *)
StartAdvances ==
  [][pc[Main] # "idle" /\ pc'[Main] # "idle" =>
       \/ pc'[Main] = pc[Main] /\ retries' = retries
       \/ Left(pc'[Main], retries') < Left(pc[Main], retries)
       \/ pc[Main] = "poll" /\ pc'[Main] = "sleep"]_vars

(* Every start of the daemon is bounded but for its polls, whatever the      *)
(* number of retries and of consoles: with fairness this is StartSettles.    *)
THEOREM StartIsBounded == Spec => StartAdvances
<1> DEFINE
      Sleeps == pc[Main] = "poll" /\ pc'[Main] = "sleep"
      Advance == pc[Main] # "idle" /\ pc'[Main] # "idle" =>
                   \/ pc'[Main] = pc[Main] /\ retries' = retries
                   \/ Left(pc'[Main], retries') < Left(pc[Main], retries)
                   \/ Sleeps
<1>1. IInv /\ [Next]_vars => [Advance]_vars
  <2> SUFFICES ASSUME IInv, Next  PROVE Advance
    OBVIOUS
  <2>m. Main \in Actor /\ Console \subseteq Actor /\ Main \notin Console  BY MainIsActor
  <2>t. /\ pc \in [Actor -> Label] /\ retries \in 0 .. MaxRetries /\ MaxRetries \in Nat
        /\ retries \in Nat /\ retries <= MaxRetries
    BY RetriesAssumption DEF IInv, TypeOK
  <2>0. ASSUME NEW cause, Die(cause)  PROVE Advance
    BY <2>0, <2>m DEF Die
  <2>1. ASSUME NEW label, Goto(Main, label)  PROVE pc'[Main] = label
    BY <2>1, <2>m, <2>t DEF Goto
  <2>2. ASSUME NEW a \in Actor, a # Main, NEW label, Goto(a, label), retries' = retries
        PROVE  Advance
    BY <2>2, <2>m, <2>t DEF Goto
  <2>3. ASSUME DevCtx(Main)  PROVE Advance
    <3>1. CASE RegisterFails(Main) \/ RegisterIncomplete(Main) \/ EnableUrlMissing(Main)
               \/ ConstructFails(Main)
      BY <3>1, <2>0 DEF RegisterFails, RegisterIncomplete, EnableUrlMissing, ConstructFails
    <3>2. CASE ContextExists(Main)
      BY <3>2, <2>1, <2>t DEF ContextExists, AfterDevCtx, control, Left
    <3>3. CASE LoadRegistration(Main)
      BY <3>3, <2>1, <2>t DEF LoadRegistration, control, Left
    <3>4. CASE NotRegistered(Main)
      BY <3>4, <2>1, <2>t DEF NotRegistered, control, Left
    <3>5. CASE Register(Main)
      BY <3>5, <2>1, <2>t DEF Register, control, Left
    <3>6. CASE SaveRemoves(Main)
      BY <3>6, <2>1, <2>t DEF SaveRemoves, control, Left
    <3>7. CASE SaveOpens(Main)
      BY <3>7, <2>1, <2>t DEF SaveOpens, control, Left
    <3>8. CASE SaveWrites(Main)
      BY <3>8, <2>1, <2>t DEF SaveWrites, control, Left
    <3>9. CASE Construct(Main)
      BY <3>9, <2>1, <2>t DEF Construct, AfterDevCtx, control, Left
    <3> QED
      BY <2>3, <3>1, <3>2, <3>3, <3>4, <3>5, <3>6, <3>7, <3>8, <3>9 DEF DevCtx
  <2>4. ASSUME NEW c \in Console, DevCtx(c)  PROVE Advance
    <3>0. c \in Actor /\ c # Main  BY <2>m
    <3>1. CASE RegisterFails(c) \/ RegisterIncomplete(c) \/ EnableUrlMissing(c)
               \/ ConstructFails(c)
      BY <3>1, <2>0 DEF RegisterFails, RegisterIncomplete, EnableUrlMissing, ConstructFails
    <3> QED
      BY <2>4, <3>0, <3>1, <2>2
      DEF DevCtx, ContextExists, LoadRegistration, NotRegistered, Register, SaveRemoves,
          SaveOpens, SaveWrites, Construct, control
  <2>5. ASSUME NEW c \in Console, Command(c)  PROVE Advance
    <3>0. c \in Actor /\ c # Main  BY <2>m
    <3>1. CASE InfoFails(c) \/ InfoIncomplete(c) \/ PeerCommandTooEarly(c)
      BY <3>1, <2>0 DEF InfoFails, InfoIncomplete, PeerCommandTooEarly
    <3> QED
      BY <2>5, <3>0, <3>1, <2>2 DEF Command, InfoCommand, InfoPrints, control
  <2>6. CASE ClientCertificate
    <3>1. CASE NoCertificate \/ DownloadIncomplete
      BY <3>1, <2>0 DEF NoCertificate, DownloadIncomplete
    <3>2. CASE CertificateGood
      BY <3>2, <2>1, <2>t DEF CertificateGood, control, Left
    <3>3. CASE CertificateBad
      BY <3>3, <2>1, <2>t DEF CertificateBad, control, Left
    <3>4. CASE Download
      <4>1. pc[Main] = "download" /\ Goto(Main, "store") /\ retries' = retries
        BY <3>4 DEF Download, control
      <4> QED  BY <4>1, <2>1, <2>t DEF Left
    <3>5. CASE DownloadFails
      BY <3>5, <2>1, <2>t DEF DownloadFails, IInv, CertificateInv, Left
    <3>6. CASE Store
      BY <3>6, <2>1, <2>t DEF Store, IInv, CertificateInv, Left
    <3> QED  BY <2>6, <3>1, <3>2, <3>3, <3>4, <3>5, <3>6 DEF ClientCertificate
  <2>7. CASE LoadConfig \/ CreateConfig \/ WriteConfig \/ StartInterface \/ AssignInterface
    BY <2>7, <2>1, <2>t
    DEF LoadConfig, CreateConfig, WriteConfig, StartInterface, AssignInterface, control, Left
  <2>8. CASE LoadTornConfig \/ SetupFails \/ PollFails \/ InitFails \/ StartFails
             \/ Unverified \/ PeersMalformed \/ InterfaceTooEarly \/ Killed
    BY <2>8, <2>0
    DEF Unverified, PeersMalformed, LoadTornConfig, SetupFails, PollFails, InitFails,
        StartFails, InterfaceTooEarly, Killed
  <2>9. CASE Poll
    BY <2>9, <2>1, <2>t DEF Poll, control, Left
  <2>13. CASE PollAgain
    BY <2>13, <2>1 DEF PollAgain
  <2>10. CASE Wake \/ Listen \/ CreateServer \/ Start
    BY <2>10, <2>1, <2>t DEF Wake, Listen, CreateServer, Start, control, Left
  <2>11. CASE Boot
    BY <2>11 DEF Boot, Up
  <2>12. CASE InterfaceListens \/ \E d \in Id : Enable(d)
    BY <2>12 DEF InterfaceListens, Enable, control
  <2> QED
    BY <2>3, <2>4, <2>5, <2>6, <2>7, <2>8, <2>9, <2>10, <2>11, <2>12, <2>13
    DEF Next, MainStep
<1> QED  BY AlwaysIInv, <1>1, PTL DEF Spec, StartAdvances

------------------------------------------------------------------------------
(* The certificate's Base64 text: decode inverts the encoding of RFC 4648    *)
(* for every text.  Integer division is left to the arithmetic of the SMT    *)
(* solver, on bounds that are stated as inequalities.                        *)

(* Every nonempty set of naturals has a least element.  It stands in for     *)
(* induction: the first group that decode would get wrong cannot be.         *)
LEMMA LeastElement ==
  ASSUME NEW T \in SUBSET Nat, T # {}
  PROVE  \E n \in T : \A m \in T : n <= m
<1>1. PICK n \in T : \A m \in T : ~(<<m, n>> \in OpToRel(<, Nat))
  BY WFMin, NatLessThanWellFounded, Zenon
<1>2. \A m \in T : ~(m < n)
  BY <1>1, Zenon DEF OpToRel
<1> QED BY <1>2

(* One unfolding of the recursive function that FlattenSeq is defined by.    *)
FlattenStep(s, g) == [i \in 1 .. Len(s) |-> IF i = 1 THEN s[i] ELSE g[i-1] \o s[i]]

(* That recursion has at most one solution: two would differ first at some   *)
(* index, where both are given by the equal values before it.                *)
LEMMA FlattenStepUnique ==
  ASSUME NEW s, Len(s) \in Nat, NEW f, f = FlattenStep(s, f), NEW g, g = FlattenStep(s, g)
  PROVE  f = g
<1> DEFINE T == {i \in 1 .. Len(s) : f[i] # g[i]}
<1>0. /\ f = [i \in 1 .. Len(s) |-> f[i]]
      /\ g = [i \in 1 .. Len(s) |-> g[i]]
  BY DEF FlattenStep
<1>1. SUFFICES ASSUME T # {} PROVE FALSE
  BY <1>0
<1>2. T \in SUBSET Nat OBVIOUS
<1>3. PICK n \in T : \A m \in T : n <= m
    <2> HIDE DEF T
    <2> QED BY <1>1, <1>2, LeastElement
<1>4. n \in 1 .. Len(s) /\ f[n] # g[n] OBVIOUS
<1>5. f[n] = IF n = 1 THEN s[n] ELSE f[n-1] \o s[n] BY <1>4 DEF FlattenStep
<1>6. g[n] = IF n = 1 THEN s[n] ELSE g[n-1] \o s[n] BY <1>4 DEF FlattenStep
<1>7. n # 1 BY <1>4, <1>5, <1>6
<1>8. f[n-1] = g[n-1] BY <1>3, <1>4, <1>7
<1> QED BY <1>4, <1>5, <1>6, <1>7, <1>8

(* So any solution of the recursion gives what FlattenSeq returns.           *)
LEMMA FlattenedBy ==
  ASSUME NEW s, Len(s) \in Nat, Len(s) # 0, NEW f, f = FlattenStep(s, f)
  PROVE  FlattenSeq(s) = f[Len(s)]
<1> DEFINE ff == CHOOSE g : g = FlattenStep(s, g)
<1>1. ff = FlattenStep(s, ff) OBVIOUS
<1>3. FlattenSeq(s) = ff[Len(s)]
  BY DEF FlattenSeq, FlattenStep
<1> HIDE DEF ff
<1> QED BY <1>1, <1>3, FlattenStepUnique

(* The concatenations that Group builds its one to three bytes with.         *)
LEMMA ShortConcat ==
  ASSUME NEW x, NEW y, NEW z
  PROVE  /\ <<x>> \o << >> = <<x>>
         /\ <<x>> \o <<y>> = <<x, y>>
         /\ <<x, y>> \o << >> = <<x, y>>
         /\ <<x, y>> \o <<z>> = <<x, y, z>>
<1> DEFINE S == {x, y, z}
<1>1. /\ <<x>> \in Seq(S) /\ Len(<<x>>) = 1
      /\ <<y>> \in Seq(S) /\ Len(<<y>>) = 1
      /\ <<z>> \in Seq(S) /\ Len(<<z>>) = 1
      /\ <<x, y>> \in Seq(S) /\ Len(<<x, y>>) = 2
      /\ <<x, y, z>> \in Seq(S) /\ Len(<<x, y, z>>) = 3
  OBVIOUS
<1>2. <<x>> \o <<y>> = <<x, y>>
  <2> DEFINE u == <<x>> \o <<y>>
  <2>1. u \in Seq(S) /\ Len(u) = 2 BY <1>1, ConcatProperties
  <2>2. u[1] = x /\ u[2] = y BY <1>1, ConcatProperties
  <2>3. \A i \in 1 .. Len(u) : u[i] = <<x, y>>[i]
    <3> TAKE i \in 1 .. Len(u)
    <3>1. i = 1 \/ i = 2 BY <2>1
    <3> QED BY <2>2, <3>1
  <2> QED BY <1>1, <2>1, <2>3, SeqEqual
<1>3. <<x, y>> \o <<z>> = <<x, y, z>>
  <2> DEFINE u == <<x, y>> \o <<z>>
  <2>1. u \in Seq(S) /\ Len(u) = 3 BY <1>1, ConcatProperties
  <2>2. u[1] = x /\ u[2] = y /\ u[3] = z BY <1>1, ConcatProperties
  <2>3. \A i \in 1 .. Len(u) : u[i] = <<x, y, z>>[i]
    <3> TAKE i \in 1 .. Len(u)
    <3>1. i = 1 \/ i = 2 \/ i = 3 BY <2>1
    <3> QED BY <2>2, <3>1
  <2> QED BY <1>1, <2>1, <2>3, SeqEqual
<1>4. <<x>> \o << >> = <<x>> BY <1>1, ConcatEmptySeq
<1>5. <<x, y>> \o << >> = <<x, y>> BY <1>1, ConcatEmptySeq
<1> QED BY <1>2, <1>3, <1>4, <1>5

(* The three bytes of a group, and the four sextets that they are split into *)
Bytes(a, b, c) ==
  /\ a \in Int /\ 0 <= a /\ a <= 255
  /\ b \in Int /\ 0 <= b /\ b <= 255
  /\ c \in Int /\ 0 <= c /\ c <= 255

SplitInto(a, b, c, c0, c1, c2, c3) ==
  /\ c0 = a \div 4
  /\ c1 = (a % 4) * 16 + (b \div 16)
  /\ c2 = (b % 16) * 4 + (c \div 64)
  /\ c3 = c % 64

(* The six-bit fields of the 24-bit number are that split of its bytes.      *)
LEMMA SextetsOfBytes ==
  ASSUME NEW a, NEW b, NEW c, Bytes(a, b, c)
  PROVE  LET n == 65536 * a + 256 * b + c
         IN  SplitInto(a, b, c, Sextet(n, 0), Sextet(n, 1), Sextet(n, 2), Sextet(n, 3))
<1> DEFINE n == 65536 * a + 256 * b + c
<1>1. (n \div 262144) % 64 = a \div 4 BY DEF Bytes
<1>2. (n \div 4096) % 64 = (a % 4) * 16 + (b \div 16) BY DEF Bytes
<1>3. (n \div 64) % 64 = (b % 16) * 4 + (c \div 64) BY DEF Bytes
<1>4. n % 64 = c % 64 BY DEF Bytes
<1>5. n \in Nat BY DEF Bytes
<1> HIDE DEF n
<1>6. /\ Sextet(n, 0) = (n \div 262144) % 64
      /\ Sextet(n, 1) = (n \div 4096) % 64
      /\ Sextet(n, 2) = (n \div 64) % 64
      /\ Sextet(n, 3) = n % 64
  BY <1>5 DEF Sextet
<1>7. SplitInto(a, b, c, Sextet(n, 0), Sextet(n, 1), Sextet(n, 2), Sextet(n, 3))
  BY <1>1, <1>2, <1>3, <1>4, <1>6 DEF SplitInto
<1> QED BY <1>7 DEF n

(* The shifts of decode put the three bytes together again.                  *)
LEMMA BytesOfSextets ==
  ASSUME NEW a, NEW b, NEW c, NEW c0, NEW c1, NEW c2, NEW c3,
         Bytes(a, b, c), SplitInto(a, b, c, c0, c1, c2, c3)
  PROVE  /\ c0 \in 0 .. 63 /\ c1 \in 0 .. 63 /\ c2 \in 0 .. 63 /\ c3 \in 0 .. 63
         /\ Char(ShiftOr(c0, c1 \div 16)) = a
         /\ Char((c1 % 16) * 16 + (c2 \div 4)) = b
         /\ Char((c2 % 4) * 64 + c3) = c
<1>1. c0 \in 0 .. 63 /\ c1 \in 0 .. 63 /\ c2 \in 0 .. 63 /\ c3 \in 0 .. 63
  BY DEF Bytes, SplitInto
<1>2. Char(ShiftOr(c0, c1 \div 16)) = a
  <2>1. c1 \div 16 = a % 4 BY DEF Bytes, SplitInto
  <2>2. ShiftOr(a \div 4, a % 4) = a BY DEF ShiftOr, Bytes
  <2>3. a % 256 = a BY DEF Bytes
  <2> QED BY <2>1, <2>2, <2>3 DEF Char, SplitInto
<1>3. Char((c1 % 16) * 16 + (c2 \div 4)) = b
  <2>1. c1 % 16 = b \div 16 BY DEF Bytes, SplitInto
  <2>2. c2 \div 4 = b % 16 BY DEF Bytes, SplitInto
  <2>3. ((b \div 16) * 16 + (b % 16)) % 256 = b BY DEF Bytes
  <2> QED BY <2>1, <2>2, <2>3 DEF Char
<1>4. Char((c2 % 4) * 64 + c3) = c
  <2>1. c2 % 4 = c \div 64 BY DEF Bytes, SplitInto
  <2>2. ((c \div 64) * 64 + (c % 64)) % 256 = c BY DEF Bytes
  <2> QED BY <2>1, <2>2 DEF Char, SplitInto
<1> QED BY <1>1, <1>2, <1>3, <1>4

(* A group of decode yields its three bytes, and only the first two or the   *)
(* first one where padding has taken the place of its last characters.       *)
LEMMA GroupOfBytes ==
  ASSUME NEW a, NEW b, NEW c, NEW c0, NEW c1, NEW c2, NEW c3,
         Bytes(a, b, c), SplitInto(a, b, c, c0, c1, c2, c3)
  PROVE  /\ Group(c0, c1, c2, c3) = <<a, b, c>>
         /\ Group(c0, c1, c2, Invalid) = <<a, b>>
         /\ Group(c0, c1, Invalid, Invalid) = <<a>>
<1> DEFINE x == Char(ShiftOr(c0, c1 \div 16))
           y == Char((c1 % 16) * 16 + (c2 \div 4))
           z == Char((c2 % 4) * 64 + c3)
<1>1. x = a /\ y = b /\ z = c /\ c2 # Invalid /\ c3 # Invalid
  BY BytesOfSextets DEF Invalid
<1>2. /\ Group(c0, c1, c2, c3) =
           <<x>> \o (IF c2 # Invalid THEN <<y>> ELSE << >>) \o (IF c3 # Invalid THEN <<z>> ELSE << >>)
      /\ Group(c0, c1, c2, Invalid) =
           <<x>> \o (IF c2 # Invalid THEN <<y>> ELSE << >>) \o << >>
      /\ Group(c0, c1, Invalid, Invalid) = <<x>> \o << >> \o << >>
  BY Zenon DEF Group
<1> HIDE DEF x, y, z
<1>3. Group(c0, c1, c2, c3) = <<a>> \o <<b>> \o <<c>> BY <1>1, <1>2, Zenon
<1>4. Group(c0, c1, c2, Invalid) = <<a>> \o <<b>> \o << >> BY <1>1, <1>2, Zenon
<1>5. Group(c0, c1, Invalid, Invalid) = <<a>> \o << >> \o << >> BY <1>1, <1>2, Zenon
<1> QED BY <1>3, <1>4, <1>5, ShortConcat, Zenon

(* kDecodingTable inverts the alphabet, and the padding is not part of it.   *)
LEMMA TableInverts ==
  /\ \A i \in 0 .. 63 : kDecodingTable(Alphabet[i]) = i
  /\ kDecodingTable(Pad) = Invalid
<1>1. ASSUME NEW i \in 0 .. 63 PROVE kDecodingTable(Alphabet[i]) = i
  <2>1. CASE i < 26
    <3>1. Alphabet[i] = 65 + i BY <2>1 DEF Alphabet
    <3> QED BY <3>1, <2>1 DEF kDecodingTable
  <2>2. CASE i \in 26 .. 51
    <3>1. Alphabet[i] = 71 + i BY <2>2 DEF Alphabet
    <3> QED BY <3>1, <2>2 DEF kDecodingTable
  <2>3. CASE i \in 52 .. 61
    <3>1. Alphabet[i] = i - 4 BY <2>3 DEF Alphabet
    <3> QED BY <3>1, <2>3 DEF kDecodingTable
  <2>4. CASE i = 62
    <3>1. Alphabet[i] = 43 BY <2>4 DEF Alphabet
    <3> QED BY <3>1, <2>4 DEF kDecodingTable
  <2>5. CASE i = 63
    <3>1. Alphabet[i] = 47 BY <2>5 DEF Alphabet
    <3> QED BY <3>1, <2>5 DEF kDecodingTable
  <2> QED BY <2>1, <2>2, <2>3, <2>4, <2>5
<1>2. kDecodingTable(61) = Invalid BY DEF kDecodingTable
<1> QED BY <1>1, <1>2 DEF Pad

(* The bytes of the text that the first g groups hold.                       *)
Upto(text, g) == IF 3 * g <= Len(text) THEN 3 * g ELSE Len(text)

(* What decode makes of the g-th group of an encoded text, for the three     *)
(* ways in which the text can end.                                           *)
LEMMA GroupDecodes ==
  ASSUME NEW text \in Seq(Byte), NEW g \in 1 .. Groups(text)
  PROVE  DecodedGroup(Encoded(text), g) =
           CASE 3 * g <= Len(text) -> <<text[3 * g - 2], text[3 * g - 1], text[3 * g]>>
             [] 3 * g = Len(text) + 1 -> <<text[3 * g - 2], text[3 * g - 1]>>
             [] 3 * g = Len(text) + 2 -> <<text[3 * g - 2]>>
<1> DEFINE n  == Len(text)
           G  == Groups(text)
           a  == ByteAt(text, 3 * g - 2)
           b  == ByteAt(text, 3 * g - 1)
           c  == ByteAt(text, 3 * g)
           N  == Number(text, g)
           e(k) == Encoded(text)[4 * g - 3 + k]
           last == 4 * G - Padding(text)
<1>n. n \in Nat /\ \A i \in 1 .. n : text[i] \in Byte OBVIOUS
<1>g. G \in Nat /\ 3 * G >= n /\ 3 * G <= n + 2 /\ g \in Nat /\ 1 <= g /\ g <= G
  BY <1>n DEF Groups
<1>p. Padding(text) = 3 * G - n
  <2>1. \A m \in Nat : (3 - (m % 3)) % 3 = 3 * ((m + 2) \div 3) - m OBVIOUS
  <2> QED BY <2>1, <1>n DEF Padding, Groups
<1>l. last = G + n /\ G \in Nat
  <2> HIDE DEF G, n
  <2> QED BY <1>n, <1>g, <1>p
<1>h. G = Groups(text) /\ n = Len(text) OBVIOUS
<1> HIDE DEF G, last
<1>1. 3 * g <= n + 2 BY <1>n, <1>g
<1>2. a \in Byte /\ b \in Byte /\ c \in Byte
  BY <1>n, <1>g DEF ByteAt, Byte
<1>3. N = 65536 * a + 256 * b + c BY DEF Number
<1> HIDE DEF a, b, c, N
<1>4. N \in Nat BY <1>2, <1>3 DEF Byte
<1>5. \A k \in 0 .. 3 : e(k) = IF 4 * g - 3 + k > last THEN Pad ELSE Alphabet[Sextet(N, k)]
  <2> TAKE k \in 0 .. 3
  <2> DEFINE j == 4 * g - 3 + k
  <2>1. j \in 1 .. 4 * Groups(text) BY <1>g, <1>h
  <2>2. (j - 1) \div 4 + 1 = g /\ (j - 1) % 4 = k BY <1>g
  <2>3. Encoded(text)[j] = IF j > last THEN Pad
                           ELSE Alphabet[Sextet(Number(text, ((j - 1) \div 4) + 1), (j - 1) % 4)]
    BY <2>1 DEF Encoded, last, G
  <2> QED BY <2>2, <2>3 DEF N
<1> DEFINE c0 == Sextet(N, 0)
           c1 == Sextet(N, 1)
           c2 == Sextet(N, 2)
           c3 == Sextet(N, 3)
<1> HIDE DEF c0, c1, c2, c3
<1>6. Bytes(a, b, c) /\ SplitInto(a, b, c, c0, c1, c2, c3)
  <2>1. Bytes(a, b, c) BY <1>2 DEF Bytes, Byte
  <2> QED BY <2>1, <1>3, SextetsOfBytes DEF c0, c1, c2, c3
<1>7. c0 \in 0 .. 63 /\ c1 \in 0 .. 63 /\ c2 \in 0 .. 63 /\ c3 \in 0 .. 63
  BY <1>6, BytesOfSextets
<1>9. /\ Group(c0, c1, c2, c3) = <<a, b, c>>
      /\ Group(c0, c1, c2, Invalid) = <<a, b>>
      /\ Group(c0, c1, Invalid, Invalid) = <<a>>
  BY <1>6, GroupOfBytes
<1>10. DecodedGroup(Encoded(text), g) =
         Group(kDecodingTable(e(0)), kDecodingTable(e(1)), kDecodingTable(e(2)), kDecodingTable(e(3)))
  BY <1>g DEF DecodedGroup
<1> HIDE DEF e
<1>11. CASE 3 * g <= n
  <2>1. 4 * g <= last BY <1>11, <1>l, <1>g, <1>n
  <2>2. /\ e(0) = Alphabet[c0] /\ e(1) = Alphabet[c1] /\ e(2) = Alphabet[c2]
        /\ e(3) = Alphabet[c3]
    BY <1>5, <2>1, <1>g, <1>l, <1>n DEF c0, c1, c2, c3
  <2>3. /\ kDecodingTable(e(0)) = c0
        /\ kDecodingTable(e(1)) = c1
        /\ kDecodingTable(e(2)) = c2
        /\ kDecodingTable(e(3)) = c3
    BY <2>2, <1>7, TableInverts
  <2>4. a = text[3 * g - 2] /\ b = text[3 * g - 1] /\ c = text[3 * g]
    BY <1>11, <1>g DEF a, b, c, ByteAt
  <2> QED BY <2>3, <2>4, <1>9, <1>10, <1>11
<1>12. CASE 3 * g = n + 1
  <2>1. g = G /\ last = 4 * g - 1 BY <1>12, <1>l, <1>g, <1>n
  <2>2. /\ e(0) = Alphabet[c0] /\ e(1) = Alphabet[c1] /\ e(2) = Alphabet[c2]
        /\ e(3) = Pad
    BY <1>5, <2>1, <1>g DEF c0, c1, c2
  <2>3. /\ kDecodingTable(e(0)) = c0
        /\ kDecodingTable(e(1)) = c1
        /\ kDecodingTable(e(2)) = c2
        /\ kDecodingTable(e(3)) = Invalid
    BY <2>2, <1>7, TableInverts
  <2>4. a = text[3 * g - 2] /\ b = text[3 * g - 1]
    BY <1>12, <1>g, <1>n DEF a, b, ByteAt
  <2> QED BY <2>3, <2>4, <1>9, <1>10, <1>12, <1>n, <1>g
<1>13. CASE 3 * g = n + 2
  <2>1. g = G /\ last = 4 * g - 2 BY <1>13, <1>l, <1>g, <1>n
  <2>2. /\ e(0) = Alphabet[c0] /\ e(1) = Alphabet[c1]
        /\ e(2) = Pad /\ e(3) = Pad
    BY <1>5, <2>1, <1>g DEF c0, c1
  <2>3. /\ kDecodingTable(e(0)) = c0
        /\ kDecodingTable(e(1)) = c1
        /\ kDecodingTable(e(2)) = Invalid
        /\ kDecodingTable(e(3)) = Invalid
    BY <2>2, <1>7, TableInverts
  <2>4. a = text[3 * g - 2]
    BY <1>13, <1>g, <1>n DEF a, ByteAt
  <2> QED BY <2>3, <2>4, <1>9, <1>10, <1>13, <1>n, <1>g
<1> QED BY <1>1, <1>11, <1>12, <1>13, <1>n, <1>g

(* The slices of one to three elements.                                      *)
LEMMA ShortSubSeq ==
  ASSUME NEW S, NEW s \in Seq(S), NEW m \in 1 .. Len(s)
  PROVE  /\ SubSeq(s, m, m) = <<s[m]>>
         /\ m + 1 <= Len(s) => SubSeq(s, m, m + 1) = <<s[m], s[m + 1]>>
         /\ m + 2 <= Len(s) => SubSeq(s, m, m + 2) = <<s[m], s[m + 1], s[m + 2]>>
<1>0. Len(s) \in Nat /\ \A i \in 1 .. Len(s) : s[i] \in S OBVIOUS
<1>1. SubSeq(s, m, m) = <<s[m]>>
  <2>1. SubSeq(s, m, m) = <<s[m]>> \o SubSeq(s, m + 1, m) BY <1>0, SubSeqRecursiveFirst
  <2>2. SubSeq(s, m + 1, m) = << >> BY <1>0, SubSeqEmpty
  <2> QED BY <2>1, <2>2, ShortConcat
<1>2. ASSUME m + 1 <= Len(s) PROVE SubSeq(s, m, m + 1) = <<s[m], s[m + 1]>>
  <2>1. SubSeq(s, m, m + 1) = SubSeq(s, m, (m + 1) - 1) \o <<s[m + 1]>>
    BY <1>0, <1>2, SubSeqRecursiveSecond
  <2>2. (m + 1) - 1 = m OBVIOUS
  <2> QED BY <1>1, <2>1, <2>2, ShortConcat
<1>3. ASSUME m + 2 <= Len(s) PROVE SubSeq(s, m, m + 2) = <<s[m], s[m + 1], s[m + 2]>>
  <2>1. SubSeq(s, m, m + 2) = SubSeq(s, m, (m + 2) - 1) \o <<s[m + 2]>>
    BY <1>0, <1>3, SubSeqRecursiveSecond
  <2>2. (m + 2) - 1 = m + 1 OBVIOUS
  <2>3. m + 1 <= Len(s) BY <1>0, <1>3
  <2> QED BY <1>2, <2>1, <2>2, <2>3, ShortConcat
<1> QED BY <1>1, <1>2, <1>3

(* The g-th group decodes to the text's own bytes of that group.             *)
LEMMA GroupIsSubSeq ==
  ASSUME NEW text \in Seq(Byte), NEW g \in 1 .. Groups(text)
  PROVE  DecodedGroup(Encoded(text), g) = SubSeq(text, 3 * g - 2, Upto(text, g))
<1> DEFINE n == Len(text)
<1>1. n \in Nat /\ g \in Nat /\ 1 <= g /\ 3 * g <= n + 2
  <2>1. n \in Nat OBVIOUS
  <2>2. 3 * ((n + 2) \div 3) <= n + 2 /\ (n + 2) \div 3 \in Nat BY <2>1
  <2> QED BY <2>1, <2>2 DEF Groups
<1>2. 3 * g - 2 \in 1 .. n BY <1>1
<1>3. CASE 3 * g <= n
  <2>1. Upto(text, g) = (3 * g - 2) + 2 /\ (3 * g - 2) + 1 = 3 * g - 1 /\ (3 * g - 2) + 2 = 3 * g
    BY <1>1, <1>3 DEF Upto
  <2>2. DecodedGroup(Encoded(text), g) = <<text[3 * g - 2], text[3 * g - 1], text[3 * g]>>
    BY <1>3, GroupDecodes
  <2> QED BY <1>1, <1>2, <1>3, <2>1, <2>2, ShortSubSeq
<1>4. CASE 3 * g = n + 1
  <2>1. Upto(text, g) = (3 * g - 2) + 1 /\ (3 * g - 2) + 1 = 3 * g - 1 /\ ~(3 * g <= n)
    BY <1>1, <1>4 DEF Upto
  <2>2. DecodedGroup(Encoded(text), g) = <<text[3 * g - 2], text[3 * g - 1]>>
    BY <1>4, <2>1, GroupDecodes
  <2> QED BY <1>1, <1>2, <1>4, <2>1, <2>2, ShortSubSeq
<1>5. CASE 3 * g = n + 2
  <2>1. Upto(text, g) = 3 * g - 2 /\ ~(3 * g <= n) /\ 3 * g # n + 1
    BY <1>1, <1>5 DEF Upto
  <2>2. DecodedGroup(Encoded(text), g) = <<text[3 * g - 2]>>
    BY <1>5, <2>1, GroupDecodes
  <2> QED BY <1>1, <1>2, <1>5, <2>1, <2>2, ShortSubSeq
<1> QED BY <1>1, <1>3, <1>4, <1>5

(* Base64::decode gives back every text, of any length and of any bytes,     *)
(* from its RFC 4648 encoding: the first g groups decode to the first 3g     *)
(* bytes, for every g.                                                       *)
THEOREM CertificateDecodes ==
  ASSUME NEW text \in Seq(Byte) PROVE decode(Encoded(text)) = text
<1> DEFINE n == Len(text)
           G == Groups(text)
           s == [g \in 1 .. G |-> DecodedGroup(Encoded(text), g)]
           f == [g \in 1 .. G |-> SubSeq(text, 1, Upto(text, g))]
<1>1. n \in Nat /\ G \in Nat /\ 3 * G >= n /\ 3 * G <= n + 2
  <2>1. n \in Nat OBVIOUS
  <2> QED BY <2>1 DEF Groups
<1>2. decode(Encoded(text)) = FlattenSeq(s)
  <2>1. Len(Encoded(text)) = 4 * G BY <1>1 DEF Encoded
  <2>2. Len(Encoded(text)) \div 4 = G
    <3> HIDE DEF G
    <3> QED BY <1>1, <2>1
  <2> QED BY <2>2 DEF decode
<1>3. Len(s) = G BY <1>1
<1>4. CASE G = 0
  <2>1. text = << >> BY <1>4, <1>1
  <2>2. FlattenSeq(s) = s BY <1>3, <1>4 DEF FlattenSeq
  <2> QED BY <1>2, <2>1, <2>2, <1>4
<1>5. CASE G # 0
  <2>1. ASSUME NEW g \in 1 .. G
        PROVE  f[g] = IF g = 1 THEN s[g] ELSE f[g - 1] \o s[g]
    <3> DEFINE m == Upto(text, g)
    <3>1. g \in Nat /\ 1 <= g /\ g <= G BY <1>1
    <3>2. m \in 3 * g - 3 .. n
      <4> HIDE DEF n, G
      <4> QED BY <1>1, <3>1 DEF Upto, n
    <3>3. f[g] = SubSeq(text, 1, m) /\ s[g] = SubSeq(text, 3 * g - 2, m) BY GroupIsSubSeq
    <3>4. CASE g = 1 BY <3>3, <3>4
    <3>5. CASE g # 1
      <4>1. f[g - 1] = SubSeq(text, 1, Upto(text, g - 1)) 
        <5>1. g - 1 \in 1 .. G BY <3>1, <3>5, <1>1
        <5> HIDE DEF G
        <5> QED BY <5>1
      <4>2. Upto(text, g - 1) = 3 * g - 3
        <5> HIDE DEF n, G
        <5> QED BY <1>1, <3>1, <3>5 DEF Upto, n
      <4>3. 3 * g - 3 \in 0 .. n BY <3>1, <3>2, <1>1
      <4>4. SubSeq(text, 1, 3 * g - 3) \o SubSeq(text, (3 * g - 3) + 1, m) = SubSeq(text, 1, m)
        <5> HIDE DEF m
        <5> QED BY <3>2, <4>3, <1>1, ConcatAdjacentSubSeq
      <4>5. (3 * g - 3) + 1 = 3 * g - 2 BY <3>1
      <4> HIDE DEF f, s, m
      <4> QED BY <3>3, <3>5, <4>1, <4>2, <4>4, <4>5
    <3> QED BY <3>4, <3>5
  <2>2. f = FlattenStep(s, f)
    <3>1. f = [g \in 1 .. G |-> f[g]] OBVIOUS
    <3> HIDE DEF f, s
    <3> QED BY <2>1, <3>1, <1>3 DEF FlattenStep
  <2>3. f[G] = text
    <3>1. Upto(text, G) = n
      <4> HIDE DEF n, G
      <4> QED BY <1>1 DEF Upto, n
    <3>2. f[G] = SubSeq(text, 1, Upto(text, G))
      <4>1. G \in 1 .. G BY <1>5, <1>1
      <4> HIDE DEF G
      <4> QED BY <4>1
    <3> QED BY <3>1, <3>2, SubSeqFull
  <2>4. FlattenSeq(s) = f[G]
    <3> HIDE DEF f, s
    <3> QED BY <2>2, <1>3, <1>5, <1>1, FlattenedBy
  <2> QED BY <1>2, <2>3, <2>4
<1> QED BY <1>4, <1>5

(* No document encodes to the empty text, which stands for no download.      *)
LEMMA TextIsNotEmpty ==
  ASSUME NEW d \in Document PROVE d \in Seq(Byte) /\ Encoded(d) # << >>
<1>1. d \in Seq(Byte) /\ d # << >>  BY DocumentAssumption
<1>2. Len(d) \in Nat /\ Len(d) > 0  BY <1>1
<1>3. \A n \in Nat : n > 0 => (n + 2) \div 3 \in Nat /\ (n + 2) \div 3 > 0  OBVIOUS
<1>4. Groups(d) \in Nat /\ Groups(d) > 0  BY <1>2, <1>3 DEF Groups
<1>5. Len(Encoded(d)) = 4 * Groups(d)  BY <1>4 DEF Encoded
<1> QED  BY <1>1, <1>4, <1>5

(* Every document that the management server sends is, byte for byte, what   *)
(* client_certificate then finds in its file and what the P2P server loads,  *)
(* for all documents, whatever else the server sends.                        *)
THEOREM CertificateStoredAsSent == Spec => []StoredAsSent
<1>1. IInv => StoredAsSent
  <2> SUFFICES ASSUME IInv, NEW d \in Document,
                      pc[Main] \in {"certificate"} \union Loaded, sent = Encoded(d)
               PROVE  cert = d
    BY DEF StoredAsSent
  <2>1. sent # << >> /\ decode(sent) = d  BY TextIsNotEmpty, CertificateDecodes
  <2>2. pc[Main] # "store"  BY DEF Loaded
  <2> QED  BY <2>1, <2>2 DEF IInv, SentInv
<1> QED  BY AlwaysIInv, <1>1, PTL
==============================================================================
