--------------------------- MODULE ServiceProofs ---------------------------
(***************************************************************************)
(* Proofs about the life of the process and its two files, for every       *)
(* number of starts.                                                       *)
(***************************************************************************)
EXTENDS Service, TLAPS

(* The key of a start is never without its certificate: it is written      *)
(* after it, and only when there was no pair.  A full pair that was found  *)
(* is never touched.                                                       *)
FilesInv ==
  /\ process = "up" => starts >= 1
  /\ process # "up" => task["smtp"] = "none"
  /\ key >= 1 => cert = key
  /\ task["smtp"] \in {"writingCert", "writingKey"} => key <= 0
  /\ task["smtp"] = "writingCert" => ~(Readable(cert) /\ Readable(key))
  /\ task["smtp"] = "writingKey" => cert = starts
  /\ key = 0 => found[2] = 0
  /\ found[1] = 0 /\ found[2] = 0
       => cert = 0 /\ key = 0 /\ task["smtp"] \notin {"writingCert", "writingKey"}
  /\ task["smtp"] = "configuring" /\ ~KeyFits
       => found[2] = 0 /\ (found[1] # 0 \/ ownKey # "fits")
  /\ RefusalNeedsOwnKey

(* A task that was joined has ended.                                       *)
JoinedInv == process = "up" => \A t \in Task \ set : task[t] \in Over

(* A request is answered only while the web server runs.                   *)
RequestInv == "http" \in connections => task["web"] \in {"serving", "draining"}

ServiceInv == ServiceTypeOK /\ FilesInv /\ JoinedInv /\ RequestInv

LEMMA TaskStates ==
  /\ "smtp" \in Task /\ "storage" \in Task /\ "web" \in Task
  /\ {"none", "starting", "writingCert", "writingKey", "configuring", "binding",
      "serving", "draining", "done", "panicked"} = TaskState
  BY DEF Task, TaskState, Over

LEMMA FileNumbers ==
  /\ Missing \in File /\ Garbage \in File /\ 0 \in File
  /\ File \subseteq Int /\ Missing = -1 /\ Garbage = -2
  /\ \A n \in 0 .. MaxStarts : n \in File
  BY StartsAssumption DEF Missing, Garbage, File

LEMMA ServiceInvInit == ServiceInit => ServiceInv
  <1> SUFFICES ASSUME ServiceInit
               PROVE  ServiceInv
    OBVIOUS
  <1> USE DEF ServiceInit
  <1>1. ServiceTypeOK
    <2>1. task \in [Task -> TaskState] /\ set \in SUBSET Task /\ task["smtp"] = "none"
      BY TaskStates
    <2>2. /\ cert \in File /\ cert <= 0 /\ key \in File /\ key <= 0
          /\ pair \in File \X File /\ found \in File \X File
      BY FileNumbers
    <2>3. starts \in 0 .. MaxStarts
      BY StartsAssumption
    <2>4. QED
      BY <2>1, <2>2, <2>3 DEF ServiceTypeOK, OwnKey
  <1>2. FilesInv
    BY TaskStates, FileNumbers DEF FilesInv, RefusalNeedsOwnKey, KeyFits
  <1>3. JoinedInv /\ RequestInv
    BY DEF JoinedInv, RequestInv
  <1>4. QED
    BY <1>1, <1>2, <1>3 DEF ServiceInv

-----------------------------------------------------------------------------
(* run().                                                                  *)
LEMMA StartStep ==
  ASSUME ServiceInv, Start
  PROVE  ServiceInv'
  <1> USE TaskStates, FileNumbers, StartsAssumption DEF Start, ServiceInv, ownerVars
  <1>1. ServiceTypeOK'
    <2>1. task' \in [Task -> TaskState] /\ set' \in SUBSET Task
      OBVIOUS
    <2>2. task'["smtp"] \in {"binding", "starting"}
      OBVIOUS
    <2>3. starts' \in 0 .. MaxStarts /\ cert' <= starts' /\ key' <= starts'
      BY DEF ServiceTypeOK
    <2>4. pair' \in File \X File
      OBVIOUS
    <2>5. QED
      BY <2>1, <2>2, <2>3, <2>4 DEF ServiceTypeOK
  <1>2. FilesInv'
    BY DEF FilesInv, ServiceTypeOK, RefusalNeedsOwnKey, KeyFits
  <1>3. JoinedInv' /\ RequestInv'
    BY DEF JoinedInv, RequestInv
  <1>4. QED
    BY <1>1, <1>2, <1>3

(* The mail server's files, wherever the process dies.                     *)
LEMMA GoneStep ==
  ASSUME ServiceInv, NEW state \in {"down", "exited"}, Gone(state), exitCode' \in {0, 1}
  PROVE  ServiceInv'
  <1> USE TaskStates, FileNumbers, StartsAssumption DEF Gone, ServiceInv, ownerVars
  <1>1. /\ cert' = cert \/ (cert' = Garbage /\ task["smtp"] = "writingCert")
        /\ key' = key \/ (key' = Garbage /\ task["smtp"] = "writingKey")
    BY DEF CutShort
  <1>2. ServiceTypeOK'
    BY <1>1 DEF ServiceTypeOK
  <1>3. FilesInv'
    BY <1>1 DEF FilesInv, ServiceTypeOK, RefusalNeedsOwnKey, KeyFits
  <1>4. JoinedInv' /\ RequestInv'
    BY DEF JoinedInv, RequestInv
  <1>5. QED
    BY <1>2, <1>3, <1>4

LEMMA MainStep ==
  ASSUME ServiceInv, Signal \/ SleepOver \/ \E t \in Task : JoinNext(t)
  PROVE  ServiceInv'
  <1> USE DEF ServiceInv, fileVars, ownerVars
  <1>1. /\ UNCHANGED <<process, exitCode, starts, cert, key, pair, refused, task, connections,
                        tlsAuth, ownKey, found>>
        /\ token' \in BOOLEAN /\ abort' \in BOOLEAN /\ set' \in SUBSET Task
        /\ \A t \in Task \ set' : t \in set => task[t] \in Over
    BY DEF Signal, SleepOver, JoinNext, ServiceTypeOK
  <1>2. ServiceTypeOK'
    BY <1>1 DEF ServiceTypeOK
  <1>3. FilesInv'
    BY <1>1 DEF FilesInv, RefusalNeedsOwnKey, KeyFits
  <1>4. JoinedInv' /\ RequestInv'
    BY <1>1 DEF JoinedInv, RequestInv
  <1>5. QED
    BY <1>2, <1>3, <1>4

-----------------------------------------------------------------------------
(* The tasks.                                                              *)

(* A task of a running process that goes on has not been joined.           *)
LEMMA GotoJoined ==
  ASSUME ServiceInv, NEW t \in Task, task[t] \notin Over, NEW state \in TaskState,
         Goto(t, state), UNCHANGED <<process, set>>
  PROVE  JoinedInv'
  BY DEF ServiceInv, JoinedInv, Goto, ServiceTypeOK

LEMMA OtherTaskStep ==
  ASSUME ServiceInv, StorageRuns \/ StorageEnds \/ Web
  PROVE  ServiceInv'
  <1> USE TaskStates DEF ServiceInv, processVars, fileVars, ownerVars
  <1>1. PICK t \in {"storage", "web"}, state \in TaskState :
          /\ Goto(t, state) /\ task[t] \in {"starting", "serving", "draining"}
          /\ t = "web" /\ "http" \in connections
               => task[t] = "starting" \/ state = "draining"
    BY DEF StorageRuns, StorageEnds, Web, WebBinds, WebCancelled, WebDrained
  <1>2. UNCHANGED <<processVars, fileVars, connections, ownerVars>>
    BY DEF StorageRuns, StorageEnds, Web, WebBinds, WebCancelled, WebDrained
  <1>3. task' \in [Task -> TaskState] /\ task'["smtp"] = task["smtp"]
    BY <1>1 DEF Goto, ServiceTypeOK
  <1>4. ServiceTypeOK'
    BY <1>2, <1>3 DEF ServiceTypeOK
  <1>5. FilesInv'
    BY <1>2, <1>3 DEF FilesInv, RefusalNeedsOwnKey, KeyFits
  <1>6. task[t] \notin Over
    BY <1>1 DEF Over
  <1>7. RequestInv'
    BY <1>1, <1>2 DEF RequestInv, Goto, ServiceTypeOK
  <1>8. QED
    BY <1>1, <1>2, <1>4, <1>5, <1>6, <1>7, GotoJoined

LEMMA SmtpStep ==
  ASSUME ServiceInv, Smtp
  PROVE  ServiceInv'
  <1> USE TaskStates, FileNumbers, StartsAssumption DEF ServiceInv, processVars, fileVars, ownerVars
  <1>1. PICK state \in TaskState :
          /\ Goto("smtp", state) /\ task["smtp"] \notin Over \cup {"none"}
          /\ state # "none"
    BY DEF Smtp, LoadPair, WriteCert, WriteKey, WriteFails, Configure, SmtpBinds, SmtpEnds, Over
  <1>2. UNCHANGED <<process, exitCode, starts, set, token, abort, connections, ownerVars>>
    BY DEF Smtp, LoadPair, WriteCert, WriteKey, WriteFails, Configure, SmtpBinds, SmtpEnds
  <1>3. task' \in [Task -> TaskState] /\ task'["smtp"] = state
    BY <1>1 DEF Goto, ServiceTypeOK
  <1>4. JoinedInv' /\ RequestInv'
    BY <1>1, <1>2, GotoJoined DEF RequestInv, Goto, ServiceTypeOK
  <1>5. process = "up" /\ starts >= 1 /\ starts \in 0 .. MaxStarts
    BY <1>1 DEF FilesInv, ServiceTypeOK
  <1>6. ASSUME NEW next \in TaskState, Goto("smtp", next)
        PROVE  task'["smtp"] = next
    BY <1>6 DEF Goto, ServiceTypeOK
  <1>7. CASE LoadPair
    BY <1>2, <1>3, <1>4, <1>5, <1>6, <1>7
    DEF LoadPair, ServiceTypeOK, FilesInv, RefusalNeedsOwnKey, KeyFits, Readable
  <1>8. CASE WriteCert
    BY <1>2, <1>3, <1>4, <1>5, <1>6, <1>8
    DEF WriteCert, ServiceTypeOK, FilesInv, RefusalNeedsOwnKey, KeyFits, Readable
  <1>9. CASE WriteKey
    BY <1>2, <1>3, <1>4, <1>5, <1>6, <1>9
    DEF WriteKey, ServiceTypeOK, FilesInv, RefusalNeedsOwnKey, KeyFits, Readable
  <1>10. CASE WriteFails
    <2>1. /\ cert' = cert \/ cert' = Garbage
          /\ key' = key \/ key' = Garbage
      BY <1>10 DEF WriteFails, CutShort
    <2>2. QED
      BY <1>2, <1>3, <1>4, <1>5, <1>6, <1>10, <2>1
      DEF WriteFails, ServiceTypeOK, FilesInv, RefusalNeedsOwnKey, KeyFits, Readable
  <1>11. CASE Configure
    BY <1>2, <1>3, <1>4, <1>5, <1>6, <1>11
    DEF Configure, ServiceTypeOK, FilesInv, RefusalNeedsOwnKey, KeyFits, Readable
  <1>12. CASE SmtpBinds \/ SmtpEnds
    BY <1>2, <1>3, <1>4, <1>5, <1>6, <1>12
    DEF SmtpBinds, SmtpEnds, ServiceTypeOK, FilesInv, RefusalNeedsOwnKey, KeyFits, Readable
  <1>13. QED
    BY <1>7, <1>8, <1>9, <1>10, <1>11, <1>12 DEF Smtp

(* The connections.                                                        *)
LEMMA SocketsStep ==
  ASSUME ServiceInv, Sockets
  PROVE  ServiceInv'
  <1> USE DEF ServiceInv, processVars, fileVars, ownerVars
  <1>1. UNCHANGED <<processVars, fileVars, task, ownerVars>>
    BY DEF Sockets, ConnectionOpens, ConnectionUpgrades, ConnectionsEnd
  <1>2. /\ connections' \subseteq connections \cup Connection
        /\ "http" \in connections' => "http" \in connections \/ task["web"] = "serving"
    BY DEF Sockets, ConnectionOpens, ConnectionUpgrades, ConnectionsEnd, Connection
  <1>3. ServiceTypeOK'
    BY <1>1, <1>2 DEF ServiceTypeOK
  <1>4. FilesInv'
    BY <1>1 DEF FilesInv, RefusalNeedsOwnKey, KeyFits
  <1>5. JoinedInv' /\ RequestInv'
    BY <1>1, <1>2 DEF JoinedInv, RequestInv
  <1>6. QED
    BY <1>3, <1>4, <1>5

-----------------------------------------------------------------------------
LEMMA ServiceInvStep == ServiceInv /\ [ServiceNext]_serviceVars => ServiceInv'
  <1> SUFFICES ASSUME ServiceInv, [ServiceNext]_serviceVars
               PROVE  ServiceInv'
    OBVIOUS
  <1>1. CASE UNCHANGED serviceVars
    BY <1>1
    DEF serviceVars, processVars, fileVars, ownerVars, ServiceInv, ServiceTypeOK, FilesInv,
        JoinedInv, RequestInv, RefusalNeedsOwnKey, KeyFits
  <1>2. CASE ExitJoined \/ ExitAborted \/ Crash
    BY <1>2, GoneStep DEF ExitJoined, ExitAborted, Crash, ServiceInv, ServiceTypeOK
  <1>3. QED
    BY <1>1, <1>2, StartStep, MainStep, OtherTaskStep, SmtpStep, SocketsStep
    DEF ServiceNext, Main

(* The process, its tasks and its files are well formed at every step.     *)
THEOREM ServiceTypeCorrect == ServiceSpec => []ServiceTypeOK
  <1>1. ServiceInv => ServiceTypeOK
    BY DEF ServiceInv
  <1>2. QED
    BY <1>1, ServiceInvInit, ServiceInvStep, PTL DEF ServiceSpec, ServiceSafety

(* However often the process dies or fails between the two files: the pair *)
(* it finds is refused only if its owner put a key there that does not fit *)
(* the certificate, or is not in the one format that load_key() keeps.     *)
THEOREM PairSurvivesCrashes == ServiceSpec => []RefusalNeedsOwnKey
  <1>1. ServiceInv => RefusalNeedsOwnKey
    BY DEF ServiceInv, FilesInv
  <1>2. QED
    BY <1>1, ServiceInvInit, ServiceInvStep, PTL DEF ServiceSpec, ServiceSafety

(* A certificate whose key is beside it is never overwritten.              *)
THEOREM CertificateStays == ServiceSpec => PairIsKept
  <1>1. ASSUME ServiceInv, [ServiceNext]_serviceVars, Readable(cert) /\ cert = key
        PROVE  UNCHANGED <<cert, key>>
    <2>1. task["smtp"] \notin {"writingCert", "writingKey"}
      <3>1. cert \in Int /\ starts \in Int
        BY <1>1, FileNumbers DEF ServiceInv, ServiceTypeOK
      <3>2. QED
        BY <1>1, <3>1 DEF ServiceInv, FilesInv, Readable
    <2>2. QED
      BY <1>1, <2>1
      DEF ServiceNext, Main, Start, Signal, SleepOver, JoinNext, ExitJoined, ExitAborted,
          Gone, CutShort, Crash, StorageRuns, StorageEnds, Web, WebBinds, WebCancelled,
          WebDrained, Smtp, LoadPair, WriteCert, WriteKey, WriteFails, Configure, SmtpBinds,
          SmtpEnds, Sockets, ConnectionOpens, ConnectionUpgrades, ConnectionsEnd,
          serviceVars, processVars, fileVars
  <1>2. ServiceInv /\ [ServiceNext]_serviceVars
          => [Readable(cert) /\ cert = key => UNCHANGED <<cert, key>>]_serviceVars
    BY <1>1
  <1>3. QED
    BY <1>2, ServiceInvInit, ServiceInvStep, PTL DEF ServiceSpec, ServiceSafety, PairIsKept

(* An exit with code 0 means that every task of the JoinSet had ended by   *)
(* itself, and cuts no HTTP request short.                                 *)
THEOREM GracefulExitCutsNoRequest == ServiceSpec => GracefulExitWaits
  <1> DEFINE A == process' = "exited" /\ process # "exited" /\ exitCode' = 0
                    => /\ \A t \in Task : task[t] \in Over
                       /\ "http" \notin connections
                       /\ UNCHANGED <<cert, key>>
  <1>1. ASSUME ServiceInv, [ServiceNext]_serviceVars,
               process' = "exited", process # "exited", exitCode' = 0
        PROVE  /\ \A t \in Task : task[t] \in Over
               /\ "http" \notin connections
               /\ UNCHANGED <<cert, key>>
    <2>1. ExitJoined
      BY <1>1
      DEF ServiceNext, Main, Start, Signal, SleepOver, JoinNext, ExitAborted,
          Gone, Crash, StorageRuns, StorageEnds, Web, WebBinds, WebCancelled,
          WebDrained, Smtp, LoadPair, WriteCert, WriteKey, WriteFails, Configure, SmtpBinds,
          SmtpEnds, Sockets, ConnectionOpens, ConnectionUpgrades, ConnectionsEnd,
          serviceVars, processVars
    <2>2. \A t \in Task : task[t] \in Over
      BY <1>1, <2>1 DEF ExitJoined, Gone, ServiceInv, JoinedInv
    <2>3. UNCHANGED <<cert, key>>
      BY <2>1, <2>2, TaskStates DEF ExitJoined, Gone, CutShort, Over
    <2>4. "http" \notin connections
      BY <1>1, <2>2, TaskStates DEF ServiceInv, RequestInv, Over
    <2>5. QED
      BY <2>2, <2>3, <2>4
  <1>2. ServiceInv /\ [ServiceNext]_serviceVars => [A]_serviceVars
    BY <1>1
  <1>3. QED
    BY <1>2, ServiceInvInit, ServiceInvStep, PTL
    DEF ServiceSpec, ServiceSafety, GracefulExitWaits
=============================================================================
