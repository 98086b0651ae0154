------------------------------ MODULE Service ------------------------------
(***************************************************************************)
(* The life of the process (run() in backend/src/main.rs): it starts the   *)
(* storage task, the mail server and the web server, waits for all of them *)
(* to end, and on a signal cancels them and gives them five seconds.       *)
(* Beside these tasks run the connections that the two servers accepted,   *)
(* each a task of its own that nobody joins.  What outlives the process    *)
(* are the two files of the TLS certificate (mailcrab/src/smtp/tls.rs),    *)
(* which the mail server reads, or generates and writes one after the      *)
(* other, before it binds its port.                                        *)
(*                                                                         *)
(* The process can be killed at any point, and is started again by its     *)
(* supervisor; the mails are in memory and gone, the files stay.           *)
(***************************************************************************)
EXTENDS Integers

CONSTANT MaxStarts  \* bound: how often the process is started

ASSUME StartsAssumption == MaxStarts \in Nat \ {0}

VARIABLES
  process,    \* "down", "up" or "exited"
  exitCode,   \* of the last exit
  starts,     \* how often the process was started; names the pair a start generates
  task,       \* where each task of the JoinSet is
  set,        \* the JoinSet: the tasks that join_next() has not returned yet
  token,      \* the CancellationToken of the tasks
  abort,      \* abort_token: the five seconds are over
  connections,\* the kinds of which some connection is open
  tlsAuth,    \* ENABLE_TLS_AUTH
  ownKey,     \* what the owner's key, if there is one, is to the owner's certificate
  cert,       \* cert.pem
  key,        \* key.pem
  pair,       \* the certificate and the key the mail server goes on with
  found,      \* history: what the files were before the first start
  refused     \* history: rustls refused the pair

processVars == <<process, exitCode, starts, set, token, abort>>
fileVars    == <<cert, key, pair, refused>>
ownerVars   == <<tlsAuth, ownKey, found>>
serviceVars == <<processVars, fileVars, ownerVars, task, connections>>

Task == {"storage", "smtp", "web"}

\* An HTTP request that is being answered, a websocket, an SMTP session.  The web server
\* watches its HTTP connections until they end or become websockets; the others run on
\* detached from it.
Connection == {"http", "websocket", "smtp"}

\* load_key() strips the label of the key's format and calls it PKCS#8 (tls.rs:41-45).
OwnKey == {"fits", "otherPair", "otherFormat"}

\* join_next() returns Some(Err(_)) for a task that panicked and Some(Ok(_)) for one
\* that is done, be it with an error.
Over == {"done", "panicked"}
TaskState ==
  {"none", "starting", "writingCert", "writingKey", "configuring", "binding",
   "serving", "draining"} \cup Over

\* A file holds what its owner put there (0), what a start generated, or nothing that
\* can be read: it is missing, or it is cut short.
Missing  == -1
Garbage  == -2
Readable(file) == file >= 0
File == {Missing, Garbage} \cup 0 .. MaxStarts

ServiceInit ==
  /\ process = "down" /\ exitCode = 0 /\ starts = 0
  /\ task = [t \in Task |-> "none"] /\ set = {}
  /\ token = FALSE /\ abort = FALSE
  /\ connections = {}
  /\ tlsAuth \in BOOLEAN
  /\ cert \in {Missing, Garbage, 0} /\ key \in {Missing, Garbage, 0}
  /\ pair = <<Missing, Missing>>
  /\ found = <<cert, key>>
  /\ ownKey \in IF key = 0 THEN OwnKey ELSE {"fits"}
  /\ refused = FALSE

-----------------------------------------------------------------------------
(* run() *)

Start ==
  /\ process # "up" /\ starts < MaxStarts
  /\ process' = "up"
  /\ starts' = starts + 1
  /\ task' = [t \in Task |-> IF t = "smtp" /\ ~tlsAuth THEN "binding" ELSE "starting"]
  /\ set' = Task
  /\ token' = FALSE /\ abort' = FALSE
  /\ pair' = <<Missing, Missing>>
  /\ connections' = {}
  /\ UNCHANGED <<exitCode, ownerVars, cert, key, refused>>

\* SIGINT or SIGTERM; a second one changes nothing.
Signal ==
  /\ process = "up" /\ ~token
  /\ token' = TRUE
  /\ UNCHANGED <<process, exitCode, starts, set, abort, fileVars, task, connections, ownerVars>>

\* sleep(5 s) is over.
SleepOver ==
  /\ process = "up" /\ token /\ ~abort
  /\ abort' = TRUE
  /\ UNCHANGED <<process, exitCode, starts, set, token, fileVars, task, connections, ownerVars>>

\* What is left of a file when its writing fails or the process dies in it: writing
\* empties the file first, if it can be opened at all.
CutShort ==
  /\ IF task["smtp"] = "writingCert" THEN cert' \in {cert, Garbage} ELSE UNCHANGED cert
  /\ IF task["smtp"] = "writingKey" THEN key' \in {key, Garbage} ELSE UNCHANGED key

\* The process is gone, and its tasks with it wherever they are.
Gone(state) ==
  /\ process = "up"
  /\ process' = state
  /\ task' = [t \in Task |-> "none"] /\ set' = {} /\ connections' = {}
  /\ CutShort
  /\ UNCHANGED <<starts, token, abort, pair, refused, ownerVars>>

\* Faulty variant: a task that panicked ends the loop.
JoinFirstError(t) ==
  /\ t \in set /\ task[t] \in Over
  /\ set' = IF task[t] = "panicked" THEN {} ELSE set \ {t}
  /\ UNCHANGED <<process, exitCode, starts, token, abort, fileVars, task, connections, ownerVars>>

\* A task has ended, in whatever way: the loop goes on.
JoinNext(t) ==
  /\ t \in set /\ task[t] \in Over
  /\ set' = set \ {t}
  /\ UNCHANGED <<process, exitCode, starts, token, abort, fileVars, task, connections, ownerVars>>

\* join_next() returns None.
ExitJoined == set = {} /\ Gone("exited") /\ exitCode' = 0

\* Faulty variant: nothing is aborted before a task has been joined.
AbortIfJoined ==
  abort /\ set # Task /\ Gone("exited") /\ exitCode' = 1

ExitAborted == abort /\ Gone("exited") /\ exitCode' = 1

-----------------------------------------------------------------------------
(* The tasks. *)

Goto(t, state) == task' = [task EXCEPT ![t] = state]

\* storage(): runs until it is cancelled, unless its purge fails or panics.
StorageRuns ==
  /\ task["storage"] = "starting"
  /\ Goto("storage", "serving")
  /\ UNCHANGED <<processVars, fileVars, connections, ownerVars>>

StorageEnds ==
  /\ task["storage"] = "serving"
  /\ \/ Goto("storage", "done")      \* cancelled, or Err from the purge
     \/ Goto("storage", "panicked")
  /\ UNCHANGED <<processVars, fileVars, connections, ownerVars>>

\* web_server(): the error of bind() is the task's result, which nobody reads.
WebBinds ==
  /\ task["web"] = "starting"
  /\ \E state \in {"serving", "done"} : Goto("web", state)
  /\ UNCHANGED <<processVars, fileVars, connections, ownerVars>>

\* The graceful shutdown takes no new connection.
WebCancelled ==
  /\ task["web"] = "serving" /\ token
  /\ Goto("web", "draining")
  /\ UNCHANGED <<processVars, fileVars, connections, ownerVars>>

\* Faulty variant: the shutdown does not wait.
WebStops ==
  /\ task["web"] = "draining"
  /\ Goto("web", "done")
  /\ UNCHANGED <<processVars, fileVars, connections, ownerVars>>

\* It waits for the requests that are being answered, not for websockets.
WebDrained ==
  /\ task["web"] = "draining" /\ "http" \notin connections
  /\ Goto("web", "done")
  /\ UNCHANGED <<processVars, fileVars, connections, ownerVars>>

-----------------------------------------------------------------------------
(* The mail server: create_tls_acceptor, then serve.  Every error of it is *)
(* logged and ends the task with Ok(()).                                   *)

\* Faulty variant: a pair is generated at every start.
GenerateAlways ==
  /\ task["smtp"] = "starting"
  /\ Goto("smtp", "writingCert")
  /\ UNCHANGED <<processVars, fileVars, connections, ownerVars>>

\* Faulty variant: one of the two files is taken for both.
LoadEither ==
  /\ task["smtp"] = "starting"
  /\ IF Readable(cert) \/ Readable(key)
     THEN Goto("smtp", "configuring") /\ pair' = <<cert, key>>
     ELSE Goto("smtp", "writingCert") /\ UNCHANGED pair
  /\ UNCHANGED <<processVars, cert, key, refused, connections, ownerVars>>

LoadPair ==
  /\ task["smtp"] = "starting"
  /\ IF Readable(cert) /\ Readable(key)
     THEN Goto("smtp", "configuring") /\ pair' = <<cert, key>>
     ELSE Goto("smtp", "writingCert") /\ UNCHANGED pair
  /\ UNCHANGED <<processVars, cert, key, refused, connections, ownerVars>>

WriteCert ==
  /\ task["smtp"] = "writingCert"
  /\ cert' = starts
  /\ Goto("smtp", "writingKey")
  /\ UNCHANGED <<processVars, key, pair, refused, connections, ownerVars>>

WriteKey ==
  /\ task["smtp"] = "writingKey"
  /\ key' = starts
  /\ pair' = <<starts, starts>>
  /\ Goto("smtp", "configuring")
  /\ UNCHANGED <<processVars, cert, refused, connections, ownerVars>>

\* Faulty variant: the mail server goes on without the file it could not write.
WriteFailureIgnored ==
  /\ task["smtp"] = "writingCert"
  /\ CutShort
  /\ Goto("smtp", "writingKey")
  /\ UNCHANGED <<processVars, pair, refused, connections, ownerVars>>

WriteFails ==
  /\ task["smtp"] \in {"writingCert", "writingKey"}
  /\ CutShort
  /\ Goto("smtp", "done")
  /\ UNCHANGED <<processVars, pair, refused, connections, ownerVars>>

\* with_single_cert reads the key as PKCS#8 and compares the public keys.
KeyFits == pair[1] = pair[2] /\ (pair[2] = 0 => ownKey = "fits")

Configure ==
  /\ task["smtp"] = "configuring"
  /\ IF KeyFits
     THEN Goto("smtp", "binding") /\ UNCHANGED refused
     ELSE Goto("smtp", "done") /\ refused' = TRUE
  /\ UNCHANGED <<processVars, cert, key, pair, connections, ownerVars>>

SmtpBinds ==
  /\ task["smtp"] = "binding"
  /\ \E state \in {"serving", "done"} : Goto("smtp", state)
  /\ UNCHANGED <<processVars, fileVars, connections, ownerVars>>

\* The accept loop ends when it is cancelled or accept() fails; the sessions go on.
SmtpEnds ==
  /\ task["smtp"] = "serving"
  /\ Goto("smtp", "done")
  /\ UNCHANGED <<processVars, fileVars, connections, ownerVars>>

-----------------------------------------------------------------------------
(* The connections.  Each one that is accepted is a task that is not in    *)
(* the JoinSet; it ends whenever its peer or its handler ends it.          *)

ConnectionOpens ==
  /\ \/ task["web"] = "serving" /\ connections' = connections \cup {"http"}
     \/ task["smtp"] = "serving" /\ connections' = connections \cup {"smtp"}
  /\ UNCHANGED <<processVars, fileVars, task, ownerVars>>

\* on_upgrade(): the request is answered, and the socket goes to a task of its own.  It
\* may have been the only request, or one of several.
ConnectionUpgrades ==
  /\ "http" \in connections
  /\ \E rest \in {connections, connections \ {"http"}} :
       connections' = rest \cup {"websocket"}
  /\ UNCHANGED <<processVars, fileVars, task, ownerVars>>

ConnectionsEnd ==
  /\ \E kind \in connections : connections' = connections \ {kind}
  /\ UNCHANGED <<processVars, fileVars, task, ownerVars>>

-----------------------------------------------------------------------------
\* The process is killed.
Crash == Gone("down") /\ UNCHANGED exitCode

Main ==
  \/ Start \/ Signal \/ SleepOver
  \/ \E t \in Task : JoinNext(t)
  \/ ExitJoined \/ ExitAborted
Web  == WebBinds \/ WebCancelled \/ WebDrained
Smtp ==
  \/ LoadPair \/ WriteCert \/ WriteKey \/ WriteFails
  \/ Configure \/ SmtpBinds \/ SmtpEnds

Sockets == ConnectionOpens \/ ConnectionUpgrades \/ ConnectionsEnd

ServiceNext == Main \/ StorageRuns \/ StorageEnds \/ Web \/ Smtp \/ Sockets \/ Crash

ServiceSafety == ServiceInit /\ [][ServiceNext]_serviceVars

\* tokio runs every task that can go on, and the sleep ends.  Nothing makes an open
\* connection end, and nothing makes a supervisor start the process again.
ServiceFairness ==
  /\ WF_serviceVars(SleepOver)
  /\ WF_serviceVars(\E t \in Task : JoinNext(t))
  /\ WF_serviceVars(ExitJoined)
  /\ WF_serviceVars(ExitAborted)

ServiceSpec == ServiceSafety /\ ServiceFairness

-----------------------------------------------------------------------------
(* Properties. *)

\* Every variable has its type, the generation a file is from has been started, and the
\* mail server goes on with a pair it has read or made (tls.rs:50-75).
ServiceTypeOK ==
  /\ process \in {"down", "up", "exited"} /\ exitCode \in {0, 1}
  /\ starts \in 0 .. MaxStarts
  /\ task \in [Task -> TaskState] /\ set \in SUBSET Task
  /\ token \in BOOLEAN /\ abort \in BOOLEAN /\ tlsAuth \in BOOLEAN
  /\ connections \subseteq Connection /\ ownKey \in OwnKey
  /\ cert \in File /\ key \in File /\ cert <= starts /\ key <= starts
  /\ pair \in File \X File /\ found \in File \X File
  /\ refused \in BOOLEAN
  /\ task["smtp"] = "configuring" => Readable(pair[1]) /\ Readable(pair[2])

\* An exit with code 0 cuts no HTTP request and no file short: every task of the JoinSet
\* had ended by itself, the web server's only when its requests were answered, whatever
\* order the tasks ended and were joined in, and whether or not the five seconds were
\* over at the same time (main.rs:129-147, web_server.rs:322-325).  SMTP sessions and
\* websockets are in no JoinSet, and such an exit does cut them short.
GracefulExitWaits ==
  [][process' = "exited" /\ process # "exited" /\ exitCode' = 0
       => /\ \A t \in Task : task[t] \in Over
          /\ "http" \notin connections
          /\ UNCHANGED <<cert, key>>]_serviceVars

\* A process that is asked to end ends, although a task may hang in its setup and the
\* web server waits for requests that nobody ends (main.rs:118-127, 141-145).
EndsWhenAsked == process = "up" /\ token ~> process # "up"

\* The mail server refuses the pair it finds only for a key that its owner put there
\* without the certificate it belongs to, or not as PKCS#8: from no files, from damaged
\* ones and from a pair that fits, no order of writes, failed writes, aborts and kills
\* between the two files leaves a certificate beside the key of another start, or beside
\* the owner's key (tls.rs:41-77).
RefusalNeedsOwnKey ==
  refused => found[2] = 0 /\ (found[1] # 0 \/ ownKey # "fits")

\* A certificate whose key is beside it stays: clients that were told to trust it can
\* go on to do so after every restart (tls.rs:50-52).
PairIsKept == [][Readable(cert) /\ cert = key => UNCHANGED <<cert, key>>]_serviceVars

=============================================================================
