# A TLA+ verification of MailCrab

MailCrab is a development mail server: it accepts every mail over SMTP, keeps it in memory and shows
it in a browser. This directory holds TLA+ modules that model its backend and its frontend,
TLC configurations that check them on small instances, and TLAPS proofs of what matters most. Paths below are
relative to the repository (`src/`); the modules are in this directory. `PROJECT.json` maps every
definition to the lines it models.

## 1. Inventory

The system is one process with a tokio runtime, and a single-page frontend.

```
 SMTP client ──► connection loop ──► mailin session ──► MailHandler
                                                            │ tx.send
                                                  broadcast queue (ring)
                                                   │              │
                                            storage task     websocket task (one per client)
                                                   │ insert/purge │ ▲ commands     │ metadata
                                                   ▼              ▼ │              ▼
                                            RwLock<HashMap> ◄── HTTP handlers ◄── frontend
```

| component | state | operations | interacts with |
|---|---|---|---|
| SMTP connection and handler (`mailcrab/src/smtp/{connection,handler,server}.rs`) | mailin's transaction; the handler's sender, recipients and buffer; the answer being written | one callback per command, `parse_mail`, write, end of connection | called by mailin; sends on the queue |
| broadcast queue (`backend/src/main.rs:89`, tokio) | a ring of the last `QUEUE_CAPACITY` mails, a cursor per receiver | send, recv (mail, lagged, closed), resubscribe | SMTP to storage and to every websocket task |
| storage task (`backend/src/storage.rs`) | its cursor, the retention timer, `running` | receive and insert, purge, stop | queue, map, cancellation token |
| message map (`backend/src/main.rs:31`) | mails by id, `opened`, the poison flag of the lock | insert, retain, open, remove, clear, get | storage task, websocket tasks, HTTP handlers |
| websocket task (`backend/src/web_server.rs:33`) | its cursor, `active`, the ping timer | subscribe, ping, forward a mail, carry out a command, close | queue, map, client |
| HTTP handlers (`backend/src/web_server.rs:113`) | none | list, get, body, raw, attachment, delete, delete all | map |
| lifecycle (`backend/src/main.rs:65`) | JoinSet, two tokens, five-second delay | start, supervise, cancel, abort, exit | all tasks |
| TLS (`mailcrab/src/smtp/tls.rs`) | `cert.pem`, `key.pem` | load, generate, write, configure | SMTP server start-up |
| mail conversion, `render` (`mailcrab/src/types.rs`) | none | parse result to `MailMessage`, cid substitution | handler, HTTP body |
| frontend overview and websocket service (`frontend/src/{overview,websocket,api}.rs`) | list of messages, selection, two bounded channels | fetch, add, select, remove, remove all | HTTP and websocket |
| frontend view (`frontend/src/view.rs`) | the message shown, its raw text, the open tab, requests under way | fetch on selection, fetch the source, change the tab | HTTP |
| configuration, router, static files, dark mode, packaging | none | | |

What is hard, and what makes each component correct:

* **Two receivers of one queue.** The storage task and each websocket task read the queue on their own,
  on several threads. A client can be told of a mail before, or without, its being in the map; its
  commands can overtake the insert. Correct is: every mail is accounted for once, whatever interleaves
  (`Accounting`, `ImplementsMailStore`); what a client is sent has no gap (`DeliveryContiguous`).
* **A bounded ring.** A receiver that falls behind loses mails. Correct is: only after `QUEUE_CAPACITY`
  later mails (`LossNeedsOverrun`), the storage task goes on behind it (`TaskLives`), and a client hears of it
  by being disconnected (`ReaderIsTold`), and is not disconnected without it (`DisconnectNeedsOverrun`).
* **Arithmetic on the clock.** The purge subtracts the period from the time; the result can lie before
  the epoch (the task returns an error that nobody reads) or out of range (it panics with the write
  guard held). Correct is: only old mails expire (`ExpiredWasOld`) and they do (`OldMailExpires`).
* **`select!` loops.** All branches may be ready at every round. Correct is: none starves
  (`EveryMailSettles`, `StopsWhenCancelled`, `RemoveIsCarriedOut`) and a dead client is noticed
  (`DeadClientsReaped`).
* **Two copies of an SMTP transaction.** mailin's is reset by RSET, HELO and the end of the data; the
  handler's only by a parsed mail. Correct is: mails are not mixed (`EnvelopeIsOwn`, `BodyIsOwn`), and
  answers are true although a connection can break between a mail and its answer (`AnswersAreTrue`).
* **Two sources of one list.** A tab asks for the list and opens its websocket at the same time, and
  neither knows of the other. Correct is: a mail is missing, or listed twice, for a reason that can be
  named (`ListAccounts`, `TwiceByRaceOnly`), and one that was removed stays away (`NothingReappears`).
* **A chain of hand-overs** from an SMTP client to the list in a tab. Correct is: what a client is told of
  its mail holds at the other end (`AnswersHold`, `QueuedIsListed`, `QueuedIsKept`), and its mails stay in
  order (`SentInOrder`).
* **Commands without an answer.** The tab changes its list at once and tells the server through a bounded
  channel and a socket. Correct is: what was queued is not lost on its way unless the connection breaks, and
  takes the mail from the server unless it overtakes the insert (`RemovalsArrive`).
* **Closures over an old state.** The view's requests are never cancelled and their answers see the state of
  the render that asked. Correct is: what is shown belongs to what is selected, in the end
  (`StaleOnlyIfLate`, `TabFits`, `SelectedIsShown`).
* **Two files written one after the other**, with a crash in between. Correct is: a restart finds a pair or
  makes one, and what it refuses is a key of the owner (`RefusalNeedsOwnKey`, `PairIsKept`).
* **A shutdown that may not finish.** Tasks end in any order, early, by panic, or never, and beside them run
  connections that nobody joins. Correct is: it ends (`EndsWhenAsked`), and with 0 only if the joined tasks
  were at their end and no HTTP request and no file is cut short (`GracefulExitWaits`).
* **Replacements one after the other** in the body of a mail. Correct is: what comes out
  depends on the mail alone and not on what a round makes of the one before (`BodiesResolve`), and a whole
  reference becomes its part unless an id further up begins it (`WholeReferencesResolve`).

`PROJECT.json` lists these as hazards, each at its line with the properties that cover it.

## 2. Modules

| module | models | kind |
|---|---|---|
| `Broadcast` | the queue, an external library modelled from its use | operators and actions for its users |
| `MailStore` | what the store promises about one mail | abstract specification |
| `Storage` | storage task, map, clock, cancellation; extends `Broadcast` | component |
| `WebServer` | websocket tasks, clients, HTTP handlers; extends `Storage` | composition |
| `Smtp` | one SMTP connection after another: loop, session, handler; instantiates `Broadcast` | component |
| `Overview` | the tabs' lists, requests and channels; extends `WebServer` | composition |
| `View` | the view of the selected mail: two effects, requests and answers | component |
| `Render` | the loop that makes the body of a mail, and what its references mean | component |
| `Service` | the process: start, supervision, shutdown, exit; the TLS files over restarts | component |
| `MailCrab` | the product from an SMTP client to a tab; extends `Overview` and `Smtp` | composition |
| `MCStorage`, `MCWebServer`, `MCSmtp`, `MCOverview`, `MCMailCrab`, `MCView`, `MCService` | symmetry sets and inputs for TLC | instances |
| `StorageProofs`, `WebServerProofs`, `SmtpProofs`, `OverviewProofs`, `MailCrabProofs`, `ViewProofs`, `RenderProofs`, `ServiceProofs` | theorems | proofs |

### Broadcast and Storage

`log` is every mail ever sent, in order, and a receiver is a cursor into it. The ring shows only in
`Oldest`: a cursor before it is `Lagged` and is moved there. `Slots` is the allocated capacity, tokio's
rounding of `QueueCapacity` to a power of two; `RoundingAssumption` states that, and no proof needs it.
Mails are names (uuids never repeat).

| code | action |
|---|---|
| `storage_rx.recv()` returns a mail / `Lagged` | `StorageRecv` / `StorageLagged` |
| `storage.write()` and `insert` | `StorageInsert`, a step of its own since handlers run in between |
| `retention_interval.tick()` | `TickPurge`, `TickBeforeEpoch` (the `?`), `TickUnderflow` (the panic of `sub`) |
| `token.cancelled()` | `StorageStop` |
| open, remove, clear under the write lock | `OpenMessage`, `RemoveMessage`, `ClearStorage` |
| SMTP, clock, signal, end of all senders | `Publish`, `AdvanceClock`, `Cancel`, `SendersGone` |

Each critical section of the lock is one step: no code awaits while it holds a guard. A panic under the
write guard poisons the lock, and then no handler changes the map. `time` is the time of arrival: the
date of a mail is formatted as RFC 3339 and then parsed as RFC 2822, which always fails, so that
`types.rs:244` takes the current time. `deleted`, `expired` and `missed` are history variables that say
where a mail went.

### WebServer

A websocket task is at one of the points where it awaits: not subscribed yet, in `select!`, in
`socket.send` of a mail or of a ping, closed. Its client reads, stalls, has broken the websocket protocol
while it is still there, has closed, or has vanished; it names ids it has seen. A client that broke the
protocol is closed by the error of `socket.recv()` behind what it had sent before (`WsSocketClosed`). `WsCommand` carries a command out in one step, under one write lock. The delete
handlers are those of `Storage` with the websocket side unchanged. A task that is sending takes nothing
from its queue, which is how a slow client lags.

### Smtp

`session`, `path` and `lines` are mailin's (external, from how `connection.rs` and `handler.rs` use it);
`envelope` and `buffer` are the handler's. `reply` keeps the order of the loop: process a line, write
the answer, read the next. `Disconnect` may come at any point, so that an answer can be lost after the
mail was published. Each connection has a clone of an empty handler (`server.rs:96`), so `ConnectionEnds`
drops what it held. Connections share only the queue, so that one at a time shows all that a handler can do.
After an error answer to the end of the data the model lets the session be in either state mailin could
leave it in. A line is a header or not, since the parser fails on a text without a header; `receivers`
becomes false when a user of the library drops its handle (`lib.rs:17`), the one way a send can fail.
Every published mail carries, for the properties, what its transaction was and whether an
earlier one of the connection came to nothing.

`FeedsTheQueue` states, over the same `Broadcast`, what the mail server guarantees to whoever reads the
queue: it appends one new mail at a time and does nothing else to it. `Storage` and `WebServer` rely on an
environment that does just that (`Publish`).

### Overview

A tab is a `Conn`: `overview.rs` opens one websocket when it is created and never a second one. A list is a
bag: for every mail, how many of its entries are marked as opened and how many are not. The order is left
out, since every operation finds its entries by id (the server sorts by time, the tab appends).

| code | action |
|---|---|
| `create()`: `fetch_messages_metadata` and `WebsocketService::new` | `fetch = "asked"` at the start, `ClientConnect` at any time |
| `GET /api/messages` under the read lock, in `web_server.rs` | `ListMessages`; `FetchFails` if it, or its answer, is lost |
| `Msg::Messages` / `Msg::Message` | `AnswerArrives` / `Announced` |
| `Msg::Select`, `Remove`, `RemoveAll`, each with its `try_send` | `Select`, `RemoveSelected`, `RemoveAll` |
| the writing task of the websocket service | `Forward`, and `ForwardFails` on a dead socket |

The reading task and the channel to the component are the stretch of `sent` behind the cursor `seen`. The
rest of the next-state relation is `WebServer`'s, without the stop of the service and without a client that
stalls (a browser reads whatever the page does); the commands of a client are now those of its tab, and
`ImplementsWebServer` shows that they are commands `WebServer` allows. `removed`, `replaced` and `appliedAt`
are history variables.

### MailCrab

The product is `Smtp` beside `Overview`, with one action in common: `MailSent` is `tx.send` in `parse_mail`,
which is the end of the data for the handler (`DataEnd`) and a new mail for the queue (`Publish`) in one step.
Every other step is one of either side alone (`SmtpStep`, `OverviewStep`). `Smtp` follows one client over its
connections; the other clients are the `Publish` steps of `Overview`, at any time. `DropReceivers` is no step
of the product, since the shared state of the web server holds a receiver for as long as it runs
(`main.rs:91`). `places` is a history variable: where in the queue the client's mails are.

### View and Render

One action of `View` is a change of the properties together with the render and the effects that follow:
the page has one thread and yields nowhere in between. The two effects are `FetchMessage` and `FetchRaw`. A
handle of yew's `use_state` is a snapshot of the render it was taken in, so that a request carries the tab
of its render, and the second effect still sees the source that the first one has just reset. `Overview` owns
the tab, and a request of a view that is gone can still change it (`mounted`). `late` and `unchecked` are
history variables that name the excuses.

`Render` is the handler of the body: `ReplaceReferences` is one round of its loop over the attachments, with
`Replaced` for `str::replace`. `Resolved` is the reference, one look at the mail without rounds: at every
marker the first attachment whose id stands behind it gives its URL, and its id goes. That an id is taken
where it merely begins a longer word is the code's own reading and is part of the reference; which references
come out as their writer means them is `WholeReferencesResolve`, over `Refers`. Texts are sequences of
tokens, the one place where text is modelled, because the
hazard lies in how ids overlap. `str::replace` is modelled position by position: the URL stands in the place of
the marker, and `Nothing` in the places of the letters that are gone, so that a text keeps its length. That
changes nothing for the rounds that follow: an occurrence begins with a marker and goes on with letters, and
where one was replaced there is a URL in between. `MCView` runs the two machines one after the other, since they have no
state in common.

### Service

A task is at one of the points where the process can stop being what it was: its set-up, serving, draining,
done, panicked. `JoinNext`, `ExitJoined` and `ExitAborted` are the `select!` in `run()`, `SleepOver` the task
that sleeps for five seconds after the signal. These tasks are the JoinSet. Beside it run the
connections, by kind: an HTTP request, a websocket, an SMTP session. An SMTP session is spawned on its own
(`server.rs:93`), a websocket leaves its request behind (`on_upgrade`); only of HTTP requests does the web
server wait for the end (`WebDrained`). Every exit drops what is open. `serve`'s errors are logged inside the mail server, which then ends
with `Ok`, so that `Over` does not tell errors from ends. The two files hold what the owner put there
(0), what the n-th start generated (n), or nothing readable. `LoadPair` to `Configure` are
`create_tls_acceptor` with its two writes as steps of their own, and `KeyFits` is the check of
rustls: `load_key` takes a PKCS#1 or SEC1 key for PKCS#8, which is then refused although it belongs to the
certificate, so that `ownKey` says of an owner's key that it fits, belongs to another certificate, or is in
another format. `Crash`, `ExitAborted` and `WriteFails` may
cut the file short that is being written. Crashes are those of the process; what an operating system
that dies makes of files that were written is not modelled.

## 3. What each run checks

| run | bounds | shows |
|---|---|---|
| `storage_core` | 4 mails, 2 slots, clock 0..3, period 2, epoch 1 below | `StorageTypeOK`, `Accounting`, `LossNeedsOverrun`, `ExpiredWasOld`, refinement of `MailStore` |
| `storage_live` | 2 mails, 1 slot, clock 1..4, period 1 | `TaskLives`, `EveryMailSettles`, `OldMailExpires`, `StopsWhenCancelled` |
| `web_live` | 2 mails, 1 slot, 1 client with 2 commands waiting that name one of the mails, no retention, no cancellation | `WebTypeOK`, `DeliveryContiguous`, `DisconnectNeedsOverrun`, refinement of `Storage`, `DeadClientsReaped`, `RemoveIsCarriedOut`, `ReaderIsTold` |
| `smtp_core` | 2 mails, 2 addresses, 2 recipients, 2 lines | `SmtpTypeOK`, `EnvelopeIsOwn`, `BodyIsOwn`, `AnswersAreTrue`, `FeedsTheQueue` |
| `overview_core` | 2 mails, 2 slots, 1 tab, channel and socket of 1 command, period 0 | `OverviewTypeOK`, `ListAccounts`, `TwiceByRaceOnly`, `NothingReappears`, `RemovalsArrive`, refinement of `WebServer`; `DeliveryContiguous` without lag |
| `view_core` | 4 mails, one with each combination of bodies, 2 requests of each kind; bodies of 4 tokens, 2 attachments, ids of 2 letters | `ViewTypeOK`, `StaleOnlyIfLate`, `TabFits`, `SelectedIsShown`, and `BodiesResolve`, `WholeReferencesResolve` of `Render` |
| `service_core` | 3 starts, every state of the two files and of an owner's key at the first, connections of each kind | `ServiceTypeOK`, `RefusalNeedsOwnKey`, `GracefulExitWaits`, `PairIsKept`, `EndsWhenAsked` |

Why these bounds are enough. Four mails through two slots let a receiver lag by one and by two and still
read on. The clock runs from the epoch, so that within its bound a first purge panics, a later one fails
and a last one succeeds. `RetentionPeriod \div 10` is below the minimal interval in every instance, as
with every period below ten minutes; `MinRetentionInterval` is scaled down with the period. One client, and
one tab, is enough because tasks do not see each other: a second one is a further caller of the delete
handlers, which `HttpDelete` already is. One slot lets a websocket task lag behind by the second mail; with two
slots it never lags, and a gap could only come from its own doing: `DeliveryContiguous` is checked with both. Two
commands can wait in the socket, so that a Remove comes before or behind an Open, a RemoveAll or a text that is
no command, and a third follows as soon as one is read; the mails are alike, so that naming one of them
(`Named`) loses nothing. `RunningSpec` leaves out the cancellation of the storage task and, without a retention
period, its panic: the websocket tasks see neither but through a poisoned lock, on which no
handler changes anything (`storage_core` has it, and the proofs have all of it).
With a channel of one command the second one is dropped, and with two mails one can be announced before the
answer that lacks the other. Two mails on one SMTP connection are the shortest history in which one can
leave something behind for the next. Two requests of a kind are the fewest that can overtake each other, and
four mails are one of each kind the tabs distinguish. Of three starts one leaves a certificate without its
key, the second finds it, and the third sees what the second has made of it. Two attachments are the fewest of
which one can rewrite what the other refers to. The safety invariants of these runs are also proved for
every value of the constants (section 5), those of `Render` for every text, so that there the bounds only have to
expose mistakes in the model.

`MailCrab` has no passing run: both of its sides are checked by their own, and what it adds, the step they have
in common, is proved to be a step of each (section 5). `mailcrab_list` runs it from an empty SMTP
session to the list of a tab.

Deadlock is checked in `view_core` and `view_source`. In the other instances it is not: the mails run out,
the clock reaches its bound, the service may be stopped, and the last start may be over. Symmetry is used
in safety runs only, over mails, tabs, connections and addresses, which are only compared.

Every property of a passing run has a mutant, an operator marked as faulty variant above the definition it
replaces: a plausible bug with which TLC finds the property violated.

## 4. Disagreements between the code and what is said of it

Each of these runs checks one statement of a document, comment or log line, and TLC finds a behaviour of
the code that violates it.

| run | statement | what the code does |
|---|---|---|
| `storage_far_retention` | README.md:34 | a period that reaches before the epoch ends the task at its first tick (which completes at once), the error is discarded in `main.rs:132`, SMTP goes on answering 250 |
| `web_remove` | README.md:45, a command deletes a message | a Remove that overtakes the insert has no effect and the mail appears afterwards |
| `smtp_rset` | log `handler.rs:91`, the recipients | recipients given before RSET or a second HELO are stored with the next mail |
| `mailcrab_list` | README.md:43, the list and then the new messages | a client sends a mail and is told that it is queued; a mail that comes between the answer and the subscription, or is announced before an older answer is applied, is never listed by the tab (`overview.rs:55`, `:99`) |
| `view_source` | README.md:43, opening a message retrieves its raw email | the Raw tab keeps, or gets late, the source of the mail that was selected before (`view.rs:61`) |

More was met that has no run of its own, because it is the same cause, or because nothing in the repository
says otherwise:

* README.md:34 ("All email is stored") also fails when the storage task falls behind by the capacity of the
  queue, since it ignores `Lagged`; README.md:113 says that messages can get lost, but of slow clients only.
  `EveryMailSettles` counts such mails as `missed`, and `LossNeedsOverrun` bounds when it can happen.
* The comment `storage.rs:17` says that the purge keeps messages that are *older* than the period; it keeps
  the newer ones, as README.md:106 wants and `ExpiredWasOld` states.
* A client that opens a mail it was told of can get 404, since the mail is not inserted yet; in the view
  this is `MessageFails`, and nothing asks again.
* When a mail cannot be parsed (`handler.rs:43`), its text stays in the buffer in front of the next mail of the
  connection. `EnvelopeIsOwn` and `BodyIsOwn` say what holds in spite of this and of `smtp_rset`: without
  an earlier transaction that came to nothing on the same connection, nothing is mixed.
* A task that ends with an error is taken for one that is done (`main.rs:132`): a process whose port is taken,
  or whose storage task gave up, stays up, and exits with 0 when it is stopped.
* A key that its owner provides without a certificate is overwritten; if the process dies between
  the two writes, the new certificate stays beside the owner's key, and every later start refuses the pair
  and goes on without SMTP (`tls.rs:63`). An owner's key in PKCS#1 or SEC1 format is refused beside its own
  certificate, since it is passed on as PKCS#8 (`tls.rs:45`), and so is one of another certificate; either
  way the process runs on without SMTP. README.md:81 offers to mount a key and a certificate and names no
  format. `RefusalNeedsOwnKey` says that these are the only ways to get there.
* A shutdown with exit code 0 waits for HTTP requests and not for SMTP sessions or websockets: a session that
  is in the middle of a mail is cut, and its client gets no answer (`server.rs:93`). What the client was told
  before stays true, for `AnswersAreTrue` allows the connection to break at any point.
* A Remove that finds the channel full, or a dead socket, leaves the mail on the server while the tab does
  not list it any more (`overview.rs:110`, `:123`). `RemovalsArrive` is about the others, and
  names the one that overtakes the insert (`web_remove`), which is carried out and removes nothing.
* A content id that is the beginning of another, or of a reference to no part at all, rewrites the longer one
  in part if its attachment is further up (`types.rs:182`). `BodiesResolve` says so of every mail, and
  `WholeReferencesResolve` that this is the only way a whole reference goes wrong.

## 5. What is proved

TLAPS checks the following for every set of mails, connections, tabs, addresses and lines, every capacity,
retention period, minimal interval and epoch limit, and every bound. The theorems are about the
specifications without fairness (`StorageSafety`, `WebSafety`, `SmtpSpec`, `OverviewSafety`, `ViewSafety`,
`MailCrabSpec`, `RenderSpec`, `ServiceSafety`). Every safety property that a passing run checks is among them.

*Storage.* `StorageTypeCorrect`, `BooksBalance` (`Accounting`), `LossOnlyByOverrun` (`LossNeedsOverrun`),
`OnlyOldExpires` (`ExpiredWasOld`), `OnlyCancelEndsTheTask` (`TaskLives`) and `StorageImplementsMailStore`.
The inductive invariant is `Books == Shape /\ SentOnce /\ Accounting`. `Accounting` alone is not inductive:
that a step of the cursor moves exactly one mail needs that the log has no duplicates (`SentOnce`), and that
the mail in hand is the one before the cursor (`Shape`). The other invariants are proved from it: a cursor
skips only what is `Slots` behind, a purge removes only what has reached the period while the clock never runs
back, and for the same reason a purge fails only if the period reached behind the epoch at the start. For the
refinement each action is shown to be one step of `MailStore` or a stutter; that a mail which has left the
store cannot come back is where `Accounting` is used.

*WebServer.* `WebServerImplementsStorage`: every step is a step of `Storage` or leaves its variables alone,
so the theorems on `Storage` hold with any number of clients (`WebBooksBalance` states two of them).
`WebTypeCorrect`, and `DeliveryIsContiguous` from an invariant that relates the start of a subscription,
what was sent, the mail in flight and the cursor. `OnlyOverrunDisconnects` (`DisconnectNeedsOverrun`) needs that
invariant at the one step where a task closes and its client is there: in `select!` the cursor is behind
exactly what was sent, and it is the cursor that lags.

*Smtp.* `SmtpTypeCorrect`, `TransactionsKeptApart` (`EnvelopeIsOwn`), `BodiesKeptApart` (`BodyIsOwn`) and
`AnswersAreTruthful`, from one invariant `SmtpInv`: besides the properties, `HandlerFollows` (handler and
session agree as long as nothing stale is held, and while the queue has a receiver) and `Numbering`
(published mails are numbered up to `attempts`, later ones have not been answered, and the answer being
written is already true). `QueueIsFed` (`FeedsTheQueue`) uses `Numbering` too: the mail that is sent is not in
the queue yet.

*Overview.* `OverviewTypeCorrect`, `OverviewImplementsWebServer`, `ListsAddUp` (`ListAccounts`),
`DuplicatesNeedTheRace` (`TwiceByRaceOnly`), `RemovedStaysAway` (`NothingReappears`) and `RemovesGetThrough`
(`RemovalsArrive`). The invariant `OverviewInv` puts `TabOK`
beside those of the server: a tab names only what it can know of; what it was given is listed, removed
or replaced; and an entry of its list is due to the answer or to an announcement that came after it
(`Due`). The refinement comes first, since with it the invariants of `WebServer` and `Storage` are at hand:
that no mail is announced twice is `DeliveryContiguous` together with `SentOnce`. `RemovesGetThrough` needs that
a command in a socket names a mail that was sent to the queue (`InboxKnown`), so that by `Accounting` it is in
the map, gone for good, or still to be inserted, which is the Remove that comes too early.

*MailCrab.* `ProductImplementsSmtp` and `ProductImplementsOverview`: each step of the product is a step of
either side or leaves it alone, so that every theorem on either side holds of the product;
`ProductImplementsMailStore` goes on from there down to the abstract specification. What needs both sides is
proved from `MailCrabInv`, which is `OverviewInv`, `SmtpInv` and `Placing`: the client's mails are in the
queue at places that grow with their numbers, each at one of its own. From it follow `AnswersAreKept`
(`AnswersHold`: a mail that was "queued" is accounted for as one mail of its own, a refused one is nowhere),
`OrderIsKept` (`SentInOrder`), `QueuedReachesTheTabs` (`QueuedIsListed`, which is what remains of the
statement that `mailcrab_list` refutes), and `QueuedMailIsKept` (`QueuedIsKept`: without a retention period,
and until the ring has gone round, no such mail is lost and the storage task runs until it is cancelled).

*View.* `ViewTypeCorrect`, `StaleNeedsLateAnswer` (`StaleOnlyIfLate`) and `OpenTabIsThere` (`TabFits`), from
their conjunction, which is inductive as it stands.

*Render.* `ReferencesResolve` (`BodiesResolve`) and `OnlyEarlierIdsSpoil` (`WholeReferencesResolve`), for every
text, any number of attachments and any ids. The invariant `DoneInOrder` says of every round, position by
position, what is there once the attachments before `next` are done: at a marker the URL of the first of them whose
id stands there, nothing where that id was, and else what the mail has; at the end that is
`Resolved`. Ids have no marker inside, so that what stands behind one is never cut by a replacement at another, and
a URL is no marker, so that no round finds anything in it. The rounds go up, and so the attachment of a round
is the first one at a marker unless an earlier one has taken it; this is carried along in the invariant and takes
the place of an induction. The second theorem follows from the first.

*Service.* `ServiceTypeCorrect`, `PairSurvivesCrashes` (`RefusalNeedsOwnKey`), `CertificateStays`
(`PairIsKept`) and `GracefulExitCutsNoRequest` (`GracefulExitWaits`), for every number of starts. The
invariant says that the key of a start is never without its certificate, since it is written after it and
only when there was no pair, that a full pair that was found is never touched (`FilesInv`), that a task that was
joined has ended (`JoinedInv`), and that requests are answered only while the web server runs (`RequestInv`).

Assumptions used: `CapacityAssumption`, `RetentionAssumption`, `InboxAssumption`, `SmtpAssumption`,
`TabAssumption`, `ViewAssumption`, `RenderAssumption`, `StartsAssumption`; TLC evaluates them, and
`RoundingAssumption`, in the runs of the modules that extend theirs.

## 6. What is only model-checked

* The liveness properties (`EveryMailSettles`, `OldMailExpires`, `StopsWhenCancelled`, `DeadClientsReaped`,
  `RemoveIsCarriedOut`, `ReaderIsTold`, `SelectedIsShown`, `EndsWhenAsked`): proofs under fairness and with
  `ENABLED` are beyond the prover.
* That the code violates the statements of section 4.

In `storage_live` the storage task cannot fail or panic, whose half of `TaskLives` rests on
`OnlyCancelEndsTheTask`; `storage_core` and `storage_far_retention` have the steps themselves.

No module declares a RECURSIVE operator, which would cost the proofs their SMT backend, and no proof is by
induction over data: queue and history are sequences of which the proofs need only `Append`, `Len` and
indexing, and the texts of `Render` are described position by position.

## 7. Fairness

`StorageFairness`. tokio polls a ready task again, and `select!` without `biased` starts with a random
branch at every round: a branch that is ready again and again is taken with probability one. Hence strong
fairness for the timer and the cancellation, whose branches other branches interrupt. The receive branch
stays enabled in the loop and gets weak fairness over `StorageRecv \/ StorageLagged`, since the one can
turn into the other while the task is in between. Critical sections are short, so that the insert is
weakly fair. Time passes up to the bound. Neither the clients nor the signal are fair.

`WebFairness`. The same for the branches of a websocket task; a send to a client that reads completes, and
one to a client that is gone fails sooner or later (TCP gives up). Nothing is assumed of a stalled client,
for which the code has no timeout, nor of one that broke the protocol: the properties exempt them. Pings come again and again (every 30 seconds).

`ViewFairness`. A request is answered or fails in the end, as the browser's `fetch` does; which of the two is
left open, and so is the order, since the first one of the queue is any one once those before it are answered.
The user owes nothing.

`ServiceFairness`. The runtime goes on with `run()` (`JoinNext`, the two exits) and the sleep ends.
Nothing is assumed of the tasks, which may hang in their set-up or wait for requests, none of which has to end, nor of
a supervisor that starts the process again.

`Smtp` has no liveness property: every step waits for the client. `Overview` has none of its own: what the
server owes a client is checked in `web_live`, and a tab adds only its user and its network.

## 8. What is not modelled, and the plan

Left out for good:

* formatting, logging, JSON and HTTP framing; the components of the frontend that only draw (`list.rs`,
  `message_header.rs`, `formatted.rs`, `plaintext.rs`, `dark_mode.rs`), which have no state but a clock;
* AUTH (always accepted, changes no state) and the TLS handshake of a connection (rustls);
* environment parsing, router, path prefix, embedded files, error types, packaging: sequential code over
  strings without state;
* of `MailMessage::try_from` all but the time of arrival: it moves parsed fields into a struct;
* fractions of a second: both times of the purge are truncated to seconds, so that a mail may go up to a second
  early or late; the clock of `Storage` counts whole seconds.

What could be added:

1. A tab over several loads of the page, with what the one before had gone. Every
   load begins in `TabInit` with a further `Conn`, so that it is there already as a second tab, which the
   bounds of `overview_core` leave out and the theorems do not.
2. `View` inside `Overview`: the one connection is that the view goes when the selected mail leaves the list,
   which `View` takes as possible at any time (`Unmount`).

## 9. Running it

In this directory: `tlc -workers 2 -config MCStorage.cfg MCStorage` (and so on, see `PROJECT.json` for the
runs), and `tlapm StorageProofs.tla`. `MCWebServerLive.cfg` and `MCOverview.cfg` take about two
minutes, `MCStorage.cfg`, `MCSmtp.cfg`, `MCView.cfg` and `MCService.cfg` about one, the rest seconds. `OverviewProofs.tla`
proves its obligations in some minutes, the other proof modules in about one each.
