# Shelffy backend: TLA+ models and proofs

This directory models the Go backend of Shelffy (`src/backend`): users register
and log in, upload books, list them, download their content and delete them.
The backend keeps a book in three stores that share no transaction - an S3
bucket, a Postgres table and a NATS JetStream stream - and it is the order of
the steps across them, and across concurrent requests, that the modules check.

The repository has no tests and no prose documentation; every definition is
translated from the source, and `PROJECT.json` names the lines ("map").

## 1. Inventory

| Component | State | Operations | Interacts with |
|---|---|---|---|
| Books service `internal/services/books.go`, repository `internal/repositories/books.go` | rows of `books`; transactions and row locks | Upload, Delete, GetByID, GetByTitleAndUserID, GetManyByUserID, GetByHash | object storage, event publisher, Postgres through a transaction manager |
| Object storage `services/file-storage.go` | keys of the bucket | Upload, Get, BatchDelete (Delete has no caller) | called by the books service, the download handler, the event processor |
| Deletion events `services/events.go`, `services/event-processor.go` | stream `BOOKS`, durable consumer `books-deleter`, the current batch | PublishDeleteBookEvent; Run, the fetch loop | JetStream, object storage |
| Title trigger `migrations/20250616141639…sql` | `books.title` | BEFORE INSERT / BEFORE UPDATE | every INSERT of a book |
| Content download `api/http/handlers/books.go` | none of its own | GetContentByID | books service, then object storage |
| Users and sessions `services/users.go`, `services/auth.go`, their repositories, the two migrations | rows of `users`, `sessions` | Register, Login, ValidateSession, Logout; Deactivate, Delete, ChangePassword, Update (no caller yet) | Postgres |
| Authentication `api/middlewares/auth.go`, `context_values` | the context of a request | HTTPHandler, GQLHandler, the `@Auth` directive | users and sessions |
| Start and stop `cmd/api/main.go`, `app/api/api.go` | ctx, a WaitGroup, the server, the pool, the NATS connection | New, Run, Stop | everything |
| Routers, configuration, entities, GraphQL schema | wiring and records | none that changes state | |

What is hard, and what makes each part correct:

* **Upload and Delete.** A book is an object, a row and perhaps an event, each
  written by a call that may fail, or succeed and lose its answer, and the
  process may die between any two. A listed book must have its content or a
  deletion on record; content must not leak after a successful upload; a Delete
  that answered nil must be final whatever other Deletes did. Delete reads
  through the pool, outside its own transaction, and publishes before it commits.
* **The event processor.** At-least-once delivery, batches deleted in part,
  redelivery of events that were carried out, and no acknowledgement at all:
  early events must be carried out in the end, erased content must not come
  back, and delivery must not stop.
* **Download.** The row is read, access checked and the object opened in three
  steps, between which the book may be deleted and erased.
* **Connections.** A Delete holds one pool connection and takes a second, and
  it shares the pool with every other call: whether it and an Upload, neither of
  which has a timeout, ever get their connections depends on the pool's size.
* **Titles.** The trigger tests and inserts in two steps that other transactions
  interleave with.
* **Listing.** A listing is one SELECT without an order, read while INSERTs and
  DELETEs commit; its offset replaces its limit, and one that breaks off looks
  complete.
* **Accounts.** Register tests and inserts in two statements; requests validate
  a session and then read its user while other requests log out; expiry times
  lose their time zone.
* **User service.** ChangePassword compares with a row read before and updates
  in a second statement; a user may be deleted or deactivated meanwhile, or
  while a login is on its way to insert a session.
* **Start and stop.** Nothing makes Stop wait for Run. Three tasks, a WaitGroup
  counted down twice per task, a deadline derived from a cancelled context,
  connections, requests and the processor under way, and a processor whose
  failed Fetch ends the process.

`PROJECT.json` lists these hazards one by one, each at its line, with the
properties that cover it.

## 2. Modules

| Module | Models | Built on |
|---|---|---|
| `BooksContract` | what the books service promises, abstractly | |
| `BookStore` | Upload, Delete, publisher, stream, consumer, event processor, crash and restart | refines `BooksContract` |
| `BookDownload` | GetContentByID composed with all of `BookStore` | EXTENDS `BookStore` |
| `DeletePool` | connections and row locks of concurrent Deletes | |
| `TitlesContract` | what the title trigger promises, abstractly | |
| `BookTitles` | the INSERT trigger | refines `TitlesContract` |
| `BookListing` | userBooks and the lookup by title beside the trigger | EXTENDS and refines `BookTitles` |
| `Accounts` | Register, Login, middlewares, logouts, a clock, deletion of a user | |
| `UserService` | ChangePassword, Deactivate, Delete, passwords at login | EXTENDS and refines `Accounts` |
| `Shutdown` | main, New, Run, Stop, its tasks, requests, the processor's set-up and loop | |
| `…Proofs` | the theorems about the module of that name | EXTENDS it and TLAPS |
| `MC…` | small instances for TLC | EXTENDS it |

### BookStore

`objects`, `rows` and `stream` are the three stores. `upload[b]` and `delete[d]`
are the program counters of calls, and their results when they have returned; an
Upload creates at most one row, so the call also names the book id. A crossing
of the network is one action, and has a second action `…Fails` for its error
branch. Where the callee may have acted before the error (`PutObject`,
`INSERT`, `Publish`, `COMMIT`) the failing action says so: the effect may or may
not have happened. This also covers a context that is cancelled during the call.

* `createStoragePath` is `uuid.New`: any path no call has had before.
* `Create` / `CreateFails` is the INSERT, a statement of its own. After an error
  `Compensate` publishes a deletion event; its result is ignored, as in the code.
  The error leaves the INSERT in doubt (`inserted[b]`), as does a crash: Postgres
  may commit it (`CreateLate`) at any time, also after the compensating event,
  or never.
* `GetByID` reads committed rows and takes no lock (`r.pool`, not the
  transaction). `ExecDelete` waits while another transaction has deleted the
  row, and does not look at the number of rows it deleted.
* `GetByIDFails` keeps the inverted error branch of `books.go:95-99`: a missing
  row is handed on as the repository's error, any other failure is answered
  `ErrBookNotFound`.
* `streamReady`: publishing fails until the processor has created the stream.
* `cursor` is the highest event delivered. Since nothing is acknowledged every
  delivered event stays pending: the guard `cursor < MaxAckPending` of `Deliver`
  is the consumer's bound. `AckWaitExpires` and `Redeliver` are the redelivery.
  The server serves queued redeliveries first; the model allows either order.
* `BatchDelete(gone)` removes any part of the batch's keys: some keys fail, or
  the whole request does.
* `Crash` ends calls without an answer, rolls open transactions back (Postgres
  may take a moment to notice; the model releases locks at once), and keeps the
  stores. A Fetch that fails with anything but a timeout leaves a nil batch that
  is used on the next line: that death of the process is a `Crash`.

`deleteBook` of the GraphQL API panics as not implemented, so `Delete` is
reached through the interface `services.Books` only; the models call it as that
interface allows.

### BookDownload

A request steps through row, access, object, copy. Access is a choice of the
environment (owner or not). The test for a missing object in `s3storage.Get`
compares with an error type of another SDK version and never succeeds, so a
missing object is answered 500 (`"missing"`), never 404. `after[r]` records what
had happened to the book when the request began; no action reads it.

### DeletePool

`tx` and `query` are the connections held for transactions and for single
queries. The object of the model is who waits for whom, so failure is one
action, `Fail`, that can happen at every point. Readers stand for the methods
that apply `book_service_timeout`; Uploads have no timeout, so only the caller
can end their wait (`GiveUp`). Both run one query on one connection, and give it
back when it ends (`CallEnds`); Delete alone holds one while it waits for
another. `pgxpool.New` is called with the connection
string only, so `PoolSize` is the default of pgx, not `max_connections` of the
configuration.

### BookTitles

A title is the sequence of the numbers appended to a common root, so that a
title typed as "t (1)" and a "t" numbered 1 are the same, as in the database.
Each SELECT of the loop sees the rows committed by then. A row's `before` is
history; no action reads it. `TitlesContract` gives a title in one step, free at that
moment and skipping no number its user never used; the mapping hides the loop and
the titles of failed statements (`NumbersInOrder`). The trigger `BEFORE UPDATE` is left out because no
statement of the backend updates `books`.

### BookListing

A read `q` is answered with a set of rows (`books[q]`): the SELECT has no order,
so `PageOf` takes any rows up to the limit. `LimitOf` is what the query builder
makes of limit and offset: both are given to `Limit`, and the offset wins.
`GetManyByUserIDCut` is the loop over `rows.Next()` that ends early, since
`rows.Err()` is not asked: any part of the answer, and no error. `read[q]` tells
the four kinds of answer apart for the properties; the caller cannot.
`GetByTitleAndUserID` takes any row with the title, and its missing row is
`ErrInternal`, because the repository does not translate `ErrNoRows` there.

### Accounts

REST and GraphQL make the same calls for Register and Login and share the
actions; where they differ (middleware, logout) `api[r]` decides.
`CreateSessionFails` and `LogoutFails` cover lost answers, so no crash action is
needed: a call cut short is one that never takes its next step. `DeleteUser` is
the row's deletion under the foreign key of `sessions`; `InsertSession` is
guarded by the same key. `StoredTime` is what a
`TIMESTAMP` column without time zone does to `time.Now()`: the wall clock is
kept and read back as UTC. The history variables `rivals`, `issued` and
`loggedOut` are read by properties only.

### UserService

`password` and `is_active` are two columns of `users`; a password stands for its
hash. `BeginLogin` and `CheckPassword` give the logins of `Accounts` a password
and decide its free choice of a right or a wrong one. ChangePassword is
`StartChangePassword`, `ReadUser` (GetByID and the comparison) and
`UpdatePassword` (one UPDATE by id, of one column), each with a failure;
`UpdatePasswordFails` covers the row that has gone, a password bcrypt refuses and
a lost answer. Deactivate and Delete are single statements. `answered[c]`,
`known[s]`, `since[c]` and `deactivated` are history: what had been answered when
a call or login began, and which changes of the row have taken effect since;
no action reads them. The three operations are exported by `services.Users` and
nothing calls them yet; the model calls them as that interface allows.

### Shutdown

`wg.Go` (Go 1.25) counts a task up and down by itself; each task calls `wg.Done`
too, so it is counted down twice (`Done`, `Return`). The context of Stop is
derived from the App's, which the signal has cancelled: `DeadlineOver` is
`cancelled`. Starting tasks in any order over-approximates the code's order.
`Init` is main once it listens for signals. `New` is one step, since its wiring
is sequential and shared with nobody, and may fail (`NewFails`, exit code 1).
`run` is the goroutine of `app.Run`: it starts the processor and then listens,
and nothing orders it with Stop. That `ListenAndServe` refuses after `Shutdown`
is net/http's part; that the failure of Run cancels ctx is main's. The
processor's set-up is two calls with ctx, which fail once ctx is cancelled.
After a panic, or when main has returned, nothing takes a step.

`Fetch` has two errors. After `nats.ErrTimeout` the loop goes on
(`FetchTimesOut`); any other one, at any time and in any process, is logged and
the nil batch used, which panics (`FetchFails`). A draining connection allows
only the latter.

A request arrives in two steps: its connection is accepted (`Accept`) by a
listener that serves, and its first request is read and handled (`Serve`).
`server.Shutdown` closes the listener and the idle connections; with its context
cancelled it returns while handlers run, and while a new connection that has
sent nothing is still open. That connection's request is then served, if the
process lasts. Such connections count as idle for `Finish`, since Shutdown
itself closes those older than 5 s (`CloseConnection`). A further request on a
kept-alive connection is not told apart from one on a connection of its own.

## 3. Runs

| Run | Checks | Bounds |
|---|---|---|
| `books` | type, ContentSafe, LossNeedsPublish, DeleteOkMeansGone, NoLeakAfterOk, LocksAreLive, NoResurrection, KeepsContract | 2 uploads, 2 deletes (of the same book or of different ones), 2 paths, MaxAckPending 2, batches of 2, 1 crash |
| `books_live` | EarlyEventsCarriedOut under `FairSpec` | 2 uploads (events come from failed uploads), MaxAckPending 2, 1 crash |
| `books_stall` | AllEventsDelivered, **violated** | MaxAckPending 1 |
| `downloads` | MissingMeansCondemned, DeletedIsUnreadable, NotFoundMeansDeleted, ServesWantedBook | 2 uploads, 1 delete, 1 request, 1 crash |
| `pool` | type, LockHoldersRun, NoConnectionLeak, DeleteReturns, UploadReturns | 2 deletes, 2 readers, 1 uploading goroutine, 2 books, 3 connections |
| `pool_exhausted` | DeleteReturns, **violated** | 2 deletes, 1 reader, 1 uploading goroutine, 2 connections |
| `titles` (`MCBookListing`) | type, FreshAmongCommitted, TurnsBounded, SameTitleListed, ListingCausal, NumbersInOrder, TriggerEnds | 3 inserts, 2 users, "t" and "t (1)" typed, 1 read, limits and offsets 0 and 2 |
| `titles_unique` | UniqueTitles, **violated** | `BookTitles` alone, 3 inserts |
| `accounts` (`MCUserService`) | type, LogoutIsFinal, ServedAsOwner, SharedEmailNeedsOverlap, LetInInTime, LetInBeforeLogout, AnsweredChangeStands, OldPasswordIsOut, DeactivationStands | 2 registrations, 1 login, 2 requests, 2 calls of the user service, of which `MaxBegun` = 4 begin (a tick counts as one), 1 address, 2 passwords, life time 1, offset -1, time 0..1 |
| `accounts_gql` | GQLServedAsOwner, **violated** | 1 of each |
| `shutdown` | type, ExitNeedsHalf, LateConnectionsRefused, StopTerminates, FailedServerStops | the 3 tasks, 2 connections |
| `shutdown_panic` | CounterNeverNegative, **violated** | the 3 tasks, 1 connection |

Why the bounds are enough. The conflicts of the books service are between two
calls on one book (two Deletes; a Delete and the book's own Upload) or between
two books that must not touch each other: two uploads and two deletes give all
of them. One crash lets every step be the last one before a death and the first
one after it. Two messages distinguish a full batch from a partial one, and a
delivered event from one behind it. The stall needs one message more than
`MaxAckPending`, whatever that is (1000 by default). In `pool` and
`pool_exhausted` only the comparison of Deletes with connections matters, as the
theorem `DeadlocksAreFullHouses` shows: the other calls only have to be enough to
take what the Deletes leave over. Three inserts let one loop be overtaken
twice. Two accounts of one address are the smallest case in which login is
ambiguous; one address only, because accounts of different addresses never meet
in a query. With a server west of UTC (offset -1) and
life time 1 a session is stored with the instant of its making, so time 0..1 has
an instant within and one after its end. The constraint of
`MCUserService` stops a run once four of the seven calls have begun, whichever
they are: two changes of one user, or one change and the login
that must notice it, after the registrations they need; two requests of one
session with the login and the registration. It is sound for the safety
properties checked there: states beyond it are not explored, none is merged.
The symmetry sets permute calls of one kind, which nothing orders or names;
`MCBookListing` orders the statements instead of using SYMMETRY, because it also
checks `TriggerEnds`. Limit 2 of three rows leaves one out, and 0 all of them.
`CHECK_DEADLOCK FALSE` is set
where all calls may have been made and answered, which is a legitimate end.

### Violated properties

Each of the five is a disagreement between the code and what a line of the
repository says; `PROJECT.json` quotes the lines.

* `AllEventsDelivered`: the consumer asks for all events
  (`DeliverAllPolicy`), but no message is acknowledged. After `MaxAckPending`
  deliveries the server hands out nothing new, for ever.
* `DeleteReturns` with a small pool: as many concurrent Deletes as connections
  each hold one and wait for a second. Delete and Upload have no
  `context.WithTimeout`; Delete is the only call that holds a connection while it
  waits for another.
* `UniqueTitles`: two overlapping INSERTs of a user get the same title.
* `GQLServedAsOwner`: when the user of a valid session cannot be read, the
  GraphQL middleware answers "unauthorized" and calls the next handler all the
  same, with the zero user; the REST middleware returns.
* `CounterNeverNegative`: the doubled Done takes the WaitGroup below zero, which
  panics.

### Fairness

* `BookStore.Fairness`: the processor's goroutine is scheduled, the process is
  restarted, AckWait expires, an event that is tried again and again succeeds
  some day, and a waiting Fetch gets to new messages. The last is strong
  fairness of `Deliver`. A Fetch returns with 100 messages, or after a minute
  with fewer (`deleteBookBatch`, `deleteBookMaxWait`); all pending events, at
  most 1000, come back every 30 s (AckWait) and fill ten batches, each fetched and
  deleted at once, so that redeliveries do not fill every Fetch. As AckWait is
  shorter than a Fetch, a batch may hold a message twice; the model's batch is a
  set, since the keys of a batch deletion are one. Clients, Upload and Delete have
  no fairness: they may stop anywhere.
* `DeletePool.Fairness`: strong for acquiring a connection (pgxpool hands a freed
  connection to the longest waiter) and for the row lock, weak for queries that
  are answered and for the timeouts of readers. The caller of a Delete or an
  Upload never has to give up.
* `BookTitles.Fairness`: Postgres runs the trigger function on.
* `Shutdown.Fairness`: goroutines of main and Stop are scheduled, and New ends,
  as its one connection attempt (NATS) has a timeout. Run, the processor, a
  request or a query may last for ever.

### Seeded faults

Operators commented "Fault:" are plausible bugs in the definition that follows
them (an ignored error, a dropped guard, a missing reset). No action uses them;
`PROJECT.json` ("mutants") pairs each property with one that breaks it, which
shows that the property depends on the code being as it is.

## 4. Theorems

All hold for every value of the constants that meets the named assumptions.
They are proved by induction: an invariant `IInv`, a conjunction of named parts,
holds at the start and is kept by every action; each property follows from it.
An action property is proved of one step from a state with the invariant.
Every property and every strengthening was checked by TLC on the instances of
section 3 before it was proved.

* **BookStoreProofs** (TypeCorrect, ContentIsSafe, LossIsPublished,
  DeleteOkIsFinal, NoLeak, LocksLive, ErasedStaysErased, ImplementsContract).
  ContentSafe alone is not inductive. The parts it needs: paths are distinct and
  only paths given out name objects or events (`PathsDistinct`); the object
  precedes the row, and the event follows the attempt at the row
  (`ObjectRowEvent`), so that no object is written to a condemned path; an INSERT
  takes effect once, however late (`InsertedOnce`); a Delete past its read holds
  the path of a book whose INSERT has taken effect (`ReadIsFinal`), so that its
  row can only go, which is why the read outside the transaction does no harm;
  and after its DELETE the row is locked by it or gone (`DeleteProgress`), which
  makes a nil answer final. LossIsPublished names the step: a path becomes
  condemned by the compensation of its own Upload or by the publish of a Delete
  of its book - only a published event counts, not a Delete that failed before -
  and what is erased was condemned. The refinement maps stored / visible / shown
  / condemned to the books whose path is in the bucket / whose row is committed /
  whose INSERT has taken effect / whose path is in the stream.
  What the contract alone implies then holds of the stores: a deletion and an
  erasure are final (DeletionsAreFinal, ErasuresAreFinal). StandstillIsFinal is the
  general form of the run `books_stall`: for every MaxAckPending, once that many
  events are stored, content that none of them is for stays for ever. Its
  argument is that the cursor never passes the window (WindowNeverMoves) and
  that the batches hold delivered events only.
  Assumptions: `NoPath` and `NoDelete` are not values, the bounds are naturals.
* **BookDownloadProofs** (MissingIsCondemned, DeletedStaysUnreadable,
  NotFoundIsDeleted, ServesOnlyWanted). The composition's invariant adds that a
  path read from a row stays stored or condemned (`OpenedIsWanted`) and that what
  had happened when the request began is not undone (`AfterIsFinal`). `Kept`
  collects what each store step guarantees the requests, so that the actions of
  `BookStore` are looked at once. Downloads change no store, so the composition
  implements `BookStore` (ImplementsStores) and keeps what was proved of it
  (StoresStaySafe).
* **DeletePoolProofs** (AccountsHold, ConnectionsAreAccounted,
  LockHoldersAlwaysRun). With any pool, calls are in a deadlock only when as many
  Deletes as connections each hold one and wait for a second
  (DeadlocksAreFullHouses), and no step but one such Delete giving up ends it
  (DeadlocksEndByGivingUp): neither time-outs of readers nor callers of Upload
  that give up help.
* **BookTitlesProofs** (DuplicatesNeedOverlap, LoopBounded): a title free at the
  loop's last test differs from every row committed before the statement began
  and still there, since titles do not change and deleted rows do not return.
  The bound on the loop is a pigeonhole argument: every candidate given up was
  the title of a row the user had or has (`TurnsTaken`), candidates of different
  numbers differ, so the turns inject into those rows. Both carry the refinement
  (ImplementsContract): the last test makes the title free, the turns are the
  smaller numbers the contract asks for. UniqueTitles, which
  `titles_unique` refutes, is true as long as no two INSERTs of a user overlap
  (SerialInsertsAreUnique, from `InsertedIsUnique`).
* **BookListingProofs** (Implements, ListedTwinsOverlapped, ListingsCausal): the
  composition implements `BookTitles`, so what was proved there carries over
  (TitlesStaySafe); a row once shown was committed and is committed or deleted
  for good (`ReadCommitted`). While INSERTs of a user do not overlap, no listing,
  page or cut shows one title twice, though rows are deleted and their titles
  given again in between (SerialListingsHaveNoTwins).
* **AccountsProofs** (LogoutStaysFinal, AlwaysServedAsOwner,
  SharingNeedsOverlap, AlwaysLetInInTime). Parts: a logged-out session is closed
  and nothing opens it (`LoggedOutIsClosed`), a session belongs to a user with
  the address given (`SessionMade`), a user created had a free address among
  those before (`FreeWhenFound`), `CookieKnown`. With deletions, a session's row
  keeps its user there: the foreign key, checked at the INSERT and at the DELETE.
  NobodyServedAsAnother is what remains of `GQLServedAsOwner` behind both APIs:
  the owner or the zero user, never another (`HandlersInv`). LogoutShutsOut is
  about the requests that were under way when the logout was answered: those not
  validated yet are not let in. A session is only ever closed, and keeps its user
  and times (SessionsStayClosed).
* **UserServiceProofs** (Implements, ChangesStand, OldPasswordStaysOut,
  DeactivationsStand). Every step of the user service is a step or a stutter of
  `Accounts`, which carries their theorems over (AccountsStaySafe). A
  call past its comparison gave the password of each change answered before it
  began, unless that one had been replaced (`KnowsPassword`); so a change that
  replaces an answered one overlapped it or knew its password. A deleted user
  does not come back (DeletedUsersStayOut), so ErrUserNotFound stays true
  (NotFoundStaysTrue, from `TargetMade`).
* **ShutdownProofs** (CounterIsAccounted, HalfOfTheTasksAreDone), for any set of
  tasks: the counter is tasks started less one per Done, so that half of the
  tasks have come to their Done when main returns (what they were to do they may
  have given up at the deadline). With `StopOrder` (the server is shut before
  Shutdown's task comes to its Done, and does not serve from then on) follow
  LateConnectionsStayOut and NoTimeForRequests (the deadline of Stop is over
  before its first task starts). PanicsHaveCause: a panic comes from a failed
  Fetch, which can hit any process with a processor, or from the counter, which
  can hit only a process that is being stopped.
* Type correctness of every module (AlwaysTyped and its like).

Only model-checked: liveness (EarlyEventsCarriedOut, DeleteReturns,
UploadReturns, TriggerEnds, StopTerminates, FailedServerStops), which is beyond
the prover. Every safety property of the passing runs is proved.

## 5. Not modelled

* `services.Users.Update` with arbitrary columns, and the session repository's
  GetByUserID, Update, DeactivateByUserID and DeleteSessionsByUserID: no caller.
  GetByHash: no caller, and the loop of GetManyByUserID otherwise.
* The trigger `BEFORE UPDATE`: no statement of the backend updates `books`.
* Configuration: read once, before the states of the models; its values are their
  constants. Its traps (a file is decoded into zero values, not into the
  defaults; the environment is read only together with a file) are listed under
  hazards where they bite.
* Routers, URL and response middlewares, entities, generated code: wiring and
  records. The modes `-help` and `-routes` of the program print and return.
* A message that is not JSON (`event-processor.go:59-62`): the one publisher of
  the subject always writes JSON.
* Bodies left open, formatting, logging; hashing of passwords (a password stands
  for its hash).
* That a request which comes on a connection accepted before the stop is cut or
  served, that a broken listing looks complete, that a session's life is shifted
  by the time zone, and which of two owners of an address logs in: the models
  have these behaviours, no statement of the repository judges them, and the
  hazards that name them say so.
* Objects left behind by failed uploads: the code has no reaper, so they stay;
  the models let it happen and no property forbids it.
* What deactivation means for logins, and what a password change means for open
  sessions: the code does nothing, and no statement of the repository says more.

## 6. Plan

1. Done: `BookStore` with `BooksContract`, `BookDownload`, `DeletePool`,
   `BookTitles`, `Accounts`, `Shutdown`, their runs and their safety theorems.
2. Done: `UserService`, `BookListing`, the start in `Shutdown`, the refinements
   of `Accounts` and `BookTitles`, `TurnsBounded` and all type invariants proved.
3. Done: the consequences of the contracts, the standstill of the consumer as a
   safety property, `TitlesContract`, what is true of uniqueness, of pool
   deadlocks and of the GraphQL handlers although the runs refute more.
4. Open: the UPDATE trigger, as soon as a statement updates `books`; pages, once
   an offset is an offset.
