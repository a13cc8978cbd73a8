----------------------------- MODULE BookStore -----------------------------
(***************************************************************************)
(* The life of a book's content across the three stores of the backend:    *)
(* the S3 bucket (objects), the Postgres table books (rows) and the NATS   *)
(* JetStream stream BOOKS with its durable consumer "books-deleter".       *)
(*                                                                         *)
(* Upload (services/books.go) writes the object, then the row; when the    *)
(* row cannot be written it publishes a deletion event for the object.     *)
(* Delete (services/books.go) deletes the row in a transaction and         *)
(* publishes the event before the commit.  The event processor             *)
(* (services/event-processor.go) fetches the events and removes objects;   *)
(* it never acknowledges a message, so every delivered event stays pending *)
(* at the server, is redelivered for ever, and counts against the          *)
(* consumer's MaxAckPending.                                               *)
(*                                                                         *)
(* Every call that crosses the network may fail, and may fail after it     *)
(* took effect (the answer is lost, the request context is cancelled); an  *)
(* INSERT that was not answered may even be committed later.               *)
(* The process may die between any two steps.                              *)
(***************************************************************************)
EXTENDS Naturals, Sequences, FiniteSets

CONSTANTS
    Uploads,        \* Upload calls; each creates at most one row, so they also name the book ids
    Deletes,        \* Delete calls
    Paths,          \* the storage paths a uuid can give
    NoPath,         \* the zero value of StoragePath
    NoDelete,       \* no transaction holds the row
    MaxAckPending,  \* JetStream's bound on delivered, unacknowledged messages (1000 in production)
    BatchSize,      \* deleteBookBatch (100 in production)
    MaxCrashes      \* bound: how often the process dies

ASSUME PathsAssumption == NoPath \notin Paths
ASSUME DeletesAssumption == NoDelete \notin Deletes
ASSUME BoundsAssumption ==
    /\ MaxAckPending \in Nat \ {0}
    /\ BatchSize \in Nat \ {0}
    /\ MaxCrashes \in Nat

VARIABLES
    objects,     \* the keys present in the books bucket
    rows,        \* the committed rows of table books
    inserted,    \* inserted[b]: the INSERT of Upload call b was never sent ("no"), ended
                 \* without an answer and may yet be committed ("doubt"), was committed ("yes")
    path,        \* path[b]: StoragePath chosen by Upload call b, and column path of row b
    upload,      \* upload[b]: where Upload call b stands, or what it returned
    delete,      \* delete[d]: where Delete call d stands, or what it returned
    target,      \* target[d]: the bookID Delete call d was given
    found,       \* found[d]: StoragePath that d read from the row
    lock,        \* lock[b]: the open transaction that deleted row b
    stream,      \* the events stored in stream BOOKS, in order
    streamReady, \* CreateOrUpdateStream has succeeded once
    cursor,      \* events 1..cursor have been delivered at least once
    due,         \* delivered events whose AckWait has run out
    proc,        \* where the event processor stands
    batch,       \* the events of the current Fetch
    alive,       \* the process runs
    crashes      \* how often it has died

uploadVars == <<path, upload>>
deleteVars == <<delete, target, found>>
dbVars     == <<rows, inserted, lock>>
natsVars   == <<stream, streamReady, cursor, due>>
procVars   == <<proc, batch>>
envVars    == <<alive, crashes>>
vars == <<objects, rows, inserted, path, upload, delete, target, found, lock, stream,
          streamReady, cursor, due, proc, batch, alive, crashes>>

UploadRunning == {"put", "insert", "compensate"}
UploadDone    == {"ok", "ErrInternal", "killed"}
DeleteRunning == {"get", "exec", "publish", "commit"}
\* What txManager.Do can hand back; repoErrBookNotFound is the repository's
\* error of that name, ErrBookNotFound the service's.
DeleteDone == {"ok", "repoErrBookNotFound", "ErrBookNotFound", "ErrInternal", "TxErr", "killed"}

TypeOK ==
    /\ objects \subseteq Paths
    /\ rows \subseteq Uploads
    /\ inserted \in [Uploads -> {"no", "doubt", "yes"}]
    /\ path \in [Uploads -> Paths \cup {NoPath}]
    /\ upload \in [Uploads -> {"idle"} \cup UploadRunning \cup UploadDone]
    /\ delete \in [Deletes -> {"idle"} \cup DeleteRunning \cup DeleteDone]
    /\ target \in [Deletes -> Uploads]
    /\ found \in [Deletes -> Paths \cup {NoPath}]
    /\ lock \in [Uploads -> Deletes \cup {NoDelete}]
    /\ stream \in Seq(Paths)
    /\ streamReady \in BOOLEAN
    /\ cursor \in Nat
    /\ due \subseteq 1..cursor
    /\ proc \in {"createStream", "createConsumer", "fetch", "batchDelete", "stopped"}
    /\ batch \subseteq 1..cursor
    /\ alive \in BOOLEAN
    /\ crashes \in 0..MaxCrashes

Init ==
    /\ objects = {}
    /\ rows = {}
    /\ inserted = [b \in Uploads |-> "no"]
    /\ path = [b \in Uploads |-> NoPath]
    /\ upload = [b \in Uploads |-> "idle"]
    /\ delete = [d \in Deletes |-> "idle"]
    /\ target \in [Deletes -> Uploads]
    /\ found = [d \in Deletes |-> NoPath]
    /\ lock = [b \in Uploads |-> NoDelete]
    /\ stream = <<>>
    /\ streamReady = FALSE
    /\ cursor = 0
    /\ due = {}
    /\ proc = "createStream"
    /\ batch = {}
    /\ alive = TRUE
    /\ crashes = 0

-----------------------------------------------------------------------------
(* Publishing an event (services/events.go).                               *)

\* js.Publish answers without error: the server has stored the message.
Published(p) == streamReady /\ stream' = Append(stream, p)

\* js.Publish answers with an error: there is no stream, the message was
\* lost, or it was stored and only the acknowledgement was lost.
PublishFailed(p) == stream' = stream \/ Published(p)

-----------------------------------------------------------------------------
(* Upload: object first, row second, compensating event last.              *)

\* Fault: the path is not unique, as if it were made from the title.
createStoragePathShared == Paths

\* The paths uuid.New can give: any that no call has been given before.
createStoragePath == {p \in Paths : \A b \in Uploads : path[b] # p}

UploadStep(b, from, to) ==
    /\ alive
    /\ upload[b] = from
    /\ upload' = [upload EXCEPT ![b] = to]

StartUpload(b) ==
    /\ UploadStep(b, "idle", "put")
    /\ \E p \in createStoragePath : path' = [path EXCEPT ![b] = p]
    /\ UNCHANGED <<objects, dbVars, deleteVars, natsVars, procVars, envVars>>

PutObject(b) ==
    /\ UploadStep(b, "put", "insert")
    /\ objects' = objects \cup {path[b]}
    /\ UNCHANGED <<path, dbVars, deleteVars, natsVars, procVars, envVars>>

\* Fault: the error of PutObject is not looked at.
PutObjectFailsIgnored(b) ==
    /\ UploadStep(b, "put", "insert")
    /\ objects' \in {objects, objects \cup {path[b]}}
    /\ UNCHANGED <<path, dbVars, deleteVars, natsVars, procVars, envVars>>

\* PutObject returns an error; the object may have been stored all the same.
\* Upload returns at once and publishes nothing.
PutObjectFails(b) ==
    /\ UploadStep(b, "put", "ErrInternal")
    /\ objects' \in {objects, objects \cup {path[b]}}
    /\ UNCHANGED <<path, dbVars, deleteVars, natsVars, procVars, envVars>>

\* The row of b is committed.
CommitInsert(b) ==
    /\ rows' = rows \cup {b}
    /\ inserted' = [inserted EXCEPT ![b] = "yes"]

Create(b) ==
    /\ UploadStep(b, "insert", "ok")
    /\ CommitInsert(b)
    /\ UNCHANGED <<objects, path, lock, deleteVars, natsVars, procVars, envVars>>

\* The INSERT returns an error.  Being a statement of its own it may take
\* effect all the same, now or when Upload has long gone on: CreateLate.
CreateFails(b) ==
    /\ UploadStep(b, "insert", "compensate")
    /\ inserted' = [inserted EXCEPT ![b] = "doubt"]
    /\ UNCHANGED <<objects, path, rows, lock, deleteVars, natsVars, procVars, envVars>>

\* Postgres commits an INSERT that no one waits for any more.
CreateLate(b) ==
    /\ inserted[b] = "doubt"
    /\ CommitInsert(b)
    /\ UNCHANGED <<objects, uploadVars, lock, deleteVars, natsVars, procVars, envVars>>

\* Fault: after the compensating event the upload is tried again, under the
\* same path.
CompensateAndRetry(b) ==
    /\ UploadStep(b, "compensate", "put")
    /\ PublishFailed(path[b])
    /\ UNCHANGED <<objects, path, dbVars, deleteVars, streamReady, cursor, due, procVars, envVars>>

\* Whatever the publisher answers, Upload returns ErrInternal.
Compensate(b) ==
    /\ UploadStep(b, "compensate", "ErrInternal")
    /\ PublishFailed(path[b])
    /\ UNCHANGED <<objects, path, dbVars, deleteVars, streamReady, cursor, due, procVars, envVars>>

-----------------------------------------------------------------------------
(* Delete: txManager.Do around a read, a DELETE and a publish.             *)

DeleteStep(d, from, to) ==
    /\ alive
    /\ delete[d] = from
    /\ delete' = [delete EXCEPT ![d] = to]

\* The locks left when d's transaction has ended.
Unlocked(d) == [b \in Uploads |-> IF lock[b] = d THEN NoDelete ELSE lock[b]]

\* Fault: the transaction is forgotten, not rolled back.
RollbackForgotten(d) == d \in Deletes /\ UNCHANGED dbVars

\* The function passed to Do returned an error, or Commit failed: the
\* transaction is rolled back and its row lock is released.
Rollback(d) == lock' = Unlocked(d) /\ UNCHANGED <<rows, inserted>>

BeginDelete(d) ==
    /\ \E to \in {"get", "TxErr"} : DeleteStep(d, "idle", to)
    /\ UNCHANGED <<objects, uploadVars, dbVars, target, found, natsVars, procVars, envVars>>

\* GetByID reads through the pool, outside the transaction: it sees the row
\* as last committed and takes no lock on it.
GetByID(d) ==
    /\ target[d] \in rows
    /\ DeleteStep(d, "get", "exec")
    /\ found' = [found EXCEPT ![d] = path[target[d]]]
    /\ UNCHANGED <<objects, uploadVars, dbVars, target, natsVars, procVars, envVars>>

\* The error branch maps a missing row to the repository's error and every
\* other failure to the service's ErrBookNotFound.
GetByIDFails(d) ==
    /\ \/ target[d] \notin rows /\ DeleteStep(d, "get", "repoErrBookNotFound")
       \/ DeleteStep(d, "get", "ErrBookNotFound")
    /\ Rollback(d)
    /\ UNCHANGED <<objects, uploadVars, target, found, natsVars, procVars, envVars>>

\* Fault: the DELETE runs on the pool, outside the transaction.
ExecDeleteOutsideTx(d) ==
    /\ DeleteStep(d, "exec", "publish")
    /\ lock[target[d]] = NoDelete
    /\ rows' = rows \ {target[d]}
    /\ UNCHANGED <<objects, inserted, lock, uploadVars, target, found, natsVars, procVars, envVars>>

\* DELETE waits while another open transaction has deleted the row.  It finds
\* no row once that one has committed, and the number of rows is not looked at.
ExecDelete(d) ==
    /\ DeleteStep(d, "exec", "publish")
    /\ lock[target[d]] = NoDelete
    /\ lock' = IF target[d] \in rows THEN [lock EXCEPT ![target[d]] = d] ELSE lock
    /\ UNCHANGED <<objects, rows, inserted, uploadVars, target, found, natsVars, procVars, envVars>>

\* Fault: the error of the DELETE is only logged.
ExecDeleteFailsIgnored(d) ==
    /\ DeleteStep(d, "exec", "publish")
    /\ UNCHANGED <<objects, uploadVars, dbVars, target, found, natsVars, procVars, envVars>>

ExecDeleteFails(d) ==
    /\ DeleteStep(d, "exec", "ErrInternal")
    /\ Rollback(d)
    /\ UNCHANGED <<objects, uploadVars, target, found, natsVars, procVars, envVars>>

PublishDelete(d) ==
    /\ DeleteStep(d, "publish", "commit")
    /\ Published(found[d])
    /\ UNCHANGED <<objects, uploadVars, dbVars, target, found, streamReady, cursor, due, procVars, envVars>>

\* Fault: the error of the publisher is only logged.
PublishDeleteFailsIgnored(d) ==
    /\ DeleteStep(d, "publish", "commit")
    /\ PublishFailed(found[d])
    /\ UNCHANGED <<objects, uploadVars, dbVars, target, found, streamReady, cursor, due, procVars, envVars>>

\* The row comes back with the rollback even when the event was stored.
PublishDeleteFails(d) ==
    /\ DeleteStep(d, "publish", "ErrInternal")
    /\ PublishFailed(found[d])
    /\ Rollback(d)
    /\ UNCHANGED <<objects, uploadVars, target, found, streamReady, cursor, due, procVars, envVars>>

\* The rows left when d's transaction has committed.
Committed(d) == {b \in rows : lock[b] # d}

Commit(d) ==
    /\ DeleteStep(d, "commit", "ok")
    /\ rows' = Committed(d)
    /\ lock' = Unlocked(d)
    /\ UNCHANGED <<objects, inserted, uploadVars, target, found, natsVars, procVars, envVars>>

\* COMMIT returns an error; the server may have committed all the same.
CommitFails(d) ==
    /\ DeleteStep(d, "commit", "TxErr")
    /\ rows' \in {rows, Committed(d)}
    /\ lock' = Unlocked(d)
    /\ UNCHANGED <<objects, inserted, uploadVars, target, found, natsVars, procVars, envVars>>

-----------------------------------------------------------------------------
(* The event processor (services/event-processor.go) and the consumer it   *)
(* fetches from.                                                           *)

ProcStep(from, to) == alive /\ proc = from /\ proc' = to

CreateStream ==
    /\ ProcStep("createStream", "createConsumer")
    /\ streamReady' = TRUE
    /\ UNCHANGED <<objects, uploadVars, dbVars, deleteVars, stream, cursor, due, batch, envVars>>

CreateConsumer ==
    /\ ProcStep("createConsumer", "fetch")
    /\ UNCHANGED <<objects, uploadVars, dbVars, deleteVars, natsVars, batch, envVars>>

\* Run returns the error; app.Run logs it and the server goes on without a processor.
SetupFails ==
    /\ \E from \in {"createStream", "createConsumer"} : ProcStep(from, "stopped")
    /\ UNCHANGED <<objects, uploadVars, dbVars, deleteVars, natsVars, batch, envVars>>

RoomInBatch == alive /\ proc = "fetch" /\ Cardinality(batch) < BatchSize

\* Fault: the delivery is not recorded.
DeliverUnrecorded ==
    /\ RoomInBatch
    /\ cursor < Len(stream)
    /\ cursor < MaxAckPending
    /\ batch' = batch \cup {cursor + 1}
    /\ UNCHANGED <<objects, uploadVars, dbVars, deleteVars, natsVars, proc, envVars>>

\* A new message is delivered to the waiting Fetch, unless as many as
\* MaxAckPending are unacknowledged: all that were ever delivered are.  The
\* server serves queued redeliveries first; here either may go first.
Deliver ==
    /\ RoomInBatch
    /\ cursor < Len(stream)
    /\ cursor < MaxAckPending
    /\ cursor' = cursor + 1
    /\ batch' = batch \cup {cursor + 1}
    /\ UNCHANGED <<objects, uploadVars, dbVars, deleteVars, stream, streamReady, due, proc, envVars>>

\* A message no one acknowledged is delivered again.
Redeliver(s) ==
    /\ RoomInBatch
    /\ s \in due
    /\ due' = due \ {s}
    /\ batch' = batch \cup {s}
    /\ UNCHANGED <<objects, uploadVars, dbVars, deleteVars, stream, streamReady, cursor, proc, envVars>>

\* Fault: messages are acknowledged when they are fetched, so none is due again.
AckWaitNeverExpires(s) == s \in {} /\ UNCHANGED vars

\* The server gives up waiting for an acknowledgement of message s.
AckWaitExpires(s) ==
    /\ s \in 1..cursor \ due
    /\ due' = due \cup {s}
    /\ UNCHANGED <<objects, uploadVars, dbVars, deleteVars, stream, streamReady, cursor, procVars, envVars>>

\* The batch is complete or FetchMaxWait is over: the channel is closed.
FetchEnds ==
    /\ ProcStep("fetch", "batchDelete")
    /\ UNCHANGED <<objects, uploadVars, dbVars, deleteVars, natsVars, batch, envVars>>

BatchPaths == {stream[s] : s \in batch}

\* DeleteObjects removes the keys `gone`; the others, and an error of the
\* whole request, are only logged.  No message is acknowledged.
BatchDelete(gone) ==
    /\ ProcStep("batchDelete", "fetch")
    /\ objects' = objects \ gone
    /\ batch' = {}
    /\ UNCHANGED <<uploadVars, dbVars, deleteVars, natsVars, envVars>>

-----------------------------------------------------------------------------
(* The process dies: calls end without an answer, Postgres rolls open      *)
(* transactions back; an INSERT that was sent may yet be committed.  The   *)
(* bucket, the rows, the stream and the consumer stay.  A Fetch that       *)
(* returns an error is one way to die: its nil batch is used               *)
(* (event-processor.go:54-56).                                             *)

Crash ==
    /\ alive
    /\ crashes < MaxCrashes
    /\ alive' = FALSE
    /\ crashes' = crashes + 1
    /\ upload' = [b \in Uploads |-> IF upload[b] \in UploadRunning THEN "killed" ELSE upload[b]]
    /\ delete' = [d \in Deletes |-> IF delete[d] \in DeleteRunning THEN "killed" ELSE delete[d]]
    /\ inserted' = [b \in Uploads |-> IF upload[b] = "insert" THEN "doubt" ELSE inserted[b]]
    /\ lock' = [b \in Uploads |-> NoDelete]
    /\ proc' = "createStream"
    /\ batch' = {}
    /\ UNCHANGED <<objects, rows, path, target, found, natsVars>>

Restart ==
    /\ ~alive
    /\ alive' = TRUE
    /\ UNCHANGED <<objects, uploadVars, dbVars, deleteVars, natsVars, procVars, crashes>>

-----------------------------------------------------------------------------
UploadNext(b) ==
    \/ StartUpload(b) \/ PutObject(b) \/ PutObjectFails(b)
    \/ Create(b) \/ CreateFails(b) \/ CreateLate(b) \/ Compensate(b)

DeleteNext(d) ==
    \/ BeginDelete(d) \/ GetByID(d) \/ GetByIDFails(d)
    \/ ExecDelete(d) \/ ExecDeleteFails(d)
    \/ PublishDelete(d) \/ PublishDeleteFails(d)
    \/ Commit(d) \/ CommitFails(d)

ProcNext ==
    \/ CreateStream \/ CreateConsumer \/ SetupFails
    \/ Deliver \/ FetchEnds
    \/ \E s \in 1..cursor : Redeliver(s) \/ AckWaitExpires(s)
    \/ \E gone \in SUBSET BatchPaths : BatchDelete(gone)

Next ==
    \/ \E b \in Uploads : UploadNext(b)
    \/ \E d \in Deletes : DeleteNext(d)
    \/ ProcNext
    \/ Crash
    \/ Restart

Spec == Init /\ [][Next]_vars

(***************************************************************************)
(* Fairness.  The goroutine of the processor keeps running; whoever runs   *)
(* the process restarts it; the server lets AckWait (30 s) expire and      *)
(* serves a waiting Fetch.  Redeliveries of all pending events (at most    *)
(* MaxAckPending, 1000) fill ten batches of 100 every 30 s; a full batch   *)
(* is fetched and deleted at once, so a Fetch gets to new messages in      *)
(* between: SF of Deliver.  An event tried for ever succeeds some day.     *)
(* Nothing is assumed of clients, of Upload or of Delete.                  *)
(***************************************************************************)
Fairness ==
    /\ WF_vars(Restart)
    /\ WF_vars(CreateStream \/ SetupFails)
    /\ WF_vars(CreateConsumer \/ SetupFails)
    /\ WF_vars(FetchEnds)
    /\ SF_vars(Deliver)
    /\ \A s \in 1..MaxAckPending :
          /\ WF_vars(AckWaitExpires(s))
          /\ SF_vars(Redeliver(s))
          /\ SF_vars(s \in batch /\ BatchDelete(BatchPaths))
    /\ WF_vars(\E gone \in SUBSET BatchPaths : BatchDelete(gone))

FairSpec == Spec /\ Fairness
-----------------------------------------------------------------------------
(* Properties.                                                             *)

condemned == {stream[s] : s \in 1..Len(stream)}

\* A row that can be read points at content that exists, unless a deletion
\* event for that content is already stored: neither a failed upload, nor a
\* crash, nor another book's deletion takes the content of a book away.
ContentSafe == \A b \in rows : path[b] \in objects \cup condemned

\* Delete answering nil means the row is gone and the content's deletion is
\* on record, whatever other Deletes of the same book did in between.
DeleteOkMeansGone ==
    \A d \in Deletes :
        delete[d] = "ok" => target[d] \notin rows /\ path[target[d]] \in condemned

\* The content of a successfully uploaded book never leaks: when its row is
\* gone, its deletion event is in the stream.
NoLeakAfterOk ==
    \A b \in Uploads : upload[b] = "ok" => b \in rows \/ path[b] \in condemned

\* An open transaction that has deleted a row is the only one that has, and
\* a transaction that has ended, or died with the process, holds no row.
LocksAreLive ==
    \A b \in Uploads :
        lock[b] # NoDelete =>
            alive /\ target[lock[b]] = b /\ delete[lock[b]] \in {"publish", "commit"} /\ b \in rows

\* Nothing but a publish takes a book's content: the publish of its own failed
\* Upload, or that of a Delete of this very book, puts the event on record, and
\* content goes only with the event on record.  A rolled back Delete, another
\* book's Delete or Upload, a batch that fails or comes again cost it nothing.
LossNeedsPublish ==
    [][\A b \in Uploads :
          /\ path[b] \in condemned' \ condemned =>
                \/ Compensate(b)
                \/ \E d \in Deletes :
                      target[d] = b /\ (PublishDelete(d) \/ PublishDeleteFails(d))
          /\ path[b] \in objects \ objects' => path[b] \in condemned]_vars

\* Once the content of a condemned book is removed it never comes back.
NoResurrection == [][\A p \in condemned : p \in objects' => p \in objects]_vars

CarriedOut(n) == n \in DOMAIN stream /\ stream[n] \notin objects

\* Each of the first MaxAckPending events is carried out in the end, over
\* failed batches and crashes, unless the processor's set-up failed.
EarlyEventsCarriedOut ==
    \A n \in 1..MaxAckPending :
        Len(stream) >= n ~> proc = "stopped" \/ CarriedOut(n)

\* DeliverAllPolicy: every stored event is delivered to the processor,
\* unless the processor's set-up failed.
AllEventsDelivered ==
    \A n \in 1..(Cardinality(Uploads) + Cardinality(Deletes)) :
        Len(stream) >= n ~> proc = "stopped" \/ cursor >= n

\* Content that exists and that none of the first MaxAckPending events is for,
\* when that many events have been stored.
Stalled(p) ==
    /\ p \in objects
    /\ Len(stream) >= MaxAckPending
    /\ p \notin {stream[s] : s \in 1..MaxAckPending}

\* Nothing acknowledges a message, so the processor is at a standstill once
\* MaxAckPending events are pending: content that is deleted later stays in
\* the bucket for ever, over crashes and restarts.
StalledForever == \A p \in Paths : [](Stalled(p) => []Stalled(p))

-----------------------------------------------------------------------------
(* Why they hold: an inductive invariant, in parts.                        *)

\* Upload call b is past the point where it can write its row.
Settled(b) == upload[b] \in {"compensate"} \cup UploadDone

\* No more than MaxAckPending events are ever delivered for the first time.
WindowBounded == cursor <= MaxAckPending

\* Calls under way know their storage path, and the consumer never runs
\* ahead of the stream.
PathKnown ==
    /\ \A b \in Uploads : upload[b] \in UploadRunning => path[b] \in Paths
    /\ \A b \in Uploads : b \in rows \/ inserted[b] = "doubt" => path[b] \in Paths
    /\ \A d \in Deletes : delete[d] \in {"exec", "publish", "commit"} => found[d] \in Paths
    /\ cursor <= Len(stream)

\* No two uploads share a storage path, and only paths given to an upload
\* name an object or an event.
PathsDistinct ==
    /\ \A b, c \in Uploads : path[b] = path[c] /\ path[b] # NoPath => b = c
    /\ \A b \in Uploads : upload[b] = "idle" => path[b] = NoPath
    /\ \A p \in objects \cup condemned : \E b \in Uploads : path[b] = p

\* An INSERT takes effect once, and only for an Upload that sent it.
InsertedOnce ==
    \A b \in Uploads :
        /\ b \in rows => inserted[b] = "yes"
        /\ upload[b] = "ok" => inserted[b] = "yes"
        /\ inserted[b] # "no" => Settled(b)

\* The object precedes the row, and the event follows the attempt at the row.
ObjectRowEvent ==
    /\ \A b \in Uploads : path[b] \in condemned => Settled(b)
    /\ \A b \in Uploads :
          upload[b] \in {"insert", "compensate"} \/ inserted[b] = "doubt" =>
              path[b] \in objects \cup condemned

\* A Delete past its read holds the path of a row that can only disappear,
\* and of content that was stored.
ReadIsFinal ==
    \A d \in Deletes :
        delete[d] \in {"exec", "publish", "commit", "ok"} =>
            /\ found[d] = path[target[d]]
            /\ found[d] \in objects \cup condemned
            /\ inserted[target[d]] = "yes"

\* A Delete that executed holds the row's lock, unless the row is gone; one
\* that published has condemned the content.
DeleteProgress ==
    \A d \in Deletes :
        /\ delete[d] \in {"publish", "commit"} => target[d] \notin rows \/ lock[target[d]] = d
        /\ delete[d] = "commit" => path[target[d]] \in condemned

TypeInv == TypeOK /\ PathKnown

IInv ==
    /\ TypeInv
    /\ PathsDistinct
    /\ InsertedOnce
    /\ ObjectRowEvent
    /\ ReadIsFinal
    /\ LocksAreLive
    /\ DeleteProgress
    /\ DeleteOkMeansGone
    /\ ContentSafe
    /\ NoLeakAfterOk

-----------------------------------------------------------------------------
(* The abstract specification and the mapping onto it.                     *)

Contract == INSTANCE BooksContract WITH
    Books     <- Uploads,
    stored    <- {b \in Uploads : path[b] \in objects},
    visible   <- rows,
    shown     <- {b \in Uploads : inserted[b] = "yes"},
    condemned <- {b \in Uploads : path[b] \in condemned}

\* Seen through the mapping, every behaviour of the three stores is one the
\* contract allows: stored before listed, condemned before hidden or erased,
\* listed at most once and never stored again.
KeepsContract == Contract!Spec
=============================================================================
