------------------------------ MODULE Shutdown ------------------------------
(***************************************************************************)
(* Starting and stopping the backend.  main (cmd/api/main.go) makes the    *)
(* App, starts app.Run in a goroutine, waits until ctx is cancelled, by a  *)
(* signal or by the failure of Run, and calls app.Stop.  Nothing makes     *)
(* Stop wait for Run: it may come before Run has done anything.            *)
(*                                                                         *)
(* Stop (internal/app/api/api.go) starts three tasks with wg.Go -          *)
(* server.Shutdown, pool.Close, nc.Drain - and waits for the WaitGroup;    *)
(* main returns, which ends the process.                                   *)
(*                                                                         *)
(* wg.Go counts the task itself: it adds 1 before it starts the task and   *)
(* calls Done when the task returns.  Every task also calls wg.Done at its *)
(* end, so each is counted down twice.  Below zero the WaitGroup panics.   *)
(*                                                                         *)
(* The deadline of Stop is made from the App's ctx, which is cancelled by  *)
(* then: no task waits for the requests under way.                         *)
(***************************************************************************)
EXTENDS Integers, FiniteSets

CONSTANTS
    Tasks,      \* the functions given to wg.Go, started in any order
    Shutdown,   \* the one that runs server.Shutdown
    Close,      \* the one that runs pool.Close
    Drain,      \* the one that runs nc.Drain
    Requests    \* HTTP connections, each with its one request

ASSUME TasksAssumption ==
    /\ IsFiniteSet(Tasks)
    /\ {Shutdown, Close, Drain} \subseteq Tasks
    /\ Cardinality({Shutdown, Close, Drain}) = 3

VARIABLES
    main,       \* where main stands: see TypeOK
    cancelled,  \* ctx is done
    task,       \* task[t]: "new", "work", "done" (at wg.Done), "return", "over"
    counter,    \* the WaitGroup's counter
    run,        \* the goroutine of app.Run: "none" yet, at its "begin", at the
                \* call of ListenAndServe ("listen"), "serving", or "ended"
    shut,       \* server.Shutdown has been called
    poolOpen,   \* the pool hands out connections
    draining,   \* the NATS connection takes no new subscription
    processor,  \* the event processor: "none" yet, at the set-up of its stream
                \* and its consumer, at its test of ctx, at the call of Fetch,
                \* in it, ended, or "failed" on the nil batch
    request     \* request[r]: "idle", "connected", "handler", "query" (holds a
                \* connection of the pool), "answered", "closed" without a request

vars == <<main, cancelled, task, counter, run, shut, poolOpen, draining, processor, request>>

taskVars == <<task, counter>>
otherVars == <<cancelled, run, shut, poolOpen, draining>>

TypeOK ==
    /\ main \in {"starting", "running", "stopping", "waiting", "exited", "failed", "panicked"}
    /\ cancelled \in BOOLEAN
    /\ task \in [Tasks -> {"new", "work", "done", "return", "over"}]
    /\ counter \in Int
    /\ run \in {"none", "begin", "listen", "serving", "ended"}
    /\ shut \in BOOLEAN
    /\ poolOpen \in BOOLEAN
    /\ draining \in BOOLEAN
    /\ processor \in {"none", "stream", "consumer", "test", "call", "fetch", "ended", "failed"}
    /\ request \in [Requests -> {"idle", "connected", "handler", "query", "answered", "closed"}]

Init ==
    /\ main = "starting"
    /\ cancelled = FALSE
    /\ task = [t \in Tasks |-> "new"]
    /\ counter = 0
    /\ run = "none"
    /\ shut = FALSE
    /\ poolOpen = TRUE
    /\ draining = FALSE
    /\ processor = "none"
    /\ request = [r \in Requests |-> "idle"]

Ended == main \in {"exited", "failed", "panicked"}

-----------------------------------------------------------------------------
(* main.                                                                   *)

\* SIGINT or SIGTERM.
Signal ==
    /\ ~Ended
    /\ cancelled' = TRUE
    /\ UNCHANGED <<main, taskVars, run, shut, poolOpen, draining, processor, request>>

\* The App is made, the goroutine of app.Run started.  ctx plays no part:
\* neither pgxpool.New, which only parses, nor nats.Connect waits for it.
New ==
    /\ main = "starting"
    /\ main' = "running"
    /\ run' = "begin"
    /\ UNCHANGED <<cancelled, taskVars, shut, poolOpen, draining, processor, request>>

\* os.Exit(1): for instance NATS cannot be reached.
NewFails ==
    /\ main = "starting"
    /\ main' = "failed"
    /\ UNCHANGED <<taskVars, otherVars, processor, request>>

Stop ==
    /\ main = "running"
    /\ cancelled
    /\ main' = "stopping"
    /\ UNCHANGED <<taskVars, otherVars, processor, request>>

Go(t) ==
    /\ main = "stopping"
    /\ task[t] = "new"
    /\ task' = [task EXCEPT ![t] = "work"]
    /\ counter' = counter + 1
    /\ UNCHANGED <<main, otherVars, processor, request>>

Wait ==
    /\ main = "stopping"
    /\ \A t \in Tasks : task[t] # "new"
    /\ main' = "waiting"
    /\ UNCHANGED <<taskVars, otherVars, processor, request>>

\* Fault: Stop returns without wg.Wait.
ExitAtOnce ==
    /\ main = "waiting"
    /\ main' = "exited"
    /\ UNCHANGED <<taskVars, otherVars, processor, request>>

\* wg.Wait returns, Stop and main return: the process ends with whatever is
\* still under way.
Exit ==
    /\ main = "waiting"
    /\ counter = 0
    /\ main' = "exited"
    /\ UNCHANGED <<taskVars, otherVars, processor, request>>

-----------------------------------------------------------------------------
(* The tasks.                                                              *)

\* Fault: Stop has no deadline.
DeadlineNever == FALSE

\* c, made by WithTimeout(a.ctx, timeout), is done as soon as a.ctx is.
DeadlineOver == cancelled

TaskStep(t, from, to) ==
    /\ ~Ended
    /\ task[t] = from
    /\ task' = [task EXCEPT ![t] = to]

\* What the task started has taken hold.
StopListening ==
    /\ ~Ended
    /\ task[Shutdown] = "work"
    /\ shut' = TRUE
    /\ run' = IF run = "serving" THEN "ended" ELSE run
    /\ UNCHANGED <<main, cancelled, taskVars, poolOpen, draining, processor, request>>

\* pool.Close has a goroutine of its own; it may come after the task's end.
ClosePool ==
    /\ ~Ended
    /\ task[Close] # "new"
    /\ poolOpen' = FALSE
    /\ UNCHANGED <<main, cancelled, taskVars, run, shut, draining, processor, request>>

BeginDrain ==
    /\ ~Ended
    /\ task[Drain] = "work"
    /\ draining' = TRUE
    /\ UNCHANGED <<main, cancelled, taskVars, run, shut, poolOpen, processor, request>>

\* server.Shutdown returns when no request is under way or at the deadline.  A
\* connection that has sent no request yet does not keep it for long.
Idle == \A r \in Requests : request[r] \notin {"handler", "query"}

\* pool.Close returns when every connection has been given back.
NoQuery == \A r \in Requests : request[r] # "query"

\* Fault: Shutdown is waited for like pool.Close, up to the deadline.
FinishAtDeadline(t) ==
    /\ TaskStep(t, "work", "done")
    /\ t = Shutdown => (shut /\ Idle) \/ DeadlineOver
    /\ t = Close => (~poolOpen /\ NoQuery) \/ DeadlineOver
    /\ t = Drain => draining
    /\ UNCHANGED <<main, counter, otherVars, processor, request>>

Finish(t) ==
    /\ TaskStep(t, "work", "done")
    /\ t = Shutdown => shut /\ (Idle \/ DeadlineOver)
    /\ t = Close => (~poolOpen /\ NoQuery) \/ DeadlineOver
    /\ t = Drain => draining
    /\ UNCHANGED <<main, counter, otherVars, processor, request>>

\* The counter goes down by one; below zero the process panics.
CountDown ==
    /\ counter' = counter - 1
    /\ main' = IF counter' < 0 THEN "panicked" ELSE main

\* The call of wg.Done that ends the function.
Done(t) ==
    /\ TaskStep(t, "done", "return")
    /\ CountDown
    /\ UNCHANGED <<otherVars, processor, request>>

\* The call of Done that wg.Go makes when the function returns.
Return(t) ==
    /\ TaskStep(t, "return", "over")
    /\ CountDown
    /\ UNCHANGED <<otherVars, processor, request>>

-----------------------------------------------------------------------------
(* The goroutine of app.Run.                                               *)

\* The event processor is given a goroutine of its own.
StartProcessor ==
    /\ ~Ended
    /\ run = "begin"
    /\ run' = "listen"
    /\ processor' = "stream"
    /\ UNCHANGED <<main, cancelled, taskVars, shut, poolOpen, draining, request>>

\* After Shutdown ListenAndServe returns ErrServerClosed at once.
ListenAndServe ==
    /\ ~Ended
    /\ run = "listen"
    /\ run' = IF shut THEN "ended" ELSE "serving"
    /\ UNCHANGED <<main, cancelled, taskVars, shut, poolOpen, draining, processor, request>>

\* Fault: the failure is only logged.
RunFailsLogged ==
    /\ ~Ended
    /\ ~shut
    /\ run \in {"listen", "serving"}
    /\ run' = "ended"
    /\ UNCHANGED <<main, cancelled, taskVars, shut, poolOpen, draining, processor, request>>

\* The port cannot be bound, or accepting fails later: logged, ctx cancelled.
RunFails ==
    /\ ~Ended
    /\ ~shut
    /\ run \in {"listen", "serving"}
    /\ run' = "ended"
    /\ cancelled' = TRUE
    /\ UNCHANGED <<main, taskVars, shut, poolOpen, draining, processor, request>>

-----------------------------------------------------------------------------
(* The event processor and the requests.                                   *)

\* A call of NATS with a cancelled ctx fails.
CreateStream ==
    /\ ~Ended
    /\ processor = "stream"
    /\ ~cancelled
    /\ processor' = "consumer"
    /\ UNCHANGED <<main, taskVars, otherVars, request>>

CreateConsumer ==
    /\ ~Ended
    /\ processor = "consumer"
    /\ ~cancelled
    /\ processor' = "test"
    /\ UNCHANGED <<main, taskVars, otherVars, request>>

\* Logged; the server goes on without an event processor.
SetupFails ==
    /\ ~Ended
    /\ processor \in {"stream", "consumer"}
    /\ processor' = "ended"
    /\ UNCHANGED <<main, taskVars, otherVars, request>>

TestCtx ==
    /\ ~Ended
    /\ processor = "test"
    /\ processor' = IF cancelled THEN "ended" ELSE "call"
    /\ UNCHANGED <<main, taskVars, otherVars, request>>

\* A draining connection takes no new subscription.
Fetch ==
    /\ ~Ended
    /\ processor = "call"
    /\ ~draining
    /\ processor' = "fetch"
    /\ UNCHANGED <<main, taskVars, otherVars, request>>

\* nats.ErrTimeout: the loop goes on.
FetchTimesOut ==
    /\ ~Ended
    /\ processor = "call"
    /\ ~draining
    /\ processor' = "test"
    /\ UNCHANGED <<main, taskVars, otherVars, request>>

\* Any other error, be it the draining connection's or another's: it is logged
\* and the nil batch is used.
FetchFails ==
    /\ ~Ended
    /\ processor = "call"
    /\ processor' = "failed"
    /\ main' = "panicked"
    /\ UNCHANGED <<taskVars, otherVars, request>>

\* Fault: the loop ends with its first batch.
HandleBatchOnce ==
    /\ ~Ended
    /\ processor = "fetch"
    /\ processor' = "returned"
    /\ UNCHANGED <<main, taskVars, otherVars, request>>

\* The batch is handled; with ctx done its deletion fails and is logged.
HandleBatch ==
    /\ ~Ended
    /\ processor = "fetch"
    /\ processor' = "test"
    /\ UNCHANGED <<main, taskVars, otherVars, request>>

RequestStep(r, from, to) ==
    /\ ~Ended
    /\ request[r] = from
    /\ request' = [request EXCEPT ![r] = to]
    /\ UNCHANGED <<main, taskVars, otherVars, processor>>

\* The listener's part.
Accept(r) == run = "serving" /\ RequestStep(r, "idle", "connected")

\* The request arrives and is given to the handler.  server.Shutdown does not
\* hinder it: at its deadline it returns and leaves a new connection open.
Serve(r) == RequestStep(r, "connected", "handler")

\* By the client, or by Shutdown when the connection has had no request for 5 s.
CloseConnection(r) == RequestStep(r, "connected", "closed")

\* A closed pool answers the handler with an error.
Query(r) == poolOpen /\ RequestStep(r, "handler", "query")

QueryEnds(r) == RequestStep(r, "query", "handler")

Answer(r) == RequestStep(r, "handler", "answered")

-----------------------------------------------------------------------------
Next ==
    \/ Signal \/ New \/ NewFails \/ Stop \/ Wait \/ Exit
    \/ StartProcessor \/ ListenAndServe \/ RunFails
    \/ StopListening \/ ClosePool \/ BeginDrain
    \/ \E t \in Tasks : Go(t) \/ Finish(t) \/ Done(t) \/ Return(t)
    \/ CreateStream \/ CreateConsumer \/ SetupFails \/ TestCtx
    \/ Fetch \/ FetchTimesOut \/ FetchFails \/ HandleBatch
    \/ \E r \in Requests :
          Accept(r) \/ Serve(r) \/ CloseConnection(r) \/ Query(r) \/ QueryEnds(r) \/ Answer(r)

Spec == Init /\ [][Next]_vars

(***************************************************************************)
(* Fairness.  Runnable goroutines of main and Stop run on; New comes to an *)
(* end, since nats.Connect gives up after its default timeout.  Nothing is *)
(* assumed of Run, of the processor, or of the requests: a handler, and a  *)
(* query of it, may last for ever.                                         *)
(***************************************************************************)
Fairness ==
    /\ WF_vars(New \/ NewFails)
    /\ WF_vars(Stop) /\ WF_vars(Wait) /\ WF_vars(Exit)
    /\ WF_vars(StopListening) /\ WF_vars(ClosePool) /\ WF_vars(BeginDrain)
    /\ \A t \in Tasks : WF_vars(Go(t)) /\ WF_vars(Finish(t)) /\ WF_vars(Done(t)) /\ WF_vars(Return(t))

FairSpec == Spec /\ Fairness
-----------------------------------------------------------------------------
(* Properties.                                                             *)

\* Once the signal is there the process ends, however early in the start it
\* comes and however long a request or a query under way lasts.
StopTerminates == cancelled ~> Ended

\* A process whose server has ended, or never began to listen, does not stay
\* behind: it is stopped.
FailedServerStops == run = "ended" ~> Ended

\* No connection is accepted once the task of server.Shutdown has got to its
\* Done, even if Run comes to listen only after that.  (The first request of a
\* connection accepted before may still be served then.)
LateConnectionsRefused ==
    [][\A r \in Requests :
          request[r] = "idle" /\ request'[r] # "idle" => task[Shutdown] \in {"new", "work"}]_vars

Started  == {t \in Tasks : task[t] # "new"}
Finished == {t \in Tasks : task[t] \in {"return", "over"}}
Over     == {t \in Tasks : task[t] = "over"}

\* main returns only after at least half of the tasks - with three of them,
\* two - have come to their Done: the doubled count lets it run ahead of one
\* task but not of two.  (A task may have given up its work at the deadline.)
ExitNeedsHalf == main = "exited" => 2 * Cardinality(Finished) >= Cardinality(Tasks)

\* The WaitGroup is counted down no more often than it was counted up.
CounterNeverNegative == counter >= 0

-----------------------------------------------------------------------------
\* Why: the counter is the number of tasks started, less one for each of the
\* two Dones of each task that got there.
CounterAccounts ==
    /\ counter = Cardinality(Started) - Cardinality(Finished) - Cardinality(Over)
    /\ main \in {"waiting", "exited"} => Started = Tasks
    /\ main = "exited" => counter = 0

IInv == TypeOK /\ CounterAccounts

\* Stop has no time: the deadline of its three tasks is over before the first
\* of them is started, so none of them waits for a request or for a query.
StopHasNoTime == (main \in {"stopping", "waiting", "exited"} \/ Started # {}) => DeadlineOver

\* What makes the process panic: a Fetch that failed, whenever that happens, or,
\* in a process that is being stopped only, a WaitGroup counted below zero.
PanicCause == main = "panicked" => processor = "failed" \/ (DeadlineOver /\ counter < 0)

\* The server is shut before Shutdown comes to its Done, and does not serve
\* from then on.
StopOrder ==
    /\ task[Shutdown] \in {"done", "return", "over"} => shut
    /\ shut => run # "serving"

SInv == StopOrder /\ StopHasNoTime /\ PanicCause
=============================================================================
