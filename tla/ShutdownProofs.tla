--------------------------- MODULE ShutdownProofs ---------------------------
(***************************************************************************)
(* Proofs about Shutdown, for every set of tasks and of requests.          *)
(***************************************************************************)
EXTENDS Shutdown, FiniteSetTheorems, TLAPS

\* The three sets the counter is made of are finite, and only a task that
\* finished its work is over.
LEMMA SetsFinite ==
    ASSUME TypeOK
    PROVE  /\ IsFiniteSet(Started) /\ IsFiniteSet(Finished) /\ IsFiniteSet(Over)
           /\ Cardinality(Started) \in Nat
           /\ Cardinality(Finished) \in Nat
           /\ Cardinality(Over) \in Nat
           /\ Cardinality(Over) <= Cardinality(Finished)
  <1>1. Started \subseteq Tasks /\ Finished \subseteq Tasks /\ Over \subseteq Finished
    BY DEF Started, Finished, Over
  <1>2. IsFiniteSet(Tasks)
    BY TasksAssumption
  <1>3. IsFiniteSet(Started) /\ IsFiniteSet(Finished)
    BY <1>1, <1>2, FS_Subset
  <1>4. IsFiniteSet(Over) /\ Cardinality(Over) <= Cardinality(Finished)
    BY <1>1, <1>3, FS_Subset
  <1> QED
    BY <1>3, <1>4, FS_CardinalityType

\* No task has been counted at the start.
LEMMA InitIInv == Init => IInv
  <1> SUFFICES ASSUME Init PROVE IInv
    OBVIOUS
  <1>1. TypeOK
    <2>1. task \in [Tasks -> {"new", "work", "done", "return", "over"}]
      BY DEF Init
    <2>2. request \in [Requests -> {"idle", "connected", "handler", "query", "answered", "closed"}]
      BY DEF Init
    <2>3. cancelled \in BOOLEAN /\ shut \in BOOLEAN /\ poolOpen \in BOOLEAN /\ draining \in BOOLEAN
      BY Zenon DEF Init
    <2>4. counter \in Int
      BY SMT DEF Init
    <2>5. main \in {"starting", "running", "stopping", "waiting", "exited", "failed", "panicked"}
      BY DEF Init
    <2>6. /\ processor \in {"none", "stream", "consumer", "test", "call", "fetch", "ended", "failed"}
          /\ run \in {"none", "begin", "listen", "serving", "ended"}
      BY DEF Init
    <2> QED
      BY <2>1, <2>2, <2>3, <2>4, <2>5, <2>6 DEF TypeOK
  <1>2. Started = {} /\ Finished = {} /\ Over = {}
    BY DEF Init, Started, Finished, Over
  <1>3. Cardinality({}) = 0
    BY FS_EmptySet
  <1> QED
    BY <1>1, <1>2, <1>3 DEF IInv, CounterAccounts, Init

\* Starting a task counts it.
LEMMA GoCounts ==
    ASSUME IInv, NEW t \in Tasks, Go(t)
    PROVE  IInv'
  <1> USE DEF IInv
  <1>1. TypeOK'
    BY DEF Go, TypeOK, otherVars
  <1>2. t \notin Started /\ Started' = Started \cup {t}
    BY DEF Go, Started, TypeOK
  <1>3. Finished' = Finished /\ Over' = Over
    BY DEF Go, Finished, Over, TypeOK
  <1>4. Cardinality(Started') = Cardinality(Started) + 1
    BY <1>2, SetsFinite, FS_AddElement
  <1>5. CounterAccounts'
    BY <1>3, <1>4, SetsFinite DEF Go, CounterAccounts, TypeOK
  <1> QED
    BY <1>1, <1>5

\* Both Dones of a task count it down, each once.
LEMMA DoneCounts ==
    ASSUME IInv, NEW t \in Tasks, Done(t) \/ Return(t)
    PROVE  IInv'
  <1> USE DEF IInv, Done, Return, TaskStep, CountDown
  <1>1. TypeOK'
    BY DEF TypeOK, otherVars, Ended
  <1>2. Started' = Started
    BY DEF Started, TypeOK
  <1>3. CASE Done(t)
    <2>1. t \notin Finished /\ Finished' = Finished \cup {t} /\ Over' = Over
      BY <1>3 DEF Finished, Over, TypeOK
    <2>2. Cardinality(Finished') = Cardinality(Finished) + 1
      BY <2>1, SetsFinite, FS_AddElement
    <2> QED
      BY <1>1, <1>2, <1>3, <2>1, <2>2, SetsFinite DEF CounterAccounts, TypeOK, Ended
  <1>4. CASE Return(t)
    <2>1. t \notin Over /\ Over' = Over \cup {t} /\ Finished' = Finished
      BY <1>4 DEF Finished, Over, TypeOK
    <2>2. Cardinality(Over') = Cardinality(Over) + 1
      BY <2>1, SetsFinite, FS_AddElement
    <2> QED
      BY <1>1, <1>2, <1>4, <2>1, <2>2, SetsFinite DEF CounterAccounts, TypeOK, Ended
  <1> QED
    BY <1>3, <1>4

\* Finishing the work moves a task but counts nothing.
LEMMA FinishCountsNothing ==
    ASSUME IInv, NEW t \in Tasks, Finish(t)
    PROVE  IInv'
  <1>1. TypeOK'
    BY DEF IInv, Finish, TaskStep, TypeOK, otherVars
  <1>2. Started' = Started /\ Finished' = Finished /\ Over' = Over
    BY DEF IInv, Finish, TaskStep, TypeOK, Started, Finished, Over
  <1> QED
    BY <1>1, <1>2 DEF IInv, CounterAccounts, Finish

\* Every other step leaves tasks and counter alone; main gets to wg.Wait with
\* all tasks started and past it with the counter at zero.
LEMMA OthersCountNothing ==
    ASSUME IInv,
           \/ Signal \/ New \/ NewFails \/ Stop \/ Wait \/ Exit
           \/ StartProcessor \/ ListenAndServe \/ RunFails
           \/ StopListening \/ ClosePool \/ BeginDrain
           \/ CreateStream \/ CreateConsumer \/ SetupFails \/ TestCtx
           \/ Fetch \/ FetchTimesOut \/ FetchFails \/ HandleBatch
           \/ \E r \in Requests :
                 Accept(r) \/ Serve(r) \/ CloseConnection(r) \/ Query(r) \/ QueryEnds(r) \/ Answer(r)
           \/ UNCHANGED vars
    PROVE  IInv'
  <1> USE DEF Signal, New, NewFails, Stop, Wait, Exit, StartProcessor, ListenAndServe, RunFails,
              StopListening, ClosePool, BeginDrain, CreateStream, CreateConsumer, SetupFails,
              TestCtx, Fetch, FetchTimesOut, FetchFails, HandleBatch, Accept, Serve,
              CloseConnection, Query, QueryEnds, Answer, RequestStep, vars, taskVars, otherVars,
              Ended
  <1>1. TypeOK'
    <2> USE DEF IInv, TypeOK
    <2>1. CASE Signal \/ RunFails
      <3>1. cancelled' \in BOOLEAN
        BY <2>1, Zenon
      <3> QED
        BY <2>1, <3>1
    <2>2. CASE New \/ NewFails \/ Stop \/ Wait \/ Exit
      BY <2>2
    <2>3. CASE StartProcessor \/ ListenAndServe
      BY <2>3
    <2>4. CASE StopListening
      BY <2>4
    <2>5. CASE ClosePool
      BY <2>5
    <2>6. CASE BeginDrain
      BY <2>6
    <2>7. CASE CreateStream \/ CreateConsumer \/ SetupFails \/ TestCtx \/ Fetch \/ FetchTimesOut
              \/ FetchFails \/ HandleBatch
      BY <2>7
    <2>8. CASE \E r \in Requests :
                  Accept(r) \/ Serve(r) \/ CloseConnection(r) \/ Query(r) \/ QueryEnds(r) \/ Answer(r)
      BY <2>8
    <2>9. CASE UNCHANGED vars
      BY <2>9
    <2> QED
      BY <2>1, <2>2, <2>3, <2>4, <2>5, <2>6, <2>7, <2>8, <2>9
  <1>2. UNCHANGED taskVars
    OBVIOUS
  <1>3. Started' = Started /\ Finished' = Finished /\ Over' = Over
    BY <1>2 DEF Started, Finished, Over
  <1>4. main' \in {"waiting", "exited"} => Started = Tasks
    BY DEF IInv, CounterAccounts, Started
  <1>5. main' = "exited" => counter = 0
    BY DEF IInv, CounterAccounts
  <1> QED
    BY <1>1, <1>2, <1>3, <1>4, <1>5 DEF IInv, CounterAccounts

\* In every run of Stop the WaitGroup's counter is the number of tasks started
\* less one for each of the two Dones made for each task.
THEOREM CounterIsAccounted == Spec => []IInv
  <1>1. IInv /\ [Next]_vars => IInv'
    BY GoCounts, DoneCounts, FinishCountsNothing, OthersCountNothing DEF Next
  <1> QED
    BY InitIInv, <1>1, PTL DEF Spec

\* Whatever the number of tasks and the order of their steps, main returns
\* only after half of them have come to their Done.
THEOREM HalfOfTheTasksAreDone == Spec => []ExitNeedsHalf
  <1>1. IInv => ExitNeedsHalf
    BY SetsFinite DEF IInv, CounterAccounts, ExitNeedsHalf
  <1> QED
    BY CounterIsAccounted, <1>1, PTL

\* Every variable of Shutdown keeps its type.
THEOREM AlwaysTyped == Spec => []TypeOK
  BY CounterIsAccounted, PTL DEF IInv
-----------------------------------------------------------------------------
(* What Stop, the server and a panic have to do with each other.           *)

\* Nothing is being stopped at the start.
LEMMA SInvInit == Init => SInv
  BY TasksAssumption DEF Init, SInv, StopOrder, StopHasNoTime, PanicCause, Started

\* Shutdown, Close and Drain are three of the tasks.
LEMMA NamedTasks == Shutdown \in Tasks /\ Drain \in Tasks
  BY TasksAssumption

\* The steps of a task keep the order: it is started by a Stop whose deadline
\* is over, and Shutdown comes to its Done only once the server is shut.
LEMMA SInvTask ==
    ASSUME IInv, SInv, NEW t \in Tasks, Go(t) \/ Finish(t) \/ Done(t) \/ Return(t)
    PROVE  SInv'
  <1> USE DEF SInv, StopHasNoTime, Started, DeadlineOver, TaskStep, CountDown, taskVars, otherVars
  <1>0. TypeOK
    BY DEF IInv
  <1>1. cancelled /\ UNCHANGED <<cancelled, run, shut, draining>>
    BY <1>0 DEF Go, Finish, Done, Return
  <1>2. StopHasNoTime'
    BY <1>1
  <1>3. StopOrder'
    BY <1>0, <1>1, NamedTasks DEF StopOrder, TypeOK, Go, Finish, Done, Return
  <1>4. PanicCause'
    <2>1. CASE Go(t) \/ Finish(t)
      BY <2>1, <1>1 DEF Go, Finish, PanicCause, Ended
    <2>2. CASE Done(t) \/ Return(t)
      BY <2>2, <1>1 DEF Done, Return, PanicCause, Ended
    <2> QED
      BY <2>1, <2>2
  <1> QED
    BY <1>2, <1>3, <1>4

\* What the tasks have started takes hold while they are under way.
LEMMA SInvEffects ==
    ASSUME IInv, SInv, StopListening \/ ClosePool \/ BeginDrain
    PROVE  SInv'
  <1> USE DEF SInv, StopHasNoTime, PanicCause, Started, DeadlineOver, taskVars, Ended
  <1>1. UNCHANGED <<main, task, counter, cancelled>>
    BY DEF StopListening, ClosePool, BeginDrain
  <1>2. StopOrder'
    BY <1>1, NamedTasks DEF StopOrder, StopListening, ClosePool, BeginDrain
  <1> QED
    BY <1>1, <1>2 DEF StopListening, ClosePool, BeginDrain

\* main comes to Stop through a cancelled ctx, Run serves on a server that has
\* not been shut, and only a failed Fetch panics.
LEMMA SInvOther ==
    ASSUME IInv, SInv,
           \/ Signal \/ New \/ NewFails \/ Stop \/ Wait \/ Exit
           \/ StartProcessor \/ ListenAndServe \/ RunFails
           \/ CreateStream \/ CreateConsumer \/ SetupFails \/ TestCtx
           \/ Fetch \/ FetchTimesOut \/ FetchFails \/ HandleBatch
           \/ \E r \in Requests :
                 Accept(r) \/ Serve(r) \/ CloseConnection(r) \/ Query(r) \/ QueryEnds(r) \/ Answer(r)
           \/ UNCHANGED vars
    PROVE  SInv'
  <1> USE DEF SInv, Started, DeadlineOver
  <1>1. UNCHANGED <<task, counter, shut, draining>>
    BY DEF Signal, New, NewFails, Stop, Wait, Exit, StartProcessor, ListenAndServe, RunFails,
           CreateStream, CreateConsumer, SetupFails, TestCtx, Fetch, FetchTimesOut, FetchFails,
           HandleBatch, Accept, Serve, CloseConnection, Query, QueryEnds, Answer, RequestStep,
           vars, taskVars, otherVars
  <1>2. cancelled => cancelled'
    BY DEF Signal, New, NewFails, Stop, Wait, Exit, StartProcessor, ListenAndServe, RunFails,
           CreateStream, CreateConsumer, SetupFails, TestCtx, Fetch, FetchTimesOut, FetchFails,
           HandleBatch, Accept, Serve, CloseConnection, Query, QueryEnds, Answer, RequestStep,
           vars, taskVars, otherVars
  <1>3. StopOrder'
    <2>1. shut => run' # "serving"
      BY DEF StopOrder, Signal, New, NewFails, Stop, Wait, Exit, StartProcessor, ListenAndServe,
             RunFails, CreateStream, CreateConsumer, SetupFails, TestCtx, Fetch, FetchTimesOut,
             FetchFails, HandleBatch, Accept, Serve, CloseConnection, Query, QueryEnds, Answer,
             RequestStep, vars, taskVars, otherVars
    <2> QED
      BY <1>1, <2>1 DEF StopOrder
  <1>4. main' \in {"stopping", "waiting", "exited"} => cancelled
    BY DEF StopHasNoTime, Signal, New, NewFails, Stop, Wait, Exit, StartProcessor,
           ListenAndServe, RunFails, CreateStream, CreateConsumer, SetupFails, TestCtx, Fetch,
           FetchTimesOut, FetchFails, HandleBatch, Accept, Serve, CloseConnection, Query,
           QueryEnds, Answer, RequestStep, vars, taskVars, otherVars
  <1>5. StopHasNoTime'
    BY <1>1, <1>2, <1>4 DEF StopHasNoTime
  <1>6. main' = "panicked" => processor' = "failed" \/ (main = "panicked" /\ processor' = processor)
    BY DEF Signal, New, NewFails, Stop, Wait, Exit, StartProcessor, ListenAndServe, RunFails,
           CreateStream, CreateConsumer, SetupFails, TestCtx, Fetch, FetchTimesOut, FetchFails,
           HandleBatch, Accept, Serve, CloseConnection, Query, QueryEnds, Answer, RequestStep,
           vars, taskVars, otherVars, Ended
  <1> QED
    BY <1>1, <1>2, <1>3, <1>5, <1>6 DEF PanicCause

\* In every run, the deadline of Stop is over before a task begins, the server
\* is shut before its task is done, and a panic has one of its two causes.
LEMMA StopIsAccounted == Spec => [](IInv /\ SInv)
  <1>1. IInv /\ SInv /\ [Next]_vars => SInv'
    BY SInvTask, SInvEffects, SInvOther DEF Next
  <1> QED
    BY SInvInit, <1>1, CounterIsAccounted, PTL DEF Spec

\* The graceful stop has no grace: no task of Stop has any time for the
\* requests and the queries under way, whatever the configured timeout.
THEOREM NoTimeForRequests == Spec => []StopHasNoTime
  BY StopIsAccounted, PTL DEF SInv

\* Only a failed Fetch panics a process that is not being stopped; the doubled
\* Done cannot, in any order of the tasks.
THEOREM PanicsHaveCause == Spec => []PanicCause
  BY StopIsAccounted, PTL DEF SInv

\* However the start and the stop of the process interleave, a connection that
\* comes after the end of Shutdown's task is not accepted.
THEOREM LateConnectionsStayOut == Spec => LateConnectionsRefused
  <1>1. IInv /\ SInv /\ [Next]_vars =>
            [\A r \in Requests :
                request[r] = "idle" /\ request'[r] # "idle" => task[Shutdown] \in {"new", "work"}]_vars
    <2> SUFFICES ASSUME IInv, SInv, [Next]_vars, NEW r \in Requests,
                        request[r] = "idle", request'[r] # "idle"
                 PROVE  task[Shutdown] \in {"new", "work"}
      OBVIOUS
    <2>1. Accept(r)
      BY DEF IInv, TypeOK, Next, vars, Signal, New, NewFails, Stop, Wait, Exit, StartProcessor,
             ListenAndServe, RunFails, StopListening, ClosePool, BeginDrain, Go, Finish, Done,
             Return, CreateStream, CreateConsumer, SetupFails, TestCtx, Fetch, FetchTimesOut,
             FetchFails, HandleBatch, Accept, Serve, CloseConnection, Query, QueryEnds, Answer,
             RequestStep, TaskStep
    <2>2. ~shut
      BY <2>1 DEF Accept, Serve, CloseConnection, SInv, StopOrder
    <2> QED
      BY <2>2, NamedTasks DEF SInv, StopOrder, IInv, TypeOK
  <1> QED
    BY StopIsAccounted, <1>1, PTL DEF Spec, LateConnectionsRefused
=============================================================================
