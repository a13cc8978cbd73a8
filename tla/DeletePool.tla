----------------------------- MODULE DeletePool -----------------------------
(***************************************************************************)
(* The connections of the Postgres pool.  Delete: txManager.Do takes one   *)
(* for the transaction and keeps it; GetByID inside it reads through the   *)
(* pool and takes a second one while the first is held.  The DELETE that   *)
(* follows waits for the row lock of another open transaction.  No other   *)
(* method holds a connection while it waits for one: the rest run single   *)
(* queries.  Delete and Upload apply no timeout of their own, so they wait *)
(* as long as their caller does; the other methods bound their wait with   *)
(* book_service_timeout.                                                   *)
(***************************************************************************)
EXTENDS Naturals, FiniteSets

CONSTANTS
    Deletes,    \* concurrent Delete calls
    Readers,    \* goroutines that call the methods with a timeout, again and again
    Uploads,    \* goroutines that call Upload, again and again
    Books,      \* rows of table books
    NoDelete,   \* no transaction holds the row
    PoolSize    \* connections of pgxpool

ASSUME PoolAssumption == IsFiniteSet(Deletes \cup Readers \cup Uploads) /\ PoolSize \in Nat \ {0}
ASSUME NoDeleteAssumption == NoDelete \notin Deletes
ASSUME DisjointAssumption == Deletes \cap (Readers \cup Uploads) = {} /\ Readers \cap Uploads = {}

Callers == Readers \cup Uploads

VARIABLES
    delete,     \* delete[d]: where Delete call d stands
    target,     \* target[d]: its book
    caller,     \* caller[c]: where goroutine c stands with its query
    tx,         \* the Deletes that hold a connection for their transaction
    query,      \* the calls that hold a connection for one query
    lock,       \* lock[b]: the open transaction that deleted row b
    rows        \* the committed rows

vars == <<delete, target, caller, tx, query, lock, rows>>

Waiting == {"begin", "acquire"}   \* for a connection
Running == {"begin", "acquire", "read", "exec", "publish", "commit"}

TypeOK ==
    /\ delete \in [Deletes -> {"idle", "done"} \cup Running]
    /\ target \in [Deletes -> Books]
    /\ caller \in [Callers -> {"idle", "acquire", "query"}]
    /\ tx \subseteq Deletes
    /\ query \subseteq Deletes \cup Callers
    /\ lock \in [Books -> Deletes \cup {NoDelete}]
    /\ rows \subseteq Books

Init ==
    /\ delete = [d \in Deletes |-> "idle"]
    /\ target \in [Deletes -> Books]
    /\ caller = [c \in Callers |-> "idle"]
    /\ tx = {}
    /\ query = {}
    /\ lock = [b \in Books |-> NoDelete]
    /\ rows = Books

Free == Cardinality(tx) + Cardinality(query) < PoolSize

DeleteStep(d, from, to) == delete[d] = from /\ delete' = [delete EXCEPT ![d] = to]

StartDelete(d) ==
    /\ DeleteStep(d, "idle", "begin")
    /\ UNCHANGED <<target, caller, tx, query, lock, rows>>

\* BEGIN: the transaction's connection.
Begin(d) ==
    /\ Free
    /\ DeleteStep(d, "begin", "acquire")
    /\ tx' = tx \cup {d}
    /\ UNCHANGED <<target, caller, query, lock, rows>>

\* Fault: the connection is booked under the book, not under the call.
AcquireForBook(d) ==
    /\ Free
    /\ DeleteStep(d, "acquire", "read")
    /\ query' = query \cup {target[d]}
    /\ UNCHANGED <<target, caller, tx, lock, rows>>

\* r.pool.QueryRow in GetByID: a second connection.
Acquire(d) ==
    /\ Free
    /\ DeleteStep(d, "acquire", "read")
    /\ query' = query \cup {d}
    /\ UNCHANGED <<target, caller, tx, lock, rows>>

\* Fault: the connection goes back to the pool with its transaction open.
EndTxKeepsLock(d) == tx' = tx \ {d} /\ UNCHANGED lock

\* The transaction is over: its connection and its row lock are released.
EndTx(d) ==
    /\ tx' = tx \ {d}
    /\ lock' = [b \in Books |-> IF lock[b] = d THEN NoDelete ELSE lock[b]]

\* Fault: the row is not scanned, so its connection is not given back.
GetByIDKeepsConnection(d) ==
    /\ IF target[d] \in rows
          THEN DeleteStep(d, "read", "exec") /\ UNCHANGED <<tx, lock>>
          ELSE DeleteStep(d, "read", "done") /\ EndTx(d)
    /\ UNCHANGED <<target, caller, query, rows>>

\* Scan gives the second connection back.  Without the row Delete is over.
GetByID(d) ==
    /\ query' = query \ {d}
    /\ IF target[d] \in rows
          THEN DeleteStep(d, "read", "exec") /\ UNCHANGED <<tx, lock>>
          ELSE DeleteStep(d, "read", "done") /\ EndTx(d)
    /\ UNCHANGED <<target, caller, rows>>

ExecDelete(d) ==
    /\ DeleteStep(d, "exec", "publish")
    /\ lock[target[d]] = NoDelete
    /\ lock' = IF target[d] \in rows THEN [lock EXCEPT ![target[d]] = d] ELSE lock
    /\ UNCHANGED <<target, caller, tx, query, rows>>

Publish(d) ==
    /\ DeleteStep(d, "publish", "commit")
    /\ UNCHANGED <<target, caller, tx, query, lock, rows>>

Commit(d) ==
    /\ DeleteStep(d, "commit", "done")
    /\ rows' = {b \in rows : lock[b] # d}
    /\ EndTx(d)
    /\ UNCHANGED <<target, caller, query>>

\* A statement or the publish fails, or the caller gives up (its context is
\* cancelled, which also ends a wait): rollback.
Fail(d) ==
    /\ delete[d] \in Running
    /\ delete' = [delete EXCEPT ![d] = "done"]
    /\ query' = query \ {d}
    /\ EndTx(d)
    /\ UNCHANGED <<target, caller, rows>>

CallStep(c, from, to) == caller[c] = from /\ caller' = [caller EXCEPT ![c] = to]

\* The call comes to its query: Upload's INSERT, another method's SELECT.
CallStart(c) ==
    /\ CallStep(c, "idle", "acquire")
    /\ UNCHANGED <<delete, target, tx, query, lock, rows>>

CallAcquire(c) ==
    /\ Free
    /\ CallStep(c, "acquire", "query")
    /\ query' = query \cup {c}
    /\ UNCHANGED <<delete, target, tx, lock, rows>>

\* Fault: the rows are left open, so their connection is not given back.
CallEndsRowsOpen(c) ==
    /\ CallStep(c, "query", "idle")
    /\ UNCHANGED <<delete, target, tx, query, lock, rows>>

\* The answer, or an error: the rows are scanned to their end and closed.
CallEnds(c) ==
    /\ CallStep(c, "query", "idle")
    /\ query' = query \ {c}
    /\ UNCHANGED <<delete, target, tx, lock, rows>>

\* The wait for a connection ends with the context: for a reader at the latest
\* when its context.WithTimeout fires, for Upload only if its caller cancels.
GiveUp(c) ==
    /\ CallStep(c, "acquire", "idle")
    /\ UNCHANGED <<delete, target, tx, query, lock, rows>>

Proceed(d) == Begin(d) \/ Acquire(d) \/ GetByID(d) \/ ExecDelete(d) \/ Publish(d) \/ Commit(d)

Next ==
    \/ \E d \in Deletes : StartDelete(d) \/ Proceed(d) \/ Fail(d)
    \/ \E c \in Callers : CallStart(c) \/ CallAcquire(c) \/ CallEnds(c) \/ GiveUp(c)

Spec == Init /\ [][Next]_vars

(***************************************************************************)
(* Fairness.  Queries and messages are answered; the pool hands a freed    *)
(* connection to the longest waiter and Postgres a freed row lock to one   *)
(* of its waiters; timeouts fire.  The caller of a Delete or an Upload     *)
(* need never give up.                                                     *)
(***************************************************************************)
Fairness ==
    /\ \A d \in Deletes :
          /\ SF_vars(Begin(d)) /\ SF_vars(Acquire(d)) /\ SF_vars(ExecDelete(d))
          /\ WF_vars(GetByID(d) \/ Publish(d) \/ Commit(d))
    /\ \A c \in Callers : WF_vars(CallEnds(c))
    /\ \A r \in Readers : WF_vars(GiveUp(r))
    /\ \A u \in Uploads : SF_vars(CallAcquire(u))

FairSpec == Spec /\ Fairness
-----------------------------------------------------------------------------
\* Every Delete that has begun comes to an end, whether or not anybody gives
\* up: no wait for a connection or a row lock is for ever.
DeleteReturns == \A d \in Deletes : delete[d] = "begin" ~> delete[d] = "done"

\* An Upload that has come to its INSERT gets past it although it never gives
\* up: the connections it waits for are not kept by Deletes that wait too.
UploadReturns == \A u \in Uploads : caller[u] = "acquire" ~> caller[u] = "idle"

\* A transaction that holds a row lock waits for no connection, and holds
\* exactly the one it needs to commit: row locks cannot join a cycle.
LockHoldersRun ==
    \A b \in Books :
        lock[b] # NoDelete => lock[b] \in tx \ query /\ delete[lock[b]] \in {"publish", "commit"}

\* Connections are accounted for: a call holds a transaction's connection
\* from BEGIN to its end and a second one only while it reads.
NoConnectionLeak ==
    /\ tx = {d \in Deletes : delete[d] \in Running \ {"begin"}}
    /\ query = {d \in Deletes : delete[d] = "read"} \cup {c \in Callers : caller[c] = "query"}

\* The pool hands out no more connections than it has.
PoolBounded == Cardinality(tx) + Cardinality(query) <= PoolSize

\* A connection deadlock: a Delete waits for a connection, none is free, and
\* all are held by transactions whose Deletes wait for another one.
Deadlocked ==
    /\ \E d \in Deletes : delete[d] \in Waiting
    /\ ~Free /\ query = {}
    /\ \A d \in tx : delete[d] \in Waiting

\* What a connection deadlock looks like: as many Deletes as the pool has
\* connections hold one each for their transaction and wait for a second.
Acquiring == {d \in Deletes : delete[d] = "acquire"}

DeadlockIsFullHouse ==
    Deadlocked => tx = Acquiring /\ Cardinality(Acquiring) = PoolSize

\* A connection deadlock ends only when the caller of one of the Deletes in it
\* gives up; no timeout of another method and no other caller ends it.
OnlyGivingUpHelps == [][Deadlocked /\ ~Deadlocked' => \E d \in Acquiring : Fail(d)]_vars
=============================================================================
