-------------------------- MODULE DeletePoolProofs --------------------------
(***************************************************************************)
(* Theorems about DeletePool: the accounting of connections and locks for  *)
(* every pool, what a connection deadlock is, and what ends it.            *)
(***************************************************************************)
EXTENDS DeletePool, FiniteSetTheorems, TLAPS

Accounts == TypeOK /\ NoConnectionLeak /\ LockHoldersRun

\* The accounting of connections and locks holds at the start.
LEMMA AccountsInit == Init => Accounts
<1> SUFFICES ASSUME Init PROVE Accounts
  OBVIOUS
<1>1. TypeOK
  BY DEF Init, TypeOK
<1>2. NoConnectionLeak /\ LockHoldersRun
  BY DEF Init, NoConnectionLeak, LockHoldersRun, Running
<1>3. QED BY <1>1, <1>2 DEF Accounts

\* Every step of a Delete keeps the accounting.
LEMMA AccountsDelete ==
    ASSUME Accounts, NEW d \in Deletes, StartDelete(d) \/ Proceed(d) \/ Fail(d)
    PROVE  Accounts'
<1>0. Deletes \cap Callers = {}
  BY DisjointAssumption DEF Callers
<1> USE NoDeleteAssumption, <1>0 DEF Accounts, TypeOK, NoConnectionLeak, LockHoldersRun, Running, DeleteStep, EndTx
<1>1. CASE StartDelete(d) \/ Begin(d)
  BY <1>1 DEF StartDelete, Begin
<1>2. CASE Acquire(d)
  BY <1>2 DEF Acquire
<1>3. CASE GetByID(d)
  BY <1>3 DEF GetByID
<1>4. CASE ExecDelete(d)
  BY <1>4 DEF ExecDelete
<1>5. CASE Publish(d)
  BY <1>5 DEF Publish
<1>6. CASE Commit(d)
  BY <1>6 DEF Commit
<1>7. CASE Fail(d)
  BY <1>7 DEF Fail
<1>8. QED BY <1>1, <1>2, <1>3, <1>4, <1>5, <1>6, <1>7 DEF Proceed

\* Every step of another call keeps the accounting.
LEMMA AccountsCaller ==
    ASSUME Accounts, NEW c \in Callers, CallStart(c) \/ CallAcquire(c) \/ CallEnds(c) \/ GiveUp(c)
    PROVE  Accounts'
<1>0. Deletes \cap Callers = {}
  BY DisjointAssumption DEF Callers
<1> USE <1>0 DEF Accounts, TypeOK, NoConnectionLeak, LockHoldersRun, Running, CallStep
<1>1. CASE CallStart(c)
  BY <1>1 DEF CallStart
<1>2. CASE CallAcquire(c)
  BY <1>2 DEF CallAcquire
<1>3. CASE CallEnds(c)
  BY <1>3 DEF CallEnds
<1>4. CASE GiveUp(c)
  BY <1>4 DEF GiveUp
<1>5. QED BY <1>1, <1>2, <1>3, <1>4

\* A step that changes nothing keeps the accounting.
LEMMA AccountsStutter == ASSUME Accounts, UNCHANGED vars PROVE Accounts'
BY DEF Accounts, TypeOK, NoConnectionLeak, LockHoldersRun, vars

\* Every connection in use belongs to a call that is at a point where it needs
\* it, and row locks are held only by transactions about to commit.
THEOREM AccountsHold == Spec => []Accounts
<1>1. Accounts /\ [Next]_vars => Accounts'
  BY AccountsDelete, AccountsCaller, AccountsStutter DEF Next
<1>2. QED BY AccountsInit, <1>1, PTL DEF Spec

\* A connection is held only by a call that needs it: none leaks, whichever
\* step of a Delete fails.
THEOREM ConnectionsAreAccounted == Spec => []NoConnectionLeak
BY AccountsHold, PTL DEF Accounts

\* Holders of a row lock never wait for a connection.
THEOREM LockHoldersAlwaysRun == Spec => []LockHoldersRun
BY AccountsHold, PTL DEF Accounts

\* Every variable of the pool keeps its type, for any values of the constants.
THEOREM AlwaysTyped == Spec => []TypeOK
BY AccountsHold, PTL DEF Accounts

-----------------------------------------------------------------------------
(* Pools of any size: what a connection deadlock is and what ends it.      *)

\* The sets the pool counts are finite.
LEMMA PoolFinite ==
    ASSUME Accounts
    PROVE  /\ IsFiniteSet(tx) /\ IsFiniteSet(query)
           /\ Cardinality(tx) \in Nat /\ Cardinality(query) \in Nat
<1>1. tx \subseteq Deletes /\ query \subseteq Deletes \cup Callers
  BY DEF Accounts, TypeOK
<1>2. IsFiniteSet(Deletes \cup Callers) /\ tx \subseteq Deletes \cup Callers
  BY <1>1, PoolAssumption DEF Callers
<1>3. IsFiniteSet(tx) /\ IsFiniteSet(query)
  BY <1>1, <1>2, FS_Subset
<1>4. QED BY <1>3, FS_CardinalityType

\* What a step does to the two sets: it takes one connection while one is
\* free, or it gives some back.
LEMMA PoolSteps ==
    ASSUME Accounts, [Next]_vars
    PROVE  \/ tx' \subseteq tx /\ query' \subseteq query
           \/ Free /\ query' = query /\ \E d \in Deletes : tx' = tx \cup {d}
           \/ Free /\ tx' = tx /\ \E c \in Deletes \cup Callers : query' = query \cup {c}
BY DEF Next, vars, StartDelete, Proceed, Begin, Acquire, GetByID, ExecDelete, Publish, Commit, Fail,
       EndTx, CallStart, CallAcquire, CallEnds, GiveUp

\* The pool never hands out more connections than it has.
THEOREM PoolStaysBounded == Spec => []PoolBounded
<1>1. Init => PoolBounded
  <2>1. Cardinality({}) = 0
    BY FS_EmptySet
  <2>2. QED BY <2>1, PoolAssumption DEF Init, PoolBounded
<1>2. Accounts /\ PoolBounded /\ [Next]_vars => PoolBounded'
  <2> SUFFICES ASSUME Accounts, PoolBounded, [Next]_vars PROVE PoolBounded'
    OBVIOUS
  <2>1. CASE tx' \subseteq tx /\ query' \subseteq query
    <3>1. /\ Cardinality(tx') <= Cardinality(tx) /\ Cardinality(tx') \in Nat
          /\ Cardinality(query') <= Cardinality(query) /\ Cardinality(query') \in Nat
      BY <2>1, PoolFinite, FS_Subset, FS_CardinalityType
    <3>2. QED BY <3>1, PoolFinite, PoolAssumption DEF PoolBounded
  <2>2. ASSUME Free, query' = query, NEW d \in Deletes, tx' = tx \cup {d} PROVE PoolBounded'
    <3>1. Cardinality(tx') \in {Cardinality(tx), Cardinality(tx) + 1}
      BY <2>2, PoolFinite, FS_AddElement
    <3>2. QED BY <2>2, <3>1, PoolFinite, PoolAssumption DEF PoolBounded, Free
  <2>3. ASSUME Free, tx' = tx, NEW c \in Deletes \cup Callers, query' = query \cup {c}
        PROVE  PoolBounded'
    <3>1. Cardinality(query') \in {Cardinality(query), Cardinality(query) + 1}
      BY <2>3, PoolFinite, FS_AddElement
    <3>2. QED BY <2>3, <3>1, PoolFinite, PoolAssumption DEF PoolBounded, Free
  <2>4. QED BY <2>1, <2>2, <2>3, PoolSteps
<1>3. QED BY <1>1, <1>2, AccountsHold, PTL DEF Spec

\* In a connection deadlock every connection of the pool is a transaction's
\* whose Delete waits for its second one.
LEMMA FullHouse == ASSUME Accounts, PoolBounded PROVE DeadlockIsFullHouse
<1> SUFFICES ASSUME ~Free, query = {}, \A d \in tx : delete[d] \in Waiting
             PROVE  tx = Acquiring /\ Cardinality(Acquiring) = PoolSize
  BY DEF DeadlockIsFullHouse, Deadlocked
<1>1. tx = Acquiring
  BY DEF Accounts, NoConnectionLeak, Running, Waiting, Acquiring
<1>2. Cardinality(query) = 0
  BY FS_EmptySet
<1>3. QED BY <1>1, <1>2, PoolFinite, PoolAssumption DEF PoolBounded, Free

\* For every pool: Deletes alone can exhaust it, and only as many as it has
\* connections, each of them between BEGIN and its read.
THEOREM DeadlocksAreFullHouses == Spec => []DeadlockIsFullHouse
BY AccountsHold, PoolStaysBounded, FullHouse, PTL

\* Once the pool is exhausted by Deletes, every one of its connections stays
\* taken until the caller of one of them gives up.
THEOREM DeadlocksEndByGivingUp == Spec => OnlyGivingUpHelps
<1>1. Accounts /\ PoolBounded /\ [Next]_vars =>
          [Deadlocked /\ ~Deadlocked' => \E d \in Acquiring : Fail(d)]_vars
  <2> SUFFICES ASSUME Accounts, PoolBounded, [Next]_vars, Deadlocked, ~Deadlocked',
                      ~ \E d \in Acquiring : Fail(d)
               PROVE  FALSE
    OBVIOUS
  <2>1. ~Free /\ query = {} /\ tx = Acquiring /\ Cardinality(Acquiring) = PoolSize
    BY FullHouse DEF DeadlockIsFullHouse, Deadlocked
  <2>2. Acquiring # {}
    BY <2>1, FS_EmptySet, PoolAssumption
  <2>3. \A d \in Deletes : delete[d] \in {"idle", "begin", "acquire", "done"}
    BY <2>1 DEF Accounts, TypeOK, NoConnectionLeak, Running, Acquiring
  <2>4. tx' = tx /\ query' = query /\ Acquiring' = Acquiring
    <3>1. ASSUME NEW d \in Deletes, StartDelete(d)
          PROVE  tx' = tx /\ query' = query /\ Acquiring' = Acquiring
      BY <3>1 DEF StartDelete, DeleteStep, Acquiring, Accounts, TypeOK
    <3>2. ASSUME NEW d \in Deletes, Proceed(d) PROVE FALSE
      BY <2>1, <2>3, <3>2
         DEF Proceed, Begin, Acquire, GetByID, ExecDelete, Publish, Commit, DeleteStep
    <3>3. ASSUME NEW d \in Deletes, Fail(d)
          PROVE  tx' = tx /\ query' = query /\ Acquiring' = Acquiring
      <4>1. d \notin Acquiring
        BY <3>3
      <4>2. QED BY <2>1, <3>3, <4>1 DEF Fail, EndTx, Acquiring, Accounts, TypeOK
    <3>4. ASSUME NEW c \in Callers, CallStart(c) \/ CallAcquire(c) \/ CallEnds(c) \/ GiveUp(c)
          PROVE  tx' = tx /\ query' = query /\ Acquiring' = Acquiring
      BY <2>1, <3>4 DEF CallStart, CallAcquire, CallEnds, GiveUp, Acquiring
    <3>5. CASE UNCHANGED vars
      BY <3>5 DEF vars, Acquiring
    <3>6. QED BY <3>1, <3>2, <3>3, <3>4, <3>5 DEF Next
  <2>5. ~Free'
    BY <2>1, <2>4 DEF Free
  <2>6. \A d \in tx' : delete'[d] \in Waiting
    BY <2>1, <2>4 DEF Acquiring, Waiting
  <2>7. \E d \in Deletes : delete'[d] \in Waiting
    BY <2>2, <2>4 DEF Acquiring, Waiting
  <2>8. QED BY <2>1, <2>4, <2>5, <2>6, <2>7 DEF Deadlocked
<1>2. QED BY <1>1, AccountsHold, PoolStaysBounded, PTL DEF Spec, OnlyGivingUpHelps
=============================================================================
