-------------------------- MODULE BookStoreProofs --------------------------
(***************************************************************************)
(* Theorems about BookStore, for every number of calls, paths, pending     *)
(* messages and crashes.                                                   *)
(***************************************************************************)
EXTENDS BookStore, TLAPS

-----------------------------------------------------------------------------
(* What publishing does to the stream.                                     *)

\* A stored event is appended: the earlier events keep their numbers and the
\* condemned paths grow by the path of the new one.
LEMMA AppendCondemns ==
    ASSUME stream \in Seq(Paths), NEW p \in Paths, stream' = Append(stream, p)
    PROVE  /\ stream' \in Seq(Paths)
           /\ Len(stream') = Len(stream) + 1
           /\ condemned' = condemned \cup {p}
<1>1. stream' \in Seq(Paths) /\ Len(stream') = Len(stream) + 1 /\ Len(stream) \in Nat
  OBVIOUS
<1>2. \A s \in 1..Len(stream) : stream'[s] = stream[s]
  OBVIOUS
<1>3. stream'[Len(stream) + 1] = p
  OBVIOUS
<1>4. 1..Len(stream') = 1..Len(stream) \cup {Len(stream) + 1}
  BY <1>1
<1>5. condemned' = condemned \cup {p}
  BY <1>2, <1>3, <1>4, Zenon DEF condemned
<1>6. QED BY <1>1, <1>5

\* Whatever the publisher answers, at most the one event is added.
LEMMA PublishedOrNot ==
    ASSUME stream \in Seq(Paths), NEW p \in Paths, PublishFailed(p) \/ Published(p)
    PROVE  /\ stream' \in Seq(Paths)
           /\ Len(stream') \in {Len(stream), Len(stream) + 1}
           /\ condemned' \in {condemned, condemned \cup {p}}
           /\ Published(p) => p \in condemned'
<1>1. CASE stream' = Append(stream, p)
  BY <1>1, AppendCondemns
<1>2. CASE stream' = stream
  <2>1. condemned' = condemned
    BY <1>2 DEF condemned
  <2>2. ~Published(p)
    BY <1>2 DEF Published
  <2>3. QED BY <1>2, <2>1, <2>2
<1>3. QED BY <1>1, <1>2 DEF PublishFailed, Published

-----------------------------------------------------------------------------
(* The type invariant.  Two facts that are not about types ride along,     *)
(* because the typing of events needs them: a running call has a path, and *)
(* a Delete past its read has found one.                                   *)

\* The type invariant holds at the start.
LEMMA TypeInit == Init => TypeInv
<1> SUFFICES ASSUME Init PROVE TypeInv
  OBVIOUS
<1>1. TypeOK
  <2>1. crashes \in 0..MaxCrashes
    BY BoundsAssumption DEF Init
  <2>2. due \subseteq 1..cursor /\ cursor \in Nat /\ stream \in Seq(Paths) /\ batch \subseteq 1..cursor
    BY DEF Init
  <2>3. QED BY <2>1, <2>2 DEF Init, TypeOK
<1>2. PathKnown
  BY DEF Init, PathKnown, UploadRunning
<1>3. QED BY <1>1, <1>2 DEF TypeInv

\* Every step of Upload keeps the types, and the path it works with known.
LEMMA TypeUpload ==
    ASSUME TypeInv, NEW b \in Uploads, UploadNext(b)
    PROVE  TypeInv'
<1> USE DEF TypeInv, TypeOK, PathKnown, UploadRunning, UploadDone, DeleteRunning, DeleteDone,
            uploadVars, deleteVars, dbVars, natsVars, procVars, envVars
<1>1. CASE StartUpload(b)
  BY <1>1 DEF StartUpload, UploadStep, createStoragePath
<1>2. CASE PutObject(b)
  BY <1>2 DEF PutObject, UploadStep
<1>3. CASE PutObjectFails(b)
  BY <1>3 DEF PutObjectFails, UploadStep
<1>4. CASE Create(b)
  BY <1>4 DEF Create, CommitInsert, UploadStep
<1>5. CASE CreateFails(b)
  BY <1>5 DEF CreateFails, UploadStep
<1>6. CASE Compensate(b)
  <2>1. path[b] \in Paths /\ stream \in Seq(Paths) /\ PublishFailed(path[b])
    BY <1>6 DEF Compensate, UploadStep
  <2>2. stream' \in Seq(Paths) /\ Len(stream') \in {Len(stream), Len(stream) + 1}
    BY <2>1, PublishedOrNot
  <2>3. QED BY <1>6, <2>2 DEF Compensate, UploadStep
<1>7. CASE CreateLate(b)
  BY <1>7 DEF CreateLate, CommitInsert
<1>8. QED BY <1>1, <1>2, <1>3, <1>4, <1>5, <1>6, <1>7 DEF UploadNext

\* Every step of Delete keeps the types, and the path it read known.
LEMMA TypeDelete ==
    ASSUME TypeInv, NEW d \in Deletes, DeleteNext(d)
    PROVE  TypeInv'
<1> USE DEF TypeInv, TypeOK, PathKnown, UploadRunning, UploadDone, DeleteRunning, DeleteDone,
            uploadVars, deleteVars, dbVars, natsVars, procVars, envVars
<1>1. CASE BeginDelete(d)
  BY <1>1 DEF BeginDelete, DeleteStep
<1>2. CASE GetByID(d)
  BY <1>2 DEF GetByID, DeleteStep
<1>3. CASE GetByIDFails(d)
  BY <1>3 DEF GetByIDFails, DeleteStep, Rollback, Unlocked
<1>4. CASE ExecDelete(d)
  BY <1>4 DEF ExecDelete, DeleteStep
<1>5. CASE ExecDeleteFails(d)
  BY <1>5 DEF ExecDeleteFails, DeleteStep, Rollback, Unlocked
<1>6. CASE PublishDelete(d)
  <2>1. found[d] \in Paths /\ stream \in Seq(Paths) /\ Published(found[d])
    BY <1>6 DEF PublishDelete, DeleteStep
  <2>2. stream' \in Seq(Paths) /\ Len(stream') \in {Len(stream), Len(stream) + 1}
    BY <2>1, PublishedOrNot
  <2>3. QED BY <1>6, <2>2 DEF PublishDelete, DeleteStep
<1>7. CASE PublishDeleteFails(d)
  <2>1. found[d] \in Paths /\ stream \in Seq(Paths) /\ PublishFailed(found[d])
    BY <1>7 DEF PublishDeleteFails, DeleteStep
  <2>2. stream' \in Seq(Paths) /\ Len(stream') \in {Len(stream), Len(stream) + 1}
    BY <2>1, PublishedOrNot
  <2>3. QED BY <1>7, <2>2 DEF PublishDeleteFails, DeleteStep, Rollback, Unlocked
<1>8. CASE Commit(d)
  BY <1>8 DEF Commit, DeleteStep, Committed, Unlocked
<1>9. CASE CommitFails(d)
  BY <1>9 DEF CommitFails, DeleteStep, Committed, Unlocked
<1>10. QED
  BY <1>1, <1>2, <1>3, <1>4, <1>5, <1>6, <1>7, <1>8, <1>9 DEF DeleteNext

\* Every step of the processor and its consumer keeps the types.
LEMMA TypeProc ==
    ASSUME TypeInv, ProcNext
    PROVE  TypeInv'
<1> USE DEF TypeInv, TypeOK, PathKnown, uploadVars, deleteVars, dbVars, natsVars, procVars, envVars
<1>1. CASE CreateStream \/ CreateConsumer \/ SetupFails \/ FetchEnds
  BY <1>1 DEF CreateStream, CreateConsumer, SetupFails, FetchEnds, ProcStep
<1>2. CASE Deliver
  BY <1>2 DEF Deliver, RoomInBatch
<1>3. ASSUME NEW s \in 1..cursor, Redeliver(s) \/ AckWaitExpires(s) PROVE TypeInv'
  BY <1>3 DEF Redeliver, AckWaitExpires, RoomInBatch
<1>4. ASSUME NEW gone \in SUBSET BatchPaths, BatchDelete(gone) PROVE TypeInv'
  BY <1>4 DEF BatchDelete, ProcStep
<1>5. QED BY <1>1, <1>2, <1>3, <1>4 DEF ProcNext

\* A crash, a restart and a step that changes nothing keep the types.
LEMMA TypeEnv ==
    ASSUME TypeInv, Crash \/ Restart \/ UNCHANGED vars
    PROVE  TypeInv'
<1> USE DEF TypeInv, TypeOK, PathKnown, UploadRunning, UploadDone, DeleteRunning, DeleteDone,
            uploadVars, deleteVars, dbVars, natsVars, procVars, envVars
<1>1. CASE Crash
  <2>1. crashes' \in 0..MaxCrashes
    BY <1>1, BoundsAssumption DEF Crash
  <2>2. QED BY <1>1, <2>1 DEF Crash
<1>2. CASE Restart
  BY <1>2 DEF Restart
<1>3. CASE UNCHANGED vars
  BY <1>3 DEF vars
<1>4. QED BY <1>1, <1>2, <1>3

\* Every variable keeps its type, calls under way know their storage path, and
\* the consumer never runs ahead of the stream.
THEOREM TypeCorrect == Spec => []TypeInv
<1>1. TypeInv /\ [Next]_vars => TypeInv'
  BY TypeUpload, TypeDelete, TypeProc, TypeEnv DEF Next
<1>2. QED BY TypeInit, <1>1, PTL DEF Spec

-----------------------------------------------------------------------------
(* The inductive invariant.                                                *)

\* Only a change of the stream changes what is condemned.
LEMMA CondemnedUnchanged == ASSUME stream' = stream PROVE condemned' = condemned
BY DEF condemned

\* The inductive invariant holds at the start.
LEMMA InvInit == Init => IInv
<1> SUFFICES ASSUME Init PROVE IInv
  OBVIOUS
<1>1. TypeInv
  BY TypeInit
<1>2. condemned = {}
  BY DEF Init, condemned
<1>3. QED
  BY <1>1, <1>2 DEF Init, IInv, PathsDistinct, ObjectRowEvent, ReadIsFinal, LocksAreLive, DeleteProgress,
     DeleteOkMeansGone, ContentSafe, NoLeakAfterOk, InsertedOnce

\* Every step of Upload preserves the inductive invariant.
LEMMA InvUpload ==
    ASSUME IInv, NEW b \in Uploads, UploadNext(b)
    PROVE  IInv'
<1> USE DEF UploadRunning, UploadDone, DeleteRunning, DeleteDone,
            uploadVars, deleteVars, dbVars, natsVars, procVars, envVars, Settled
<1> USE DEF IInv, TypeInv, TypeOK, PathKnown, PathsDistinct, ObjectRowEvent, ReadIsFinal, LocksAreLive,
            DeleteProgress, DeleteOkMeansGone, ContentSafe, NoLeakAfterOk, InsertedOnce
<1>0. TypeInv'
  BY TypeUpload
<1>1. CASE StartUpload(b)
  <2>1. condemned' = condemned
    BY <1>1, CondemnedUnchanged DEF StartUpload
  <2>2. QED BY <1>0, <1>1, <2>1, PathsAssumption DEF StartUpload, UploadStep, createStoragePath
<1>2. CASE PutObject(b)
  <2>1. condemned' = condemned
    BY <1>2, CondemnedUnchanged DEF PutObject
  <2>2. QED BY <1>0, <1>2, <2>1 DEF PutObject, UploadStep
<1>3. CASE PutObjectFails(b)
  <2>1. condemned' = condemned
    BY <1>3, CondemnedUnchanged DEF PutObjectFails
  <2>2. QED BY <1>0, <1>3, <2>1 DEF PutObjectFails, UploadStep
<1>4. CASE Create(b)
  <2>1. condemned' = condemned
    BY <1>4, CondemnedUnchanged DEF Create
  <2>2. QED BY <1>0, <1>4, <2>1 DEF Create, CommitInsert, UploadStep
<1>5. CASE CreateFails(b)
  <2>1. condemned' = condemned
    BY <1>5, CondemnedUnchanged DEF CreateFails
  <2>2. QED BY <1>0, <1>5, <2>1 DEF CreateFails, UploadStep
<1>6. CASE Compensate(b)
  <2>1. path[b] \in Paths /\ stream \in Seq(Paths) /\ PublishFailed(path[b])
    BY <1>6 DEF Compensate, UploadStep
  <2>2. condemned' \in {condemned, condemned \cup {path[b]}}
    BY <2>1, PublishedOrNot
  <2>3. QED BY <1>0, <1>6, <2>1, <2>2, PathsAssumption DEF Compensate, UploadStep
<1>7. CASE CreateLate(b)
  <2>1. condemned' = condemned
    BY <1>7, CondemnedUnchanged DEF CreateLate
  <2>2. QED BY <1>0, <1>7, <2>1 DEF CreateLate, CommitInsert
<1>8. QED BY <1>1, <1>2, <1>3, <1>4, <1>5, <1>6, <1>7 DEF UploadNext

\* Every step of Delete preserves the inductive invariant.
LEMMA InvDelete ==
    ASSUME IInv, NEW d \in Deletes, DeleteNext(d)
    PROVE  IInv'
<1> USE DEF UploadRunning, UploadDone, DeleteRunning, DeleteDone,
            uploadVars, deleteVars, dbVars, natsVars, procVars, envVars, Settled
<1> USE DEF IInv, TypeInv, TypeOK, PathKnown, PathsDistinct, ObjectRowEvent, ReadIsFinal, LocksAreLive,
            DeleteProgress, DeleteOkMeansGone, ContentSafe, NoLeakAfterOk, InsertedOnce
<1>0. TypeInv'
  BY TypeDelete
<1>1. CASE BeginDelete(d)
  <2>1. condemned' = condemned
    BY <1>1, CondemnedUnchanged DEF BeginDelete
  <2>2. QED BY <1>0, <1>1, <2>1, DeletesAssumption DEF BeginDelete, DeleteStep
<1>2. CASE GetByID(d)
  <2>1. condemned' = condemned
    BY <1>2, CondemnedUnchanged DEF GetByID
  <2>2. QED BY <1>0, <1>2, <2>1, DeletesAssumption DEF GetByID, DeleteStep
<1>3. CASE GetByIDFails(d)
  <2>1. condemned' = condemned
    BY <1>3, CondemnedUnchanged DEF GetByIDFails
  <2>2. QED BY <1>0, <1>3, <2>1, DeletesAssumption DEF GetByIDFails, DeleteStep, Rollback, Unlocked
<1>4. CASE ExecDelete(d)
  <2>1. condemned' = condemned
    BY <1>4, CondemnedUnchanged DEF ExecDelete
  <2>2. QED BY <1>0, <1>4, <2>1, DeletesAssumption DEF ExecDelete, DeleteStep
<1>5. CASE ExecDeleteFails(d)
  <2>1. condemned' = condemned
    BY <1>5, CondemnedUnchanged DEF ExecDeleteFails
  <2>2. QED BY <1>0, <1>5, <2>1, DeletesAssumption DEF ExecDeleteFails, DeleteStep, Rollback, Unlocked
<1>6. CASE PublishDelete(d)
  <2>1. found[d] \in Paths /\ stream \in Seq(Paths) /\ Published(found[d])
    BY <1>6 DEF PublishDelete, DeleteStep
  <2>2. condemned' = condemned \cup {found[d]}
    BY <2>1, AppendCondemns DEF Published
  <2>3. QED
    BY <1>0, <1>6, <2>1, <2>2, DeletesAssumption, PathsAssumption DEF PublishDelete, DeleteStep
<1>7. CASE PublishDeleteFails(d)
  <2>1. found[d] \in Paths /\ stream \in Seq(Paths) /\ PublishFailed(found[d])
    BY <1>7 DEF PublishDeleteFails, DeleteStep
  <2>2. condemned' \in {condemned, condemned \cup {found[d]}}
    BY <2>1, PublishedOrNot
  <2>3. QED
    BY <1>0, <1>7, <2>1, <2>2, DeletesAssumption, PathsAssumption
       DEF PublishDeleteFails, DeleteStep, Rollback, Unlocked
<1>8. CASE Commit(d)
  <2>1. condemned' = condemned
    BY <1>8, CondemnedUnchanged DEF Commit
  <2>2. QED BY <1>0, <1>8, <2>1, DeletesAssumption DEF Commit, DeleteStep, Committed, Unlocked
<1>9. CASE CommitFails(d)
  <2>1. condemned' = condemned
    BY <1>9, CondemnedUnchanged DEF CommitFails
  <2>2. QED BY <1>0, <1>9, <2>1, DeletesAssumption DEF CommitFails, DeleteStep, Committed, Unlocked
<1>10. QED
  BY <1>1, <1>2, <1>3, <1>4, <1>5, <1>6, <1>7, <1>8, <1>9 DEF DeleteNext

\* Every step of the processor and its consumer preserves it: BatchDelete
\* removes condemned objects only.
LEMMA InvProc ==
    ASSUME IInv, ProcNext
    PROVE  IInv'
<1> USE DEF uploadVars, deleteVars, dbVars, natsVars, procVars, envVars, Settled
<1> USE DEF IInv, TypeInv, PathsDistinct, ObjectRowEvent, ReadIsFinal, LocksAreLive,
            DeleteProgress, DeleteOkMeansGone, ContentSafe, NoLeakAfterOk, InsertedOnce
<1>0. TypeInv'
  BY TypeProc DEF TypeInv
<1>1. condemned' = condemned
  <2>1. stream' = stream
    BY DEF ProcNext, CreateStream, CreateConsumer, SetupFails, Deliver, FetchEnds, Redeliver,
           AckWaitExpires, BatchDelete
  <2>2. QED BY <2>1, CondemnedUnchanged
<1>2. CASE CreateStream \/ CreateConsumer \/ SetupFails \/ FetchEnds \/ Deliver
  BY <1>0, <1>1, <1>2
     DEF CreateStream, CreateConsumer, SetupFails, FetchEnds, Deliver, ProcStep, RoomInBatch
<1>3. ASSUME NEW s \in 1..cursor, Redeliver(s) \/ AckWaitExpires(s) PROVE IInv'
  BY <1>0, <1>1, <1>3 DEF Redeliver, AckWaitExpires, RoomInBatch
<1>4. ASSUME NEW gone \in SUBSET BatchPaths, BatchDelete(gone) PROVE IInv'
  <2>1. gone \subseteq condemned
    BY DEF TypeOK, PathKnown, BatchPaths, condemned
  <2>2. objects \cup condemned = objects' \cup condemned'
    BY <1>1, <1>4, <2>1 DEF BatchDelete
  <2>3. QED BY <1>0, <1>1, <1>4, <2>2 DEF BatchDelete, ProcStep
<1>5. QED BY <1>2, <1>3, <1>4 DEF ProcNext

\* A crash, a restart and a step that changes nothing preserve it.
LEMMA InvEnv ==
    ASSUME IInv, Crash \/ Restart \/ UNCHANGED vars
    PROVE  IInv'
<1> USE DEF UploadRunning, UploadDone, DeleteRunning, DeleteDone,
            uploadVars, deleteVars, dbVars, natsVars, procVars, envVars, Settled
<1> USE DEF IInv, TypeInv, PathsDistinct, ObjectRowEvent, ReadIsFinal, LocksAreLive,
            DeleteProgress, DeleteOkMeansGone, ContentSafe, NoLeakAfterOk, InsertedOnce
<1>0. TypeInv'
  BY TypeEnv DEF TypeInv
<1>1. condemned' = condemned
  BY CondemnedUnchanged DEF Crash, Restart, vars
<1>2. CASE Crash
  BY <1>0, <1>1, <1>2 DEF Crash, TypeOK
<1>3. CASE Restart
  BY <1>0, <1>1, <1>3 DEF Restart
<1>4. CASE UNCHANGED vars
  BY <1>0, <1>1, <1>4 DEF vars
<1>5. QED BY <1>2, <1>3, <1>4

\* Every step of the system preserves the inductive invariant.
LEMMA InvNext == IInv /\ [Next]_vars => IInv'
BY InvUpload, InvDelete, InvProc, InvEnv DEF Next

\* The inductive invariant of the three stores.
THEOREM Inductive == Spec => []IInv
BY InvInit, InvNext, PTL DEF Spec

-----------------------------------------------------------------------------
(* What the invariant is for.                                              *)

\* Whatever fails and whenever the process dies, a listed book has its content
\* or a deletion event for it is on record.
THEOREM ContentIsSafe == Spec => []ContentSafe
BY Inductive, PTL DEF IInv

\* A Delete that answered nil has removed the row and condemned the content,
\* however many Deletes of the same book ran at once.
THEOREM DeleteOkIsFinal == Spec => []DeleteOkMeansGone
BY Inductive, PTL DEF IInv

\* The content of a successful upload whose row is gone has its deletion event.
THEOREM NoLeak == Spec => []NoLeakAfterOk
BY Inductive, PTL DEF IInv

\* Row locks are held by transactions that are still open.
THEOREM LocksLive == Spec => []LocksAreLive
BY Inductive, PTL DEF IInv

-----------------------------------------------------------------------------
(* The three stores implement the contract.                                *)

\* The initial state maps to the initial state of the contract.
LEMMA ContractInit == Init => Contract!Init
<1> SUFFICES ASSUME Init PROVE Contract!Init
  OBVIOUS
<1>1. condemned = {} /\ objects = {} /\ rows = {} /\ \A b \in Uploads : inserted[b] # "yes"
  BY DEF Init, condemned
<1>2. QED BY <1>1 DEF Contract!Init

\* An event for a book whose content exists condemns it; a further event for
\* an erased book is seen by no one.
LEMMA ContractPublish ==
    ASSUME IInv, NEW b \in Uploads, path[b] \in Paths,
           path[b] \in objects \cup condemned,
           condemned' \in {condemned, condemned \cup {path[b]}},
           UNCHANGED <<objects, path, rows, inserted>>
    PROVE  [Contract!Next]_Contract!vars
<1>1. \A c \in Uploads : path[c] = path[b] => c = b
  BY PathsAssumption DEF IInv, PathsDistinct
<1>2. CASE condemned' = condemned
  BY <1>2 DEF Contract!vars
<1>3. CASE condemned' = condemned \cup {path[b]} /\ path[b] \in condemned
  <2>1. condemned' = condemned
    BY <1>3
  <2>2. QED BY <2>1 DEF Contract!vars
<1>4. CASE condemned' = condemned \cup {path[b]} /\ path[b] \in objects
  <2>1. Contract!Condemn(b)
    BY <1>1, <1>4 DEF Contract!Condemn
  <2>2. QED BY <2>1 DEF Contract!Next
<1>5. QED BY <1>2, <1>3, <1>4

\* Every step of Upload maps to Store, Show, Condemn or a stutter.
LEMMA ContractUpload ==
    ASSUME IInv, NEW b \in Uploads, UploadNext(b)
    PROVE  [Contract!Next]_Contract!vars
<1> USE DEF UploadRunning, UploadDone, uploadVars, deleteVars, dbVars, natsVars, procVars, envVars,
            UploadStep, Settled
<1>0. /\ TypeOK /\ PathKnown /\ PathsDistinct /\ InsertedOnce /\ ObjectRowEvent /\ ContentSafe
      /\ \A c \in Uploads : path[c] = path[b] /\ path[b] # NoPath => c = b
  BY DEF IInv, TypeInv, PathsDistinct
<1>1. CASE StartUpload(b)
  <2>1. condemned' = condemned
    BY <1>1, CondemnedUnchanged DEF StartUpload
  <2>2. PICK p \in Paths : p \notin objects \cup condemned /\ path' = [path EXCEPT ![b] = p]
    BY <1>0, <1>1 DEF StartUpload, createStoragePath, PathsDistinct
  <2>3. path[b] \notin objects \cup condemned
    BY <1>0, <1>1, PathsAssumption DEF StartUpload, PathsDistinct, TypeOK, condemned
  <2>4. \A c \in Uploads : /\ path'[c] \in objects <=> path[c] \in objects
                           /\ path'[c] \in condemned <=> path[c] \in condemned
    BY <1>0, <2>2, <2>3 DEF TypeOK
  <2>5. QED BY <1>1, <2>1, <2>4 DEF StartUpload, Contract!vars
<1>2. CASE PutObject(b) \/ PutObjectFails(b)
  <2>1. condemned' = condemned
    BY <1>2, CondemnedUnchanged DEF PutObject, PutObjectFails
  <2>2. b \notin rows /\ path[b] \notin condemned /\ path[b] \in Paths
    BY <1>0, <1>2 DEF PutObject, PutObjectFails, ObjectRowEvent, InsertedOnce, PathKnown
  <2>3. CASE objects' = objects
    BY <1>2, <2>1, <2>3 DEF PutObject, PutObjectFails, Contract!vars
  <2>4. CASE objects' = objects \cup {path[b]}
    <3>1. Contract!Store(b)
      BY <1>0, <1>2, <2>1, <2>2, <2>4, PathsAssumption DEF PutObject, PutObjectFails, Contract!Store
    <3>2. QED BY <3>1 DEF Contract!Next
  <2>5. QED BY <1>2, <2>3, <2>4 DEF PutObject, PutObjectFails
<1>3. CASE Create(b) \/ CreateLate(b)
  <2>1. condemned' = condemned
    BY <1>3, CondemnedUnchanged DEF Create, CreateLate
  <2>2. path[b] \in objects \cup condemned /\ inserted[b] # "yes"
    BY <1>0, <1>3 DEF Create, CreateLate, ObjectRowEvent, InsertedOnce
  <2>3. {c \in Uploads : inserted[c] = "yes"}' = {c \in Uploads : inserted[c] = "yes"} \cup {b}
    BY <1>0, <1>3 DEF Create, CreateLate, CommitInsert, TypeOK
  <2>4. Contract!Show(b)
    BY <1>3, <2>1, <2>2, <2>3 DEF Create, CreateLate, CommitInsert, Contract!Show
  <2>5. QED BY <2>4 DEF Contract!Next
<1>5. CASE CreateFails(b)
  <2>1. inserted[b] # "yes"
    BY <1>0, <1>5 DEF CreateFails, InsertedOnce
  <2>2. condemned' = condemned /\ UNCHANGED <<objects, path, rows>>
    BY <1>5, CondemnedUnchanged DEF CreateFails
  <2>3. {c \in Uploads : inserted[c] = "yes"}' = {c \in Uploads : inserted[c] = "yes"}
    BY <1>0, <1>5, <2>1 DEF CreateFails, TypeOK
  <2>4. QED BY <2>2, <2>3 DEF Contract!vars
<1>4. CASE Compensate(b)
  <2>1. path[b] \in Paths /\ stream \in Seq(Paths) /\ PublishFailed(path[b])
    BY <1>0, <1>4 DEF Compensate, PathKnown, TypeOK
  <2>2. condemned' \in {condemned, condemned \cup {path[b]}}
    BY <2>1, PublishedOrNot
  <2>3. path[b] \in objects \cup condemned
    BY <1>0, <1>4 DEF Compensate, ObjectRowEvent
  <2>4. UNCHANGED <<objects, path, rows, inserted>>
    BY <1>4 DEF Compensate
  <2>5. QED BY <2>1, <2>2, <2>3, <2>4, ContractPublish
<1>6. QED BY <1>1, <1>2, <1>3, <1>4, <1>5 DEF UploadNext

\* Every step of Delete maps to Condemn, Hide or a stutter.
LEMMA ContractDelete ==
    ASSUME IInv, NEW d \in Deletes, DeleteNext(d)
    PROVE  [Contract!Next]_Contract!vars
<1> USE DEF uploadVars, deleteVars, dbVars, natsVars, procVars, envVars, DeleteStep, Rollback
<1>0. TypeOK /\ PathKnown /\ ReadIsFinal /\ LocksAreLive /\ DeleteProgress
  BY DEF IInv, TypeInv
<1>1. ASSUME UNCHANGED <<objects, path, rows, inserted, stream>> PROVE UNCHANGED Contract!vars
  BY <1>1, CondemnedUnchanged DEF Contract!vars
<1>2. CASE \/ BeginDelete(d) \/ GetByID(d) \/ GetByIDFails(d) \/ ExecDelete(d) \/ ExecDeleteFails(d)
  <2>1. UNCHANGED <<objects, path, rows, inserted, stream>>
    BY <1>2 DEF BeginDelete, GetByID, GetByIDFails, ExecDelete, ExecDeleteFails
  <2>2. QED BY <1>1, <2>1
<1>3. CASE PublishDelete(d) \/ PublishDeleteFails(d)
  <2>1. found[d] \in Paths /\ stream \in Seq(Paths) /\ (PublishFailed(found[d]) \/ Published(found[d]))
    BY <1>0, <1>3 DEF PublishDelete, PublishDeleteFails, PathKnown, TypeOK
  <2>2. condemned' \in {condemned, condemned \cup {found[d]}}
    BY <2>1, PublishedOrNot
  <2>3. found[d] = path[target[d]] /\ path[target[d]] \in objects \cup condemned /\ target[d] \in Uploads
    BY <1>0, <1>3 DEF PublishDelete, PublishDeleteFails, ReadIsFinal, TypeOK
  <2>4. UNCHANGED <<objects, path, rows, inserted>>
    BY <1>3 DEF PublishDelete, PublishDeleteFails
  <2>5. QED BY <2>1, <2>2, <2>3, <2>4, ContractPublish
<1>4. CASE Commit(d) \/ CommitFails(d)
  <2>1. condemned' = condemned
    BY <1>4, CondemnedUnchanged DEF Commit, CommitFails
  <2>2. path[target[d]] \in condemned /\ target[d] \in Uploads
    BY <1>0, <1>4 DEF Commit, CommitFails, DeleteProgress, TypeOK
  <2>3. rows' = rows \/ rows' = rows \ {target[d]}
    <3>1. \A b \in rows : lock[b] = d => b = target[d]
      BY <1>0, DeletesAssumption DEF LocksAreLive, TypeOK
    <3>2. target[d] \notin rows \/ lock[target[d]] = d
      BY <1>0, <1>4 DEF Commit, CommitFails, DeleteProgress
    <3>3. Committed(d) = rows \ {target[d]}
      BY <3>1, <3>2 DEF Committed
    <3>4. QED BY <1>4, <3>3 DEF Commit, CommitFails
  <2>4. CASE rows' = rows
    BY <1>4, <2>4, <1>1 DEF Commit, CommitFails
  <2>5. CASE rows' = rows \ {target[d]} /\ target[d] \in rows
    <3>1. Contract!Hide(target[d])
      BY <1>4, <2>1, <2>2, <2>5 DEF Commit, CommitFails, Contract!Hide
    <3>2. QED BY <2>2, <3>1 DEF Contract!Next
  <2>6. QED BY <2>3, <2>4, <2>5
<1>5. QED BY <1>2, <1>3, <1>4 DEF DeleteNext

\* The processor erases condemned content, or its step maps to a stutter.
LEMMA ContractProc ==
    ASSUME IInv, ProcNext
    PROVE  [Contract!Next]_Contract!vars
<1> USE DEF uploadVars, deleteVars, dbVars, natsVars, procVars, envVars
<1>1. condemned' = condemned /\ UNCHANGED <<rows, inserted, path>>
  <2>1. stream' = stream /\ UNCHANGED <<rows, inserted, path>>
    BY DEF ProcNext, CreateStream, CreateConsumer, SetupFails, Deliver, FetchEnds, Redeliver,
           AckWaitExpires, BatchDelete
  <2>2. QED BY <2>1, CondemnedUnchanged
<1>2. CASE objects' = objects
  BY <1>1, <1>2 DEF Contract!vars
<1>3. ASSUME NEW gone \in SUBSET BatchPaths, BatchDelete(gone) PROVE Contract!Next
  <2>1. gone \subseteq condemned
    <3>1. batch \subseteq 1..Len(stream)
      BY DEF IInv, TypeInv, TypeOK, PathKnown
    <3>2. QED BY <3>1 DEF BatchPaths, condemned
  <2>2. PICK S \in SUBSET Uploads : S = {b \in Uploads : path[b] \in gone}
    OBVIOUS
  <2>3. {b \in Uploads : path[b] \in objects}' = {b \in Uploads : path[b] \in objects} \ S
    BY <1>1, <1>3, <2>2 DEF BatchDelete
  <2>4. Contract!Erase(S)
    BY <1>1, <2>1, <2>2, <2>3 DEF Contract!Erase
  <2>5. QED BY <2>4 DEF Contract!Next
<1>4. QED
  BY <1>2, <1>3 DEF ProcNext, CreateStream, CreateConsumer, SetupFails, Deliver, FetchEnds, Redeliver,
     AckWaitExpires

\* A crash, a restart and an expired AckWait are invisible to the contract.
LEMMA ContractEnv ==
    ASSUME IInv, Crash \/ Restart \/ UNCHANGED vars
    PROVE  UNCHANGED Contract!vars
<1>1. UNCHANGED <<objects, path, rows, stream>>
  BY DEF Crash, Restart, vars, natsVars, uploadVars, dbVars
<1>2. \A b \in Uploads : inserted'[b] = "yes" <=> inserted[b] = "yes"
  <2>1. \A b \in Uploads : upload[b] = "insert" => inserted[b] # "yes"
    BY DEF IInv, InsertedOnce, Settled, UploadDone
  <2>2. QED BY <2>1 DEF Crash, Restart, vars, dbVars
<1>3. QED BY <1>1, <1>2, CondemnedUnchanged DEF Contract!vars

\* The bucket, the table and the stream together keep the contract: a step of
\* any call, of the processor, or the death of the process is one step of it.
THEOREM ImplementsContract == Spec => KeepsContract
<1>1. IInv /\ [Next]_vars => [Contract!Next]_Contract!vars
  BY ContractUpload, ContractDelete, ContractProc, ContractEnv DEF Next
<1>2. QED BY Inductive, ContractInit, <1>1, PTL DEF Spec, KeepsContract, Contract!Spec

\* Erased content does not come back: a condemned path is never written again.
THEOREM ErasedStaysErased == Spec => NoResurrection
<1>1. IInv /\ [Next]_vars => [\A p \in condemned : p \in objects' => p \in objects]_vars
  <2> SUFFICES ASSUME IInv, [Next]_vars, NEW p \in condemned, p \in objects' PROVE p \in objects
    OBVIOUS
  <2>1. CASE \E b \in Uploads : PutObject(b) \/ PutObjectFails(b)
    <3>1. PICK b \in Uploads : PutObject(b) \/ PutObjectFails(b)
      BY <2>1
    <3>2. path[b] \notin condemned
      BY <3>1 DEF PutObject, PutObjectFails, UploadStep, IInv, ObjectRowEvent, Settled, UploadDone
    <3>3. QED BY <3>1, <3>2 DEF PutObject, PutObjectFails
  <2>2. CASE ~ \E b \in Uploads : PutObject(b) \/ PutObjectFails(b)
    BY <2>2 DEF Next, vars, UploadNext, StartUpload, Create, CreateFails, CreateLate, CommitInsert, Compensate, DeleteNext,
       BeginDelete, GetByID, GetByIDFails, ExecDelete, ExecDeleteFails, PublishDelete,
       PublishDeleteFails, Commit, CommitFails, ProcNext, CreateStream, CreateConsumer, SetupFails,
       Deliver, FetchEnds, Redeliver, AckWaitExpires, BatchDelete, Crash, Restart
  <2>3. QED BY <2>1, <2>2
<1>2. QED BY Inductive, <1>1, PTL DEF Spec, NoResurrection

\* Every variable of the stores and the calls keeps its type, for any values of the constants.
THEOREM AlwaysTyped == Spec => []TypeOK
BY TypeCorrect, PTL DEF TypeInv

-----------------------------------------------------------------------------
(* The contract's own theorems, and what they mean for the three stores.   *)

\* Whoever keeps the contract lists only books whose content is stored or
\* condemned.
LEMMA ContractLists == Contract!Spec => []Contract!ListedHasContent
<1> USE DEF Contract!ListedHasContent
<1>1. Contract!Init => Contract!ListedHasContent
  BY DEF Contract!Init
<1>2. Contract!ListedHasContent /\ [Contract!Next]_Contract!vars => Contract!ListedHasContent'
  BY DEF Contract!Next, Contract!vars, Contract!Store, Contract!Show, Contract!Condemn, Contract!Hide,
     Contract!Erase
<1>3. QED BY <1>1, <1>2, PTL DEF Contract!Spec

\* A row disappears only when the event for its content is stored, and then
\* for good: seen by any client, a deletion is never half undone.
THEOREM DeletionsAreFinal == Spec => Contract!HidingIsFinal
<1>1. [Contract!Next]_Contract!vars =>
          [/\ rows \ rows' \subseteq {b \in Uploads : path[b] \in condemned}
           /\ rows' \cap {b \in Uploads : inserted[b] = "yes"} \subseteq rows]_Contract!vars
  BY DEF Contract!Next, Contract!Store, Contract!Show, Contract!Condemn, Contract!Hide, Contract!Erase
<1>2. QED
  BY ImplementsContract, <1>1, PTL DEF KeepsContract, Contract!Spec, Contract!HidingIsFinal

\* The content of a book goes only when an event for it is stored, and the
\* content of a condemned book that is gone is never stored again.
THEOREM ErasuresAreFinal == Spec => Contract!ErasureIsFinal
<1>1. [Contract!Next]_Contract!vars =>
          [/\ {b \in Uploads : path[b] \in objects} \ {b \in Uploads : path[b] \in objects}'
                  \subseteq {b \in Uploads : path[b] \in condemned}
           /\ {b \in Uploads : path[b] \in objects}' \cap {b \in Uploads : path[b] \in condemned}
                  \subseteq {b \in Uploads : path[b] \in objects}]_Contract!vars
  BY DEF Contract!Next, Contract!Store, Contract!Show, Contract!Condemn, Contract!Hide, Contract!Erase
<1>2. QED
  BY ImplementsContract, <1>1, PTL DEF KeepsContract, Contract!Spec, Contract!ErasureIsFinal

-----------------------------------------------------------------------------
(* The standstill of the processor.                                        *)

\* The events of a batch are among those delivered.
LEMMA BatchIsDelivered ==
    ASSUME IInv, WindowBounded
    PROVE  batch \subseteq 1..MaxAckPending
BY BoundsAssumption DEF IInv, TypeInv, TypeOK, WindowBounded

\* Only a Fetch moves the consumer on, and only while fewer than MaxAckPending
\* events are pending.
LEMMA WindowNext == IInv /\ WindowBounded /\ [Next]_vars => WindowBounded'
<1> SUFFICES ASSUME IInv, WindowBounded, [Next]_vars PROVE WindowBounded'
  OBVIOUS
<1>1. CASE Deliver
  BY <1>1, BoundsAssumption DEF Deliver, WindowBounded, IInv, TypeInv, TypeOK
<1>2. CASE ~Deliver
  <2>1. cursor' = cursor
    BY <1>2 DEF Next, vars, UploadNext, StartUpload, PutObject, PutObjectFails, Create, CreateFails, CreateLate, CommitInsert,
       Compensate, DeleteNext, BeginDelete, GetByID, GetByIDFails, ExecDelete, ExecDeleteFails,
       PublishDelete, PublishDeleteFails, Commit, CommitFails, ProcNext, CreateStream, CreateConsumer,
       SetupFails, FetchEnds, Redeliver, AckWaitExpires, BatchDelete, Crash, Restart, natsVars
  <2>2. QED BY <2>1 DEF WindowBounded
<1>3. QED BY <1>1, <1>2

\* However many events are stored, the processor is never given more than the
\* first MaxAckPending of them.
THEOREM WindowNeverMoves == Spec => []WindowBounded
<1>1. Init => WindowBounded
  BY BoundsAssumption DEF Init, WindowBounded
<1>2. QED BY <1>1, WindowNext, Inductive, PTL DEF Spec

\* The stream keeps the events it has.
LEMMA EventsStay ==
    ASSUME IInv, [Next]_vars
    PROVE  /\ Len(stream) \in Nat /\ Len(stream') \in Nat
           /\ Len(stream') >= Len(stream)
           /\ \A s \in 1..Len(stream) : stream'[s] = stream[s]
<1>1. stream \in Seq(Paths) /\ stream' \in Seq(Paths)
  <2>1. IInv'
    BY InvNext
  <2>2. QED BY <2>1 DEF IInv, TypeInv, TypeOK
<1>2. stream' = stream \/ \E p \in Paths : stream' = Append(stream, p)
  <2>1. CASE \E b \in Uploads : Compensate(b)
    <3>1. PICK b \in Uploads : Compensate(b)
      BY <2>1
    <3>2. path[b] \in Paths
      BY <3>1 DEF Compensate, UploadStep, UploadRunning, IInv, TypeInv, PathKnown
    <3>3. QED BY <3>1, <3>2 DEF Compensate, PublishFailed, Published
  <2>2. CASE \E d \in Deletes : PublishDelete(d) \/ PublishDeleteFails(d)
    <3>1. PICK d \in Deletes : PublishDelete(d) \/ PublishDeleteFails(d)
      BY <2>2
    <3>2. found[d] \in Paths
      BY <3>1 DEF PublishDelete, PublishDeleteFails, DeleteStep, IInv, TypeInv, PathKnown
    <3>3. QED BY <3>1, <3>2 DEF PublishDelete, PublishDeleteFails, PublishFailed, Published
  <2>3. CASE /\ ~ \E b \in Uploads : Compensate(b)
             /\ ~ \E d \in Deletes : PublishDelete(d) \/ PublishDeleteFails(d)
    BY <2>3 DEF Next, vars, UploadNext, StartUpload, PutObject, PutObjectFails, Create, CreateFails, CreateLate, CommitInsert,
       DeleteNext, BeginDelete, GetByID, GetByIDFails, ExecDelete, ExecDeleteFails, Commit, CommitFails,
       ProcNext, CreateStream, CreateConsumer, SetupFails, Deliver, FetchEnds, Redeliver, AckWaitExpires,
       BatchDelete, Crash, Restart, natsVars
  <2>4. QED BY <2>1, <2>2, <2>3
<1>3. QED BY <1>1, <1>2

\* Only a batch takes objects away, and only those its events are for.
LEMMA OnlyBatchesErase ==
    ASSUME [Next]_vars, NEW p \in objects, p \notin objects'
    PROVE  p \in BatchPaths
BY DEF Next, vars, UploadNext, StartUpload, PutObject, PutObjectFails, Create, CreateFails, CreateLate, CommitInsert, Compensate,
   DeleteNext, BeginDelete, GetByID, GetByIDFails, ExecDelete, ExecDeleteFails, PublishDelete,
   PublishDeleteFails, Commit, CommitFails, ProcNext, CreateStream, CreateConsumer, SetupFails, Deliver,
   FetchEnds, Redeliver, AckWaitExpires, BatchDelete, Crash, Restart

\* No step ends a standstill.
LEMMA StalledNext ==
    ASSUME IInv, WindowBounded, [Next]_vars, NEW p \in Paths, Stalled(p)
    PROVE  Stalled(p)'
<1>1. \A s \in 1..MaxAckPending : stream'[s] = stream[s]
  BY EventsStay, BoundsAssumption DEF Stalled
<1>2. p \in objects'
  <2>1. p \notin BatchPaths
    BY BatchIsDelivered DEF Stalled, BatchPaths
  <2>2. QED BY <2>1, OnlyBatchesErase DEF Stalled
<1>3. Len(stream') >= MaxAckPending
  BY EventsStay, BoundsAssumption DEF Stalled
<1>4. QED BY <1>1, <1>2, <1>3 DEF Stalled

\* For every MaxAckPending: once that many events are stored, the content that
\* none of them is for stays in the bucket, whatever is deleted, redelivered or
\* restarted later.
THEOREM StandstillIsFinal == Spec => StalledForever
<1>1. ASSUME NEW p \in Paths PROVE Spec => [](Stalled(p) => []Stalled(p))
  <2>1. IInv /\ WindowBounded /\ Stalled(p) /\ [Next]_vars => Stalled(p)'
    BY StalledNext
  <2>2. QED BY <2>1, Inductive, WindowNeverMoves, PTL DEF Spec
<1>2. QED BY <1>1 DEF StalledForever

-----------------------------------------------------------------------------
(* What costs a book its content.                                          *)

\* An event is for the book of the call that publishes it, and for no other,
\* since no two books share a path.
LEMMA PublishIsOwn ==
    ASSUME IInv, [Next]_vars, NEW b \in Uploads, path[b] \in condemned' \ condemned
    PROVE  \/ Compensate(b)
           \/ \E d \in Deletes : target[d] = b /\ (PublishDelete(d) \/ PublishDeleteFails(d))
<1>1. ASSUME NEW c \in Uploads, path[c] \in Paths, path[c] = path[b] PROVE c = b
  BY <1>1, PathsAssumption DEF IInv, PathsDistinct
<1>2. CASE \E c \in Uploads : Compensate(c)
  <2>1. PICK c \in Uploads : Compensate(c)
    BY <1>2
  <2>2. path[c] \in Paths /\ stream \in Seq(Paths) /\ PublishFailed(path[c])
    BY <2>1 DEF Compensate, UploadStep, UploadRunning, IInv, TypeInv, TypeOK, PathKnown
  <2>3. path[b] = path[c]
    BY <2>2, PublishedOrNot
  <2>4. QED BY <1>1, <2>1, <2>2, <2>3
<1>3. CASE \E d \in Deletes : PublishDelete(d) \/ PublishDeleteFails(d)
  <2>1. PICK d \in Deletes : PublishDelete(d) \/ PublishDeleteFails(d)
    BY <1>3
  <2>2. /\ found[d] \in Paths /\ stream \in Seq(Paths)
        /\ PublishFailed(found[d]) \/ Published(found[d])
        /\ found[d] = path[target[d]] /\ target[d] \in Uploads
    BY <2>1 DEF PublishDelete, PublishDeleteFails, DeleteStep, IInv, TypeInv, TypeOK, PathKnown, ReadIsFinal
  <2>3. path[b] = found[d]
    BY <2>2, PublishedOrNot
  <2>4. target[d] = b
    BY <1>1, <2>2, <2>3
  <2>5. QED BY <2>1, <2>4
<1>4. CASE /\ ~ \E c \in Uploads : Compensate(c)
           /\ ~ \E d \in Deletes : PublishDelete(d) \/ PublishDeleteFails(d)
  <2>1. stream' = stream
    BY <1>4 DEF Next, vars, UploadNext, StartUpload, PutObject, PutObjectFails, Create, CreateFails,
       CreateLate, DeleteNext, BeginDelete, GetByID, GetByIDFails, ExecDelete, ExecDeleteFails, Commit,
       CommitFails, ProcNext, CreateStream, CreateConsumer, SetupFails, Deliver, FetchEnds, Redeliver,
       AckWaitExpires, BatchDelete, Crash, Restart, natsVars
  <2>2. QED BY <2>1, CondemnedUnchanged
<1>5. QED BY <1>2, <1>3, <1>4

\* Only the publish of its own failed Upload or of a Delete of this very book
\* condemns a book's content, and content goes only when it is condemned.
THEOREM LossIsPublished == Spec => LossNeedsPublish
<1>1. ASSUME IInv, [Next]_vars, NEW b \in Uploads, path[b] \in objects \ objects'
      PROVE  path[b] \in condemned
  <2>1. path[b] \in BatchPaths
    BY <1>1, OnlyBatchesErase
  <2>2. batch \subseteq 1..Len(stream)
    BY <1>1 DEF IInv, TypeInv, TypeOK, PathKnown
  <2>3. QED BY <2>1, <2>2 DEF BatchPaths, condemned
<1>2. IInv /\ [Next]_vars =>
          [\A b \in Uploads :
              /\ path[b] \in condemned' \ condemned =>
                    \/ Compensate(b)
                    \/ \E d \in Deletes :
                          target[d] = b /\ (PublishDelete(d) \/ PublishDeleteFails(d))
              /\ path[b] \in objects \ objects' => path[b] \in condemned]_vars
  BY <1>1, PublishIsOwn
<1>3. QED BY Inductive, <1>2, PTL DEF Spec, LossNeedsPublish
=============================================================================
