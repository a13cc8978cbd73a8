------------------------ MODULE BookDownloadProofs ------------------------
(***************************************************************************)
(* Theorems about BookDownload.  The invariant of the three stores carries *)
(* over to the composition, and four facts about what one step of them     *)
(* keeps are all that the requests depend on.                              *)
(***************************************************************************)
EXTENDS BookDownload, BookStoreProofs

\* What a step of the stores keeps, for a reader that is between two steps:
\* settled uploads keep their path and their result, their content stays stored
\* or condemned, events stay, and a row that was inserted once never returns.
Kept ==
    \A b \in Uploads :
        /\ Settled(b) => Settled(b)' /\ path'[b] = path[b]
        /\ inserted[b] = "yes" => /\ inserted'[b] = "yes" /\ path'[b] = path[b]
                                  /\ b \notin rows => b \notin rows'
        /\ upload[b] = "ok" => upload'[b] = "ok"
        /\ path[b] \in condemned => path[b] \in condemned'
        /\ path[b] \in objects \cup condemned => path[b] \in objects' \cup condemned'

\* No step of an upload takes back what the requests rely on (Kept).
LEMMA KeptByUpload == ASSUME IInv, NEW b \in Uploads, UploadNext(b) PROVE Kept
<1> USE DEF Kept, Settled, UploadDone, TypeOK, UploadStep, CommitInsert, uploadVars, dbVars, natsVars
<1>0. TypeOK /\ PathKnown /\ PathsDistinct /\ InsertedOnce
  BY DEF IInv, TypeInv
<1>1. condemned' = condemned \/ (condemned \subseteq condemned' /\ Compensate(b))
  <2>1. CASE Compensate(b)
    <3>1. path[b] \in Paths /\ stream \in Seq(Paths) /\ PublishFailed(path[b])
      BY <1>0, <2>1 DEF Compensate, PathKnown, UploadRunning
    <3>2. condemned' \in {condemned, condemned \cup {path[b]}}
      BY <3>1, PublishedOrNot
    <3>3. QED BY <2>1, <3>2
  <2>2. CASE ~Compensate(b)
    <3>1. stream' = stream
      BY <2>2 DEF UploadNext, StartUpload, PutObject, PutObjectFails, Create, CreateFails, CreateLate
    <3>2. QED BY <3>1, CondemnedUnchanged
  <2>3. QED BY <2>1, <2>2
<1>2. CASE StartUpload(b)
  BY <1>0, <1>1, <1>2 DEF StartUpload, Compensate, PathsDistinct, InsertedOnce
<1>3. CASE \/ PutObject(b) \/ PutObjectFails(b) \/ Create(b) \/ CreateFails(b) \/ CreateLate(b)
           \/ Compensate(b)
  BY <1>0, <1>1, <1>3
     DEF PutObject, PutObjectFails, Create, CreateFails, CreateLate, Compensate, InsertedOnce
<1>4. QED BY <1>2, <1>3 DEF UploadNext

\* No step of a Delete takes back what the requests rely on.
LEMMA KeptByDelete == ASSUME IInv, NEW d \in Deletes, DeleteNext(d) PROVE Kept
<1> USE DEF DeleteStep, Rollback, Committed, uploadVars, dbVars, natsVars
<1>1. condemned \subseteq condemned'
  <2>1. CASE PublishDelete(d) \/ PublishDeleteFails(d)
    <3>1. found[d] \in Paths /\ stream \in Seq(Paths) /\ (PublishFailed(found[d]) \/ Published(found[d]))
      BY <2>1 DEF PublishDelete, PublishDeleteFails, IInv, TypeInv, TypeOK, PathKnown
    <3>2. condemned' \in {condemned, condemned \cup {found[d]}}
      BY <3>1, PublishedOrNot
    <3>3. QED BY <3>2
  <2>2. CASE ~(PublishDelete(d) \/ PublishDeleteFails(d))
    <3>1. stream' = stream
      BY <2>2 DEF DeleteNext, BeginDelete, GetByID, GetByIDFails, ExecDelete, ExecDeleteFails, Commit,
         CommitFails
    <3>2. QED BY <3>1, CondemnedUnchanged
  <2>3. QED BY <2>1, <2>2
<1>2. UNCHANGED <<path, upload, objects, inserted>> /\ rows' \subseteq rows
  BY DEF DeleteNext, BeginDelete, GetByID, GetByIDFails, ExecDelete, ExecDeleteFails, PublishDelete,
     PublishDeleteFails, Commit, CommitFails
<1>3. QED BY <1>1, <1>2 DEF Kept, Settled

\* The processor erases condemned content only.
LEMMA KeptByProc == ASSUME IInv, ProcNext PROVE Kept
<1>1. UNCHANGED <<path, upload, rows, inserted, stream>>
  BY DEF ProcNext, CreateStream, CreateConsumer, SetupFails, Deliver, FetchEnds, Redeliver,
     AckWaitExpires, BatchDelete, uploadVars, dbVars, natsVars
<1>2. condemned' = condemned
  BY <1>1, CondemnedUnchanged
<1>3. objects \subseteq objects' \cup condemned
  <2>1. BatchPaths \subseteq condemned
    <3>1. /\ batch \subseteq 1..cursor /\ cursor \in Nat /\ cursor <= Len(stream)
          /\ Len(stream) \in Nat
      BY DEF IInv, TypeInv, TypeOK, PathKnown
    <3>2. batch \subseteq 1..Len(stream)
      BY <3>1
    <3>3. QED BY <3>2 DEF BatchPaths, condemned
  <2>2. \/ objects' = objects
        \/ \E gone \in SUBSET BatchPaths : objects' = objects \ gone
    BY DEF ProcNext, CreateStream, CreateConsumer, SetupFails, Deliver, FetchEnds, Redeliver,
       AckWaitExpires, BatchDelete
  <2>3. QED BY <2>1, <2>2
<1>4. QED BY <1>1, <1>2, <1>3 DEF Kept, Settled

\* A crash and a restart take back nothing that is stored.
LEMMA KeptByEnv == ASSUME IInv, Crash \/ Restart \/ UNCHANGED vars PROVE Kept
<1>1. UNCHANGED <<objects, path, rows, stream>>
  BY DEF Crash, Restart, vars, natsVars, uploadVars, dbVars
<1>2. \A b \in Uploads : Settled(b) => Settled(b)' /\ (upload[b] = "ok" => upload'[b] = "ok")
  BY DEF Crash, Restart, vars, uploadVars, Settled, UploadRunning, UploadDone
<1>3. \A b \in Uploads : upload[b] = "ok" => Settled(b)
  BY DEF Settled, UploadDone
<1>4. \A b \in Uploads : inserted[b] = "yes" => inserted'[b] = "yes"
  BY DEF Crash, Restart, vars, dbVars, IInv, InsertedOnce, Settled, UploadDone
<1>5. QED BY <1>1, <1>2, <1>3, <1>4, CondemnedUnchanged DEF Kept

-----------------------------------------------------------------------------
\* A step of the stores that no request takes part in, or that kills them,
\* keeps what the requests rely on.
LEMMA RequestsUndisturbed ==
    ASSUME DInv, IInv', Kept, UNCHANGED <<wanted, opened, after>>,
           \A r \in Downloads : download'[r] \in {download[r], "killed"},
           download' \in [Downloads -> {"idle"} \cup DownloadRunning \cup DownloadDone]
    PROVE  DInv'
<1>1. DTypeOK' /\ OpenedIsWanted' /\ AfterIsFinal'
  BY DEF DInv, DTypeOK, OpenedIsWanted, AfterIsFinal, Kept
<1>2. MissingMeansCondemned'
  BY DEF DInv, DTypeOK, MissingMeansCondemned, OpenedIsWanted, Kept
<1>3. DeletedIsUnreadable' /\ NotFoundMeansDeleted'
  <2>1. \A r \in Downloads : after[r].uploaded => Settled(wanted[r])
    BY DEF DInv, AfterIsFinal, Settled, UploadDone
  <2>2. QED BY <2>1 DEF DInv, DTypeOK, DeletedIsUnreadable, NotFoundMeansDeleted, Kept
<1>4. QED BY <1>1, <1>2, <1>3 DEF DInv

\* The steps of a request (GetContentByID) preserve the invariant.
LEMMA DInvRequest == ASSUME DInv, NEW r \in Downloads, DownloadNext(r) PROVE DInv'
<1> USE DEF DInv, DTypeOK, OpenedIsWanted, AfterIsFinal, MissingMeansCondemned, DeletedIsUnreadable,
            NotFoundMeansDeleted, DownloadStep, DownloadRunning, DownloadDone
<1>1. UNCHANGED vars /\ UNCHANGED wanted
  BY DEF DownloadNext, StartDownload, ReadRow, ReadRowFails, IsOwnerOrAdmin, Get, GetFails, Copy, CopyFails
<1>2. IInv'
  BY <1>1, InvEnv
<1>3. condemned' = condemned
  BY <1>1 DEF vars, condemned
<1>4. UNCHANGED <<objects, rows, inserted, path, upload, delete, target>>
  BY <1>1 DEF vars
<1>5. CASE StartDownload(r)
  <2>1. \A d \in Deletes : delete[d] = "ok" => target[d] \notin rows /\ inserted[target[d]] = "yes"
    BY DEF IInv, DeleteOkMeansGone, ReadIsFinal
  <2>2. QED BY <1>1, <1>2, <1>3, <1>4, <1>5, <2>1 DEF StartDownload
<1>6. CASE ReadRow(r)
  <2>1. wanted[r] \in rows => path[wanted[r]] \in objects \cup condemned /\ inserted[wanted[r]] = "yes"
    BY DEF IInv, ContentSafe, InsertedOnce
  <2>2. upload[wanted[r]] = "ok" /\ wanted[r] \notin rows => path[wanted[r]] \in condemned
    BY DEF IInv, NoLeakAfterOk
  <2>3. path[wanted[r]] \in Paths \cup {NoPath}
    BY DEF IInv, TypeInv, TypeOK
  <2>4. QED BY <1>1, <1>2, <1>3, <1>4, <1>6, <2>1, <2>2, <2>3 DEF ReadRow
<1>7. CASE ReadRowFails(r) \/ IsOwnerOrAdmin(r) \/ Get(r) \/ GetFails(r) \/ Copy(r) \/ CopyFails(r)
  BY <1>1, <1>2, <1>3, <1>4, <1>7 DEF ReadRowFails, IsOwnerOrAdmin, Get, GetFails, Copy, CopyFails
<1>8. QED BY <1>5, <1>6, <1>7 DEF DownloadNext

\* The steps of uploads, Deletes and the processor, and a crash, preserve it.
LEMMA DInvStore == ASSUME DInv, StoreNext \/ CrashAll \/ UNCHANGED dvars PROVE DInv'
<1>1. IInv
  BY DEF DInv
<1>2. IInv' /\ Kept
  BY <1>1, InvUpload, InvDelete, InvProc, InvEnv, KeptByUpload, KeptByDelete, KeptByProc, KeptByEnv
     DEF StoreNext, CrashAll, dvars
<1>3. /\ UNCHANGED <<wanted, opened, after>>
      /\ \A r \in Downloads : download'[r] \in {download[r], "killed"}
      /\ download' \in [Downloads -> {"idle"} \cup DownloadRunning \cup DownloadDone]
  BY DEF StoreNext, CrashAll, dvars, downloadVars, DInv, DTypeOK, DownloadDone
<1>4. QED BY <1>2, <1>3, RequestsUndisturbed

\* The invariant of the composition holds at the start.
LEMMA DInvInit == DInit => DInv
<1> SUFFICES ASSUME DInit PROVE DInv
  OBVIOUS
<1>1. IInv
  BY InvInit DEF DInit
<1>2. QED
  BY <1>1 DEF DInit, DInv, DTypeOK, OpenedIsWanted, AfterIsFinal, MissingMeansCondemned,
     DeletedIsUnreadable, NotFoundMeansDeleted

\* The invariant of the composition is inductive: requests interleaved with
\* uploads, Deletes, the processor and crashes.
THEOREM DInductive == DSpec => []DInv
<1>1. DInv /\ [DNext]_dvars => DInv'
  BY DInvRequest, DInvStore DEF DNext
<1>2. QED BY DInvInit, <1>1, PTL DEF DSpec

\* A reader that has read a row finds the object, or its deletion is on record.
THEOREM MissingIsCondemned == DSpec => []MissingMeansCondemned
BY DInductive, PTL DEF DInv

\* Nobody who asks after a successful Delete gets any of the content.
THEOREM DeletedStaysUnreadable == DSpec => []DeletedIsUnreadable
BY DInductive, PTL DEF DInv

\* A 404 after a successful upload means that the book was deleted.
THEOREM NotFoundIsDeleted == DSpec => []NotFoundMeansDeleted
BY DInductive, PTL DEF DInv

\* A request is served the content of the book in its URL and of no other.
THEOREM ServesOnlyWanted == DSpec => []ServesWantedBook
<1>1. DInv => ServesWantedBook
  <2> SUFFICES ASSUME DInv, NEW r \in Downloads, download[r] \in {"copy", "200", "truncated"},
                      NEW b \in Uploads
               PROVE  path[b] = opened[r] <=> b = wanted[r]
    BY DEF ServesWantedBook
  <2>1. wanted[r] \in Uploads /\ opened[r] = path[wanted[r]] /\ opened[r] \in objects \cup condemned
    BY DEF DInv, DTypeOK, OpenedIsWanted
  <2>2. opened[r] # NoPath
    BY <2>1, PathsAssumption DEF DInv, IInv, TypeInv, TypeOK, condemned
  <2>3. QED BY <2>1, <2>2 DEF DInv, IInv, PathsDistinct
<1>2. QED BY DInductive, <1>1, PTL

\* Every variable of the downloads keeps its type, for any values of the constants.
THEOREM AlwaysDTyped == DSpec => []DTypeOK
BY DInductive, PTL DEF DInv

-----------------------------------------------------------------------------
(* Requests only look on: the composition implements the three stores.     *)

\* Every step of the composition is a step of the stores, or one they do not
\* take part in.
LEMMA DownloadsLookOn == [DNext]_dvars => [Next]_vars
<1> SUFFICES ASSUME [DNext]_dvars PROVE [Next]_vars
  OBVIOUS
<1>1. CASE StoreNext
  BY <1>1 DEF StoreNext, Next
<1>2. CASE CrashAll
  BY <1>2 DEF CrashAll, Next
<1>3. ASSUME NEW r \in Downloads, DownloadNext(r) PROVE UNCHANGED vars
  BY <1>3 DEF DownloadNext, StartDownload, ReadRow, ReadRowFails, IsOwnerOrAdmin, Get, GetFails, Copy,
     CopyFails, DownloadStep
<1>4. CASE UNCHANGED dvars
  BY <1>4 DEF dvars
<1>5. QED BY <1>1, <1>2, <1>3, <1>4 DEF DNext

\* Downloads, whatever their number and wherever they stand, leave the
\* behaviour of uploads, Deletes, the processor and crashes as it was.
THEOREM ImplementsStores == DSpec => Spec
<1>1. DInit => Init
  BY DEF DInit
<1>2. QED BY <1>1, DownloadsLookOn, PTL DEF DSpec, Spec

\* What was proved of the three stores holds with downloads under way: the
\* contract, the final deletions and erasures, the standstill of the processor.
THEOREM StoresStaySafe ==
    DSpec => /\ KeepsContract
             /\ NoResurrection
             /\ StalledForever
             /\ Contract!HidingIsFinal
             /\ Contract!ErasureIsFinal
             /\ LossNeedsPublish
             /\ [](ContentSafe /\ DeleteOkMeansGone /\ NoLeakAfterOk)
BY ImplementsStores, ImplementsContract, ErasedStaysErased, StandstillIsFinal, DeletionsAreFinal,
   ErasuresAreFinal, ContentIsSafe, LossIsPublished, DeleteOkIsFinal, NoLeak, PTL
=============================================================================
