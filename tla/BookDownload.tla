---------------------------- MODULE BookDownload ----------------------------
(***************************************************************************)
(* Reading a book's content while it is being uploaded, deleted and        *)
(* erased: GET /api/v1/books/{id} (handlers/books.go, GetContentByID)      *)
(* composed with the three stores of BookStore.  The handler reads the     *)
(* row, checks the owner, opens the object and copies it to the client;    *)
(* between any two of these the book may be deleted and its object erased, *)
(* and the process may die.                                                *)
(***************************************************************************)
EXTENDS BookStore

CONSTANTS
    Downloads   \* GetContentByID requests

VARIABLES
    download,   \* download[r]: where request r stands, or how it was answered
    wanted,     \* wanted[r]: the book id in the URL
    opened,     \* opened[r]: the StoragePath read from the row
    after       \* after[r]: what had already happened to the book when r began

downloadVars == <<download, wanted, opened, after>>

DownloadRunning == {"row", "access", "open", "copy"}
\* "missing" is the 500 caused by an object that does not exist; "truncated"
\* is a 200 whose body broke off and was continued with the error message.
DownloadDone == {"200", "403", "404", "500", "missing", "truncated", "killed"}

DTypeOK ==
    /\ download \in [Downloads -> {"idle"} \cup DownloadRunning \cup DownloadDone]
    /\ wanted \in [Downloads -> Uploads]
    /\ opened \in [Downloads -> Paths \cup {NoPath}]
    /\ after \in [Downloads -> [uploaded : BOOLEAN, deleted : BOOLEAN]]

DInit ==
    /\ Init
    /\ download = [r \in Downloads |-> "idle"]
    /\ wanted \in [Downloads -> Uploads]
    /\ opened = [r \in Downloads |-> NoPath]
    /\ after = [r \in Downloads |-> [uploaded |-> FALSE, deleted |-> FALSE]]

DownloadStep(r, from, to) ==
    /\ alive
    /\ download[r] = from
    /\ download' = [download EXCEPT ![r] = to]
    /\ UNCHANGED <<vars, wanted>>

StartDownload(r) ==
    /\ DownloadStep(r, "idle", "row")
    /\ after' = [after EXCEPT ![r] =
                    [uploaded |-> upload[wanted[r]] = "ok",
                     deleted |-> \E d \in Deletes : delete[d] = "ok" /\ target[d] = wanted[r]]]
    /\ UNCHANGED opened

\* The service's GetByID tells a missing row from a failure (Delete does not).
ReadRow(r) ==
    /\ IF wanted[r] \in rows
          THEN /\ DownloadStep(r, "row", "access")
               /\ opened' = [opened EXCEPT ![r] = path[wanted[r]]]
          ELSE DownloadStep(r, "row", "404") /\ UNCHANGED opened
    /\ UNCHANGED after

ReadRowFails(r) == DownloadStep(r, "row", "500") /\ UNCHANGED <<opened, after>>

\* The requester owns the book or is an administrator, or is turned away.
IsOwnerOrAdmin(r) ==
    /\ \E to \in {"open", "403"} : DownloadStep(r, "access", to)
    /\ UNCHANGED <<opened, after>>

\* Fault: the cause reported by the store becomes the answer.
GetReportsCause(r) ==
    /\ DownloadStep(r, "open", IF opened[r] \in objects THEN "copy" ELSE "NoSuchKey")
    /\ UNCHANGED <<opened, after>>

\* storage.Get.  Its test for a missing object never succeeds, so a missing
\* object is answered as an internal error and never as a 404.
Get(r) ==
    /\ DownloadStep(r, "open", IF opened[r] \in objects THEN "copy" ELSE "missing")
    /\ UNCHANGED <<opened, after>>

GetFails(r) == DownloadStep(r, "open", "500") /\ UNCHANGED <<opened, after>>

\* An opened object is read to its end even when it is erased meanwhile.
Copy(r) == DownloadStep(r, "copy", "200") /\ UNCHANGED <<opened, after>>

\* The copy fails: before its first byte the status can still be 500; later
\* the error message is appended to the body of a 200.
CopyFails(r) ==
    /\ \E to \in {"500", "truncated"} : DownloadStep(r, "copy", to)
    /\ UNCHANGED <<opened, after>>

DownloadNext(r) ==
    \/ StartDownload(r) \/ ReadRow(r) \/ ReadRowFails(r) \/ IsOwnerOrAdmin(r)
    \/ Get(r) \/ GetFails(r) \/ Copy(r) \/ CopyFails(r)

\* The process dies with the requests it is serving.
CrashAll ==
    /\ Crash
    /\ download' = [r \in Downloads |->
                        IF download[r] \in DownloadRunning THEN "killed" ELSE download[r]]
    /\ UNCHANGED <<wanted, opened, after>>

\* The rest of the backend takes a step that no request takes part in.
StoreNext ==
    /\ \/ \E b \in Uploads : UploadNext(b)
       \/ \E d \in Deletes : DeleteNext(d)
       \/ ProcNext
       \/ Restart
    /\ UNCHANGED downloadVars

DNext == StoreNext \/ CrashAll \/ \E r \in Downloads : DownloadNext(r)

dvars == <<vars, downloadVars>>

DSpec == DInit /\ [][DNext]_dvars
-----------------------------------------------------------------------------
(* Properties.                                                             *)

\* A reader misses the object behind a row it has read only when the book's
\* deletion event is stored: an upload or another book's deletion never opens
\* that gap.
MissingMeansCondemned ==
    \A r \in Downloads : download[r] = "missing" => opened[r] \in condemned

\* A request that begins after a Delete of the book has answered nil gets
\* neither the content nor part of it.
DeletedIsUnreadable ==
    \A r \in Downloads :
        after[r].deleted => download[r] \notin {"access", "open", "copy", "200", "truncated", "missing"}

\* A request that begins after the upload has succeeded is answered 404 only
\* when the book has been deleted.
NotFoundMeansDeleted ==
    \A r \in Downloads :
        after[r].uploaded /\ download[r] = "404" => path[wanted[r]] \in condemned

\* The object a request opens is the one of the book it asked for, and of no
\* other book.
ServesWantedBook ==
    \A r \in Downloads :
        download[r] \in {"copy", "200", "truncated"} =>
            \A b \in Uploads : path[b] = opened[r] <=> b = wanted[r]

-----------------------------------------------------------------------------
(* Why they hold.                                                          *)

\* A path read from a row is the path of that book, whose content was stored.
OpenedIsWanted ==
    \A r \in Downloads :
        download[r] \in {"access", "open", "copy", "200", "truncated", "missing"} =>
            /\ opened[r] = path[wanted[r]]
            /\ opened[r] \in objects \cup condemned
            /\ inserted[wanted[r]] = "yes"

\* What had happened when the request began has not been undone.
AfterIsFinal ==
    \A r \in Downloads :
        /\ after[r].uploaded => upload[wanted[r]] = "ok"
        /\ after[r].deleted => wanted[r] \notin rows /\ inserted[wanted[r]] = "yes"

DInv ==
    /\ IInv
    /\ DTypeOK
    /\ OpenedIsWanted
    /\ AfterIsFinal
    /\ MissingMeansCondemned
    /\ DeletedIsUnreadable
    /\ NotFoundMeansDeleted
=============================================================================
