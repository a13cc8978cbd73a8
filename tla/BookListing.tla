---------------------------- MODULE BookListing ----------------------------
(***************************************************************************)
(* The reads of a user's books, next to the INSERTs and DELETEs of         *)
(* BookTitles: userBooks (GetManyByUserID, with LIMIT and OFFSET) and      *)
(* GetByTitleAndUserID.  Each is one SELECT without ORDER BY, so the order *)
(* of the rows says nothing, and a LIMIT takes any of them.                *)
(*                                                                         *)
(* The rows are fetched while they are read, and the loop that reads them  *)
(* does not ask rows.Err() when it ends: when the timeout of the service   *)
(* fires or the connection breaks in between, the caller gets the books    *)
(* read so far and no error.                                               *)
(***************************************************************************)
EXTENDS BookTitles

CONSTANTS
    Reads,      \* reads of books
    Numbers,    \* limits and offsets that are given
    Nothing     \* a limit or an offset that is not given

ASSUME NumbersAssumption == Numbers \subseteq Nat /\ Nothing \notin Nat

VARIABLES
    read,       \* read[q]: "idle", or the answer of read q: "whole" without
                \* limit and offset, "page" with one, "cut" when it breaks off
                \* (to the caller these are all the same), "book", "ErrInternal"
    asker,      \* asker[q]: the user whose books are read
    books       \* books[q]: the rows answered

readVars == <<read, asker, books>>
bvars == <<vars, readVars>>

ReadsTyped ==
    /\ read \in [Reads -> {"idle", "whole", "page", "cut", "book", "ErrInternal"}]
    /\ asker \in [Reads -> Users]
    /\ books \in [Reads -> SUBSET Inserts]

BTypeOK == TypeOK /\ ReadsTyped

BInit ==
    /\ Init
    /\ read = [q \in Reads |-> "idle"]
    /\ asker \in [Reads -> Users]
    /\ books = [q \in Reads |-> {}]

RowsOf(u) == {j \in committed : owner[j] = u}

\* The offset is given to Limit as well, and replaces the limit.
LimitOf(limit, offset) == IF offset # Nothing THEN offset ELSE limit

\* Fault: SELECT DISTINCT ON (title).
PageOfTitles(u, S, l) ==
    /\ \A i, j \in S : i # j => new_title[i] # new_title[j]
    /\ {new_title[j] : j \in S} = {new_title[j] : j \in RowsOf(u)} \/ Cardinality(S) = l

\* S is an answer of SELECT ... LIMIT l: all the rows there are, or l of them.
PageOf(u, S, l) ==
    /\ S \subseteq RowsOf(u)
    /\ l # Nothing => Cardinality(S) <= l
    /\ S = RowsOf(u) \/ (l # Nothing /\ Cardinality(S) = l)

Answer(q, S, to) ==
    /\ read[q] = "idle"
    /\ read' = [read EXCEPT ![q] = to]
    /\ books' = [books EXCEPT ![q] = S]
    /\ UNCHANGED <<vars, asker>>

GetManyByUserID(q, limit, offset) ==
    \E S \in SUBSET RowsOf(asker[q]) :
        /\ PageOf(asker[q], S, LimitOf(limit, offset))
        /\ Answer(q, S, IF limit = Nothing /\ offset = Nothing THEN "whole" ELSE "page")

\* Some rows of an answer have been read when it breaks off.
GetManyByUserIDCut(q, limit, offset) ==
    \E S \in SUBSET RowsOf(asker[q]) :
        /\ PageOf(asker[q], S, LimitOf(limit, offset))
        /\ \E T \in SUBSET S : T # S /\ Answer(q, T, "cut")

\* QueryRow takes any of the rows with the title.
GetByTitleAndUserID(q) == \E j \in RowsOf(asker[q]) : Answer(q, {j}, "book")

\* Fault: every error is taken for ErrNoRows.
ReadFailsNotFound(q) == Answer(q, {}, "ErrBookNotFound")

\* The query fails, or there is no row with the title: ErrNoRows is not turned
\* into ErrBookNotFound.
ReadFails(q) == Answer(q, {}, "ErrInternal")

BNext ==
    \/ Next /\ UNCHANGED readVars
    \/ \E q \in Reads :
          \/ GetByTitleAndUserID(q) \/ ReadFails(q)
          \/ \E limit, offset \in Numbers \cup {Nothing} :
                GetManyByUserID(q, limit, offset) \/ GetManyByUserIDCut(q, limit, offset)

BSpec == BInit /\ [][BNext]_bvars

FairBSpec == BSpec /\ Fairness
-----------------------------------------------------------------------------
\* Two books that one listing shows with the same title come from INSERTs that
\* overlapped, whatever has been inserted and deleted since.
SameTitleListed ==
    \A q \in Reads : \A i, j \in books[q] :
        i # j /\ new_title[i] = new_title[j] => i \notin before[j] /\ j \notin before[i]

\* A listing shows its asker's books only, and one without limit and offset
\* that does not break off shows, with a book, every book of the user that was
\* committed when that one's INSERT began, unless it has been deleted.
ListingCausal ==
    \A q \in Reads : \A i \in books[q] :
        /\ owner[i] = asker[q]
        /\ read[q] = "whole" =>
              \A j \in before[i] : owner[j] = asker[q] => j \in books[q] \/ row[j] = "deleted"
-----------------------------------------------------------------------------
(* Why they hold: an inductive invariant.                                  *)

\* The rows a read answered were committed, and are committed or deleted for
\* good.
ReadCommitted == \A q \in Reads : \A j \in books[q] : row[j] \in {"committed", "deleted"}

BIInv == ReadsTyped /\ ReadCommitted /\ SameTitleListed /\ ListingCausal

\* No listing shows two books under one title.
NoTwinsListed ==
    \A q \in Reads : \A i, j \in books[q] : i # j => new_title[i] # new_title[j]

\* None does while no two INSERTs of a user overlap.
NoTwinsWhenSerial == []Serial => []NoTwinsListed
=============================================================================
