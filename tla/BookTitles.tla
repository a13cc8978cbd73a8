----------------------------- MODULE BookTitles -----------------------------
(***************************************************************************)
(* The trigger that numbers book titles (migrations/20250616141639...sql). *)
(* Every INSERT into books runs it: while a committed row of the same user *)
(* has the candidate title, the next candidate is tried, "t", "t (1)",     *)
(* "t (2)", ...  Each SELECT of the loop sees the rows committed by then   *)
(* (READ COMMITTED), none sees the rows of other open transactions, and    *)
(* the table has no unique constraint.                                     *)
(*                                                                         *)
(* A title is the sequence of the numbers appended to a common root: <<>>  *)
(* is "t", <<1>> is "t (1)", <<1, 2>> is "t (1) (2)".                      *)
(***************************************************************************)
EXTENDS Naturals, Sequences, FiniteSets

CONSTANTS
    Inserts,    \* INSERT statements, each in a transaction of its own
    Users,      \* values of uploaded_by
    Typed       \* the titles users give

ASSUME InsertsAssumption == IsFiniteSet(Inserts)
ASSUME TypedAssumption == Typed \subseteq Seq(Nat \ {0})

VARIABLES
    row,        \* row[i]: the state of statement i and of its row
    owner,      \* owner[i]: uploaded_by
    base_title, \* base_title[i]: the title given
    new_title,  \* new_title[i]: the candidate, and then the title of the row
    counter,    \* counter[i]: the number of the next candidate
    before      \* before[i]: the rows committed when i began

vars == <<row, owner, base_title, new_title, counter, before>>

TypeOK ==
    /\ row \in [Inserts -> {"idle", "loop", "inserted", "committed", "deleted", "failed"}]
    /\ owner \in [Inserts -> Users]
    /\ base_title \in [Inserts -> Typed]
    /\ new_title \in [Inserts -> Seq(Nat)]
    /\ counter \in [Inserts -> Nat]
    /\ before \in [Inserts -> SUBSET Inserts]

Init ==
    /\ row = [i \in Inserts |-> "idle"]
    /\ owner \in [Inserts -> Users]
    /\ base_title \in [Inserts -> Typed]
    /\ new_title = base_title
    /\ counter = [i \in Inserts |-> 1]
    /\ before = [i \in Inserts |-> {}]

committed == {i \in Inserts : row[i] = "committed"}

Step(i, from, to) == row[i] = from /\ row' = [row EXCEPT ![i] = to]

Begin(i) ==
    /\ Step(i, "idle", "loop")
    /\ before' = [before EXCEPT ![i] = committed]
    /\ UNCHANGED <<owner, base_title, new_title, counter>>

\* Fault: the SELECT does not ask for the user's own rows.
title_existsAnywhere(i) == \E j \in committed : new_title[j] = new_title[i]

title_exists(i) == \E j \in committed : owner[j] = owner[i] /\ new_title[j] = new_title[i]

\* Fault: IF instead of WHILE.
NextCandidateOnce(i) ==
    /\ title_exists(i)
    /\ Step(i, "loop", "inserted")
    /\ new_title' = [new_title EXCEPT ![i] = Append(base_title[i], counter[i])]
    /\ UNCHANGED <<owner, base_title, counter, before>>

\* Fault: the counter is not advanced.
NextCandidateSame(i) ==
    /\ row[i] = "loop"
    /\ title_exists(i)
    /\ new_title' = [new_title EXCEPT ![i] = Append(base_title[i], counter[i])]
    /\ UNCHANGED <<row, owner, base_title, counter, before>>

\* Fault: the candidate is written over the base title.
NextCandidateOverBase(i) ==
    /\ row[i] = "loop"
    /\ title_exists(i)
    /\ base_title' = [base_title EXCEPT ![i] = Append(@, counter[i])]
    /\ new_title' = [new_title EXCEPT ![i] = base_title'[i]]
    /\ counter' = [counter EXCEPT ![i] = @ + 1]
    /\ UNCHANGED <<row, owner, before>>

\* One turn of the WHILE loop: the candidate is taken, try the next number.
NextCandidate(i) ==
    /\ row[i] = "loop"
    /\ title_exists(i)
    /\ new_title' = [new_title EXCEPT ![i] = Append(base_title[i], counter[i])]
    /\ counter' = [counter EXCEPT ![i] = @ + 1]
    /\ UNCHANGED <<row, owner, base_title, before>>

\* No committed row has the candidate: NEW.title is set, the row inserted.
InsertRow(i) ==
    /\ ~title_exists(i)
    /\ Step(i, "loop", "inserted")
    /\ UNCHANGED <<owner, base_title, new_title, counter, before>>

CommitRow(i) ==
    /\ Step(i, "inserted", "committed")
    /\ UNCHANGED <<owner, base_title, new_title, counter, before>>

FailInsert(i) ==
    /\ \E from \in {"loop", "inserted"} : Step(i, from, "failed")
    /\ UNCHANGED <<owner, base_title, new_title, counter, before>>

DeleteRow(i) ==
    /\ Step(i, "committed", "deleted")
    /\ UNCHANGED <<owner, base_title, new_title, counter, before>>

Next ==
    \E i \in Inserts :
        \/ Begin(i) \/ NextCandidate(i) \/ InsertRow(i)
        \/ CommitRow(i) \/ FailInsert(i) \/ DeleteRow(i)

Spec == Init /\ [][Next]_vars

\* The database runs the trigger function to its end.
Fairness == \A i \in Inserts : WF_vars(NextCandidate(i) \/ InsertRow(i))

FairSpec == Spec /\ Fairness
-----------------------------------------------------------------------------
\* A row never has the title of a row of the same user that was committed
\* before its INSERT began and is still there: duplicates need two INSERTs
\* that overlap.
FreshAmongCommitted ==
    \A i \in committed :
        \A j \in before[i] \cap committed :
            owner[j] = owner[i] => new_title[j] # new_title[i]

\* The other rows the user of statement i ever had.
EverHad(i) == {j \in Inserts : row[j] \in {"committed", "deleted"} /\ owner[j] = owner[i] /\ j # i}

\* The loop makes at most one turn per row its user ever had, however many
\* statements commit and however many rows disappear while it runs.
TurnsBounded == \A i \in Inserts : counter[i] <= 1 + Cardinality(EverHad(i))

\* The trigger always comes to an end.
TriggerEnds == \A i \in Inserts : row[i] = "loop" ~> row[i] # "loop"

\* No two rows of a user have the same title: what the names of the function
\* (handle_book_unique_title) and of its trigger (unique_name_trigger_insert) say.
UniqueTitles ==
    \A i, j \in committed : i # j /\ owner[i] = owner[j] => new_title[i] # new_title[j]
-----------------------------------------------------------------------------
(* Why new titles are fresh and the loop ends: an inductive invariant, in  *)
(* parts.                                                                  *)

\* A row once committed is committed or deleted for good, and a row that was
\* inserted differs from those committed before that are still there.
FreshWhenInserted ==
    \A i \in Inserts :
        /\ \A j \in before[i] : row[j] \in {"committed", "deleted"}
        /\ row[i] \in {"inserted", "committed"} =>
              \A j \in before[i] \cap committed :
                  owner[j] = owner[i] => new_title[j] # new_title[i]

\* The title tried when n numbers have been used.
Candidate(i, n) == IF n = 0 THEN base_title[i] ELSE Append(base_title[i], n)

\* Every candidate tried before the present one was the title of a row of the
\* user, each of another row.
TurnsTaken ==
    \A i \in Inserts :
        /\ counter[i] >= 1
        /\ row[i] \in {"idle", "loop"} => new_title[i] = Candidate(i, counter[i] - 1)
        /\ \A n \in 0..(counter[i] - 2) : \E j \in EverHad(i) : new_title[j] = Candidate(i, n)

IInv == TypeOK /\ FreshWhenInserted /\ TurnsTaken

-----------------------------------------------------------------------------
(* When the promise of the trigger's name is kept.                         *)

\* The INSERTs of a user run one after the other.
Serial ==
    \A i, j \in Inserts :
        owner[i] = owner[j] /\ row[i] \in {"loop", "inserted"} /\ row[j] \in {"loop", "inserted"} => i = j

\* Titles are unique as long as no two INSERTs of a user overlap; other users,
\* failures and deletions do not matter.
UniqueWhenSerial == []Serial => []UniqueTitles

\* A row that is not committed yet has a title of its own, too.
InsertedIsUnique ==
    \A i, j \in Inserts :
        row[i] = "inserted" /\ row[j] = "committed" /\ owner[i] = owner[j] => new_title[i] # new_title[j]
-----------------------------------------------------------------------------
(* The abstract specification and the mapping onto it: a row has its title *)
(* once the loop has ended, and none any more when its statement failed.   *)

Named(i) == row[i] \in {"inserted", "committed", "deleted"}

Contract == INSTANCE TitlesContract WITH
    row   <- [i \in Inserts |-> IF row[i] = "loop" THEN "idle" ELSE row[i]],
    title <- [i \in Inserts |-> IF Named(i) THEN new_title[i] ELSE base_title[i]]

\* The loop, whose SELECTs are interleaved with commits and deletions of other
\* transactions, does what one look at the table could have done: a title free
\* when the row was inserted, and no number skipped that was never used.
NumbersInOrder == Contract!Spec
=============================================================================
