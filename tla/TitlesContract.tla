--------------------------- MODULE TitlesContract ---------------------------
(***************************************************************************)
(* What the title trigger promises, without its loop: in one step a row is *)
(* given its title, the one asked for or that with a number appended.  No  *)
(* committed row of the user has it at that moment, and a number is given  *)
(* only when the title asked for and every smaller number is, or was, the  *)
(* title of a row of the user.  From then on the title stays.              *)
(***************************************************************************)
EXTENDS Naturals, Sequences, FiniteSets

CONSTANTS
    Inserts,    \* INSERT statements
    Users,      \* values of uploaded_by
    Typed       \* the titles users give

VARIABLES
    row,        \* row[i]: the state of statement i and of its row
    owner,      \* owner[i]: its user
    base_title, \* base_title[i]: the title asked for
    title       \* title[i]: the title given

vars == <<row, owner, base_title, title>>

Init ==
    /\ row = [i \in Inserts |-> "idle"]
    /\ owner \in [Inserts -> Users]
    /\ base_title \in [Inserts -> Typed]
    /\ title = base_title

\* The rows the user of statement i had or has.
EverHad(i) == {j \in Inserts : row[j] \in {"committed", "deleted"} /\ owner[j] = owner[i]}

Numbered(i, n) == IF n = 0 THEN base_title[i] ELSE Append(base_title[i], n)

Free(i, t) == \A j \in EverHad(i) : row[j] = "committed" => title[j] # t

Used(i, t) == \E j \in EverHad(i) : title[j] = t

Move(i, from, to) == row[i] = from /\ row' = [row EXCEPT ![i] = to]

\* Statement i is given a free title without skipping one its user never used, so
\* that the number is at most the count of the user's rows.
Name(i) ==
    /\ Move(i, "idle", "inserted")
    /\ \E n \in 0..Cardinality(EverHad(i)) :
          /\ Free(i, Numbered(i, n))
          /\ \A m \in 0..(n - 1) : Used(i, Numbered(i, m))
          /\ title' = [title EXCEPT ![i] = Numbered(i, n)]
    /\ UNCHANGED <<owner, base_title>>

Commit(i) == Move(i, "inserted", "committed") /\ UNCHANGED <<owner, base_title, title>>

\* A statement fails before or after it was given a title; the title is void.
Fail(i) ==
    /\ \E from \in {"idle", "inserted"} : Move(i, from, "failed")
    /\ title' = [title EXCEPT ![i] = base_title[i]]
    /\ UNCHANGED <<owner, base_title>>

Remove(i) == Move(i, "committed", "deleted") /\ UNCHANGED <<owner, base_title, title>>

Next == \E i \in Inserts : Name(i) \/ Commit(i) \/ Fail(i) \/ Remove(i)

Spec == Init /\ [][Next]_vars
=============================================================================
