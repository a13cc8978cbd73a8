--------------------------- MODULE MCBookListing ---------------------------
(* Small instances of BookListing for TLC: "t" and "t (1)" are typed.      *)
EXTENDS BookListing

MCInserts == 1..3
MCUsers == 1..2
MCTyped == {<<>>, <<1>>}

\* Users and statements are interchangeable: user 1 reads, and statements are
\* sorted by their user and their title.
MCInit ==
    /\ BInit
    /\ \A q \in Reads : asker[q] = 1
    /\ \A i, j \in Inserts : i < j =>
          \/ owner[i] < owner[j]
          \/ owner[i] = owner[j] /\ Len(base_title[i]) <= Len(base_title[j])

MCSpec == MCInit /\ [][BNext]_bvars /\ Fairness
=============================================================================
