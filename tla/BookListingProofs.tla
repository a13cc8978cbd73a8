------------------------- MODULE BookListingProofs -------------------------
(***************************************************************************)
(* Proofs about BookListing, for every number of statements, users, titles *)
(* and reads, and every limit and offset.                                  *)
(***************************************************************************)
EXTENDS BookListing, BookTitlesProofs

\* Reads leave the rows alone: next to them the statements behave as BookTitles
\* says.
THEOREM Implements == BSpec => Spec
  <1>1. BInit => Init
    BY DEF BInit
  <1>2. [BNext]_bvars => [Next]_vars
    BY DEF BNext, bvars, GetByTitleAndUserID, ReadFails, GetManyByUserID, GetManyByUserIDCut, Answer
  <1> QED
    BY <1>1, <1>2, PTL DEF BSpec, Spec

\* What a read answers: rows that are committed now, and all of them when it
\* has no limit, no offset and does not break off.
LEMMA AnswerOfRead ==
    ASSUME NEW q \in Reads, NEW limit, NEW offset,
           \/ GetByTitleAndUserID(q) \/ ReadFails(q)
           \/ GetManyByUserID(q, limit, offset) \/ GetManyByUserIDCut(q, limit, offset)
    PROVE  \E S \in SUBSET RowsOf(asker[q]) :
              \E to \in {"whole", "page", "cut", "book", "ErrInternal"} :
                  Answer(q, S, to) /\ (to = "whole" => S = RowsOf(asker[q]))
  <1>1. CASE GetByTitleAndUserID(q)
    BY <1>1 DEF GetByTitleAndUserID
  <1>2. CASE ReadFails(q)
    BY <1>2 DEF ReadFails
  <1>3. CASE GetManyByUserID(q, limit, offset)
    <2>1. PICK S \in SUBSET RowsOf(asker[q]) :
             /\ PageOf(asker[q], S, LimitOf(limit, offset))
             /\ Answer(q, S, IF limit = Nothing /\ offset = Nothing THEN "whole" ELSE "page")
      BY <1>3 DEF GetManyByUserID
    <2>2. limit = Nothing /\ offset = Nothing => S = RowsOf(asker[q])
      BY <2>1 DEF PageOf, LimitOf
    <2>3. CASE limit = Nothing /\ offset = Nothing
      BY <2>1, <2>2, <2>3
    <2>4. CASE ~(limit = Nothing /\ offset = Nothing)
      BY <2>1, <2>4
    <2> QED
      BY <2>3, <2>4
  <1>4. CASE GetManyByUserIDCut(q, limit, offset)
    BY <1>4 DEF GetManyByUserIDCut
  <1> QED
    BY <1>1, <1>2, <1>3, <1>4

\* A read answers with rows of its asker that are committed, so fresh titles
\* and the order of the INSERTs are those of the rows.
LEMMA ReadBIInv ==
    ASSUME IInv, BIInv, NEW q \in Reads, NEW S \in SUBSET RowsOf(asker[q]),
           NEW to \in {"whole", "page", "cut", "book", "ErrInternal"},
           Answer(q, S, to), to = "whole" => S = RowsOf(asker[q])
    PROVE  BIInv'
  <1> USE DEF BIInv, Answer
  <1>0. UNCHANGED <<row, owner, base_title, new_title, counter, before, asker>>
    BY DEF vars
  <1>1. \A j \in S : j \in Inserts /\ row[j] = "committed" /\ owner[j] = asker[q]
    BY DEF RowsOf, committed
  <1>2. ReadsTyped'
    BY <1>0, <1>1 DEF ReadsTyped
  <1>3. \A p \in Reads : p # q => books'[p] = books[p] /\ read'[p] = read[p]
    BY DEF ReadsTyped
  <1>4. books'[q] = S /\ read'[q] = to
    BY DEF ReadsTyped
  <1>5. ReadCommitted'
    BY <1>0, <1>1, <1>3, <1>4 DEF ReadCommitted
  <1>6. SameTitleListed'
    <2>1. ASSUME NEW i \in S, NEW j \in S, new_title[i] = new_title[j]
          PROVE  j \notin before[i]
      BY <1>1, <2>1 DEF IInv, FreshWhenInserted, committed
    <2> QED
      BY <1>0, <1>3, <1>4, <2>1 DEF SameTitleListed
  <1>7. ListingCausal'
    <2>1. ASSUME to = "whole", NEW i \in S, NEW j \in before[i], owner[j] = asker[q]
          PROVE  j \in S \/ row[j] = "deleted"
      BY <1>1, <2>1 DEF IInv, TypeOK, FreshWhenInserted, RowsOf, committed
    <2> QED
      BY <1>0, <1>1, <1>3, <1>4, <2>1 DEF ListingCausal
  <1> QED
    BY <1>2, <1>5, <1>6, <1>7

\* Statements change neither the title of a committed row nor what was there
\* before it, and a committed row is not uncommitted.
LEMMA StatementBIInv ==
    ASSUME IInv, BIInv, NEW k \in Inserts, InsertNext(k), UNCHANGED readVars
    PROVE  BIInv'
  <1> USE DEF BIInv, readVars
  <1>1. /\ UNCHANGED owner
        /\ \A j \in Inserts : row[j] \in {"committed", "deleted"} =>
              /\ row'[j] \in {"committed", "deleted"}
              /\ new_title'[j] = new_title[j]
              /\ before'[j] = before[j]
              /\ row[j] = "deleted" => row'[j] = "deleted"
    BY DEF IInv, InsertNext, Begin, NextCandidate, InsertRow, CommitRow, FailInsert, DeleteRow, Step, TypeOK
  <1>2. \A q \in Reads : \A j \in books[q] : j \in Inserts /\ row[j] \in {"committed", "deleted"}
    BY DEF ReadsTyped, ReadCommitted
  <1>3. ReadsTyped'
    BY DEF ReadsTyped
  <1>4. ReadCommitted'
    BY <1>1, <1>2 DEF ReadCommitted
  <1>5. SameTitleListed'
    BY <1>1, <1>2 DEF SameTitleListed
  <1>6. ListingCausal'
    <2>1. ASSUME NEW i \in Inserts, NEW j \in before[i], row[j] = "deleted"
          PROVE  row'[j] = "deleted"
      BY <1>1, <2>1 DEF IInv, TypeOK
    <2> QED
      BY <1>1, <1>2, <2>1 DEF ListingCausal
  <1> QED
    BY <1>3, <1>4, <1>5, <1>6

\* The invariant behind the theorems below is inductive.
THEOREM BInductive == BSpec => []BIInv
  <1>1. BInit => BIInv
    BY DEF BInit, BIInv, ReadsTyped, ReadCommitted, SameTitleListed, ListingCausal
  <1>2. ASSUME IInv, BIInv, [BNext]_bvars
        PROVE  BIInv'
    <2>1. CASE UNCHANGED bvars
      BY <1>2, <2>1 DEF bvars, vars, readVars, BIInv, ReadsTyped, ReadCommitted, SameTitleListed, ListingCausal
    <2>2. CASE Next /\ UNCHANGED readVars
      <3>1. PICK k \in Inserts : InsertNext(k)
        BY <2>2 DEF Next, InsertNext
      <3> QED
        BY <1>2, <2>2, <3>1, StatementBIInv
    <2>3. ASSUME NEW q \in Reads, NEW limit, NEW offset,
                 \/ GetByTitleAndUserID(q) \/ ReadFails(q)
                 \/ GetManyByUserID(q, limit, offset) \/ GetManyByUserIDCut(q, limit, offset)
          PROVE  BIInv'
      BY <1>2, <2>3, AnswerOfRead, ReadBIInv
    <2> QED
      BY <1>2, <2>1, <2>2, <2>3 DEF BNext
  <1> QED
    BY Implements, Inductive, <1>1, <1>2, PTL DEF BSpec

\* Every state of the statements and of the reads is well formed.
THEOREM AlwaysBTyped == BSpec => []BTypeOK
  BY Implements, AlwaysTyped, BInductive, PTL DEF BIInv, BTypeOK

\* Books listed together under one title come from INSERTs that overlapped.
THEOREM ListedTwinsOverlapped == BSpec => []SameTitleListed
  BY BInductive, PTL DEF BIInv

\* A whole listing leaves out no book older than one it shows.
THEOREM ListingsCausal == BSpec => []ListingCausal
  BY BInductive, PTL DEF BIInv

\* The guarantees of the trigger hold next to the reads.
THEOREM TitlesStaySafe ==
    BSpec => [](FreshAmongCommitted /\ TurnsBounded) /\ UniqueWhenSerial /\ NumbersInOrder
  BY Implements, DuplicatesNeedOverlap, LoopBounded, SerialInsertsAreUnique, ImplementsContract, PTL

\* Reads and statements show no two titles alike while the committed rows of
\* each user have different ones.
LEMMA NoTwinsStep ==
    ASSUME IInv, BIInv, UniqueTitles, NoTwinsListed, [BNext]_bvars
    PROVE  NoTwinsListed'
  <1> USE DEF NoTwinsListed
  <1>1. \A q \in Reads : \A j \in books[q] : j \in Inserts /\ row[j] \in {"committed", "deleted"}
    BY DEF BIInv, ReadsTyped, ReadCommitted
  <1>2. CASE UNCHANGED bvars
    BY <1>2 DEF bvars, vars, readVars
  <1>3. CASE Next /\ UNCHANGED readVars
    <2>1. PICK k \in Inserts : InsertNext(k)
      BY <1>3 DEF Next, InsertNext
    <2>2. \A j \in Inserts : row[j] \in {"committed", "deleted"} => new_title'[j] = new_title[j]
      BY <2>1 DEF IInv, InsertNext, Begin, NextCandidate, InsertRow, CommitRow, FailInsert, DeleteRow,
                  Step, TypeOK
    <2> QED
      BY <1>1, <1>3, <2>2 DEF readVars
  <1>4. ASSUME NEW q \in Reads, NEW limit, NEW offset,
               \/ GetByTitleAndUserID(q) \/ ReadFails(q)
               \/ GetManyByUserID(q, limit, offset) \/ GetManyByUserIDCut(q, limit, offset)
        PROVE  NoTwinsListed'
    <2>1. PICK S \in SUBSET RowsOf(asker[q]), to \in {"whole", "page", "cut", "book", "ErrInternal"} :
             Answer(q, S, to)
      BY <1>4, AnswerOfRead
    <2>2. \A i, j \in S : i # j => new_title[i] # new_title[j]
      BY DEF UniqueTitles, RowsOf
    <2>3. new_title' = new_title /\ books' = [books EXCEPT ![q] = S]
      BY <2>1 DEF Answer, vars
    <2> QED
      BY <2>2, <2>3 DEF BIInv, ReadsTyped
  <1> QED
    BY <1>2, <1>3, <1>4 DEF BNext

\* A user whose INSERTs do not overlap never sees two books of one title, in
\* whole listings, pages or broken-off ones.
THEOREM SerialListingsHaveNoTwins == BSpec => NoTwinsWhenSerial
  <1>1. BInit => NoTwinsListed
    BY DEF BInit, NoTwinsListed
  <1> QED
    BY <1>1, NoTwinsStep, Implements, Inductive, BInductive, SerialInsertsAreUnique, PTL
       DEF BSpec, UniqueWhenSerial, NoTwinsWhenSerial
=============================================================================
