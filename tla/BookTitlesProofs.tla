-------------------------- MODULE BookTitlesProofs --------------------------
(***************************************************************************)
(* Proofs about BookTitles, for every number of statements, users and      *)
(* titles.                                                                 *)
(***************************************************************************)
EXTENDS BookTitles, FiniteSetTheorems, TLAPS

\* Appending a number to a typed title gives a title.
LEMMA CandidateType ==
    ASSUME TypeOK, NEW i \in Inserts
    PROVE  Append(base_title[i], counter[i]) \in Seq(Nat)
  <1>1. base_title[i] \in Seq(Nat \ {0}) /\ counter[i] \in Nat
    BY TypedAssumption DEF TypeOK
  <1>2. base_title[i] \in Seq(Nat)
    BY <1>1
  <1> QED
    BY <1>1, <1>2

\* The invariant holds at the start.
LEMMA InitIInv == Init => IInv
  <1> SUFFICES ASSUME Init PROVE IInv
    OBVIOUS
  <1>1. new_title \in [Inserts -> Seq(Nat)]
    <2>1. \A i \in Inserts : base_title[i] \in Seq(Nat \ {0})
      BY TypedAssumption DEF Init
    <2>2. \A i \in Inserts : base_title[i] \in Seq(Nat)
      BY <2>1
    <2> QED
      BY <2>2 DEF Init
  <1>2. TypeOK
    BY <1>1 DEF Init, TypeOK
  <1>3. FreshWhenInserted
    BY DEF Init, FreshWhenInserted
  <1>4. TurnsTaken
    BY DEF Init, TurnsTaken, Candidate
  <1> QED
    BY <1>2, <1>3, <1>4 DEF IInv

\* The steps of statement i.
InsertNext(i) ==
    \/ Begin(i) \/ NextCandidate(i) \/ InsertRow(i)
    \/ CommitRow(i) \/ FailInsert(i) \/ DeleteRow(i)

\* Every step of a statement keeps titles fresh: the title is found fresh in
\* the step that inserts, and later commits are not among the rows it counts.
LEMMA InsertFresh ==
    ASSUME IInv, NEW k \in Inserts, InsertNext(k)
    PROVE  TypeOK' /\ FreshWhenInserted'
  <1> USE DEF IInv, Step
  <1>1. CASE Begin(k)
    BY <1>1 DEF Begin, TypeOK, FreshWhenInserted, committed
  <1>2. CASE NextCandidate(k)
    <2>1. TypeOK'
      BY <1>2, CandidateType DEF NextCandidate, TypeOK
    <2>2. \A i \in Inserts : i # k => new_title'[i] = new_title[i]
      BY <1>2 DEF NextCandidate, TypeOK
    <2>3. FreshWhenInserted'
      BY <1>2, <2>2 DEF NextCandidate, TypeOK, FreshWhenInserted, committed
    <2> QED
      BY <2>1, <2>3
  <1>3. CASE InsertRow(k)
    BY <1>3 DEF InsertRow, title_exists, TypeOK, FreshWhenInserted, committed
  <1>4. CASE CommitRow(k)
    BY <1>4 DEF CommitRow, TypeOK, FreshWhenInserted, committed
  <1>5. CASE FailInsert(k)
    BY <1>5 DEF FailInsert, TypeOK, FreshWhenInserted, committed
  <1>6. CASE DeleteRow(k)
    BY <1>6 DEF DeleteRow, TypeOK, FreshWhenInserted, committed
  <1> QED
    BY <1>1, <1>2, <1>3, <1>4, <1>5, <1>6 DEF InsertNext

\* Rows once committed keep their titles, so a candidate that was taken stays
\* the title of a row the user had; a turn is made only when the present
\* candidate is taken, by another row.
LEMMA InsertTurns ==
    ASSUME IInv, NEW k \in Inserts, InsertNext(k)
    PROVE  TurnsTaken'
  <1> USE DEF IInv, Step
  <1>1. /\ UNCHANGED <<owner, base_title>>
        /\ \A j \in Inserts : row[j] \in {"committed", "deleted"} =>
              row'[j] \in {"committed", "deleted"} /\ new_title'[j] = new_title[j]
    BY DEF InsertNext, Begin, NextCandidate, InsertRow, CommitRow, FailInsert, DeleteRow, TypeOK
  <1>2. \A i \in Inserts : EverHad(i) \subseteq EverHad(i)'
    BY <1>1 DEF EverHad
  <1>3. ASSUME NEW i \in Inserts, counter'[i] = counter[i],
               row'[i] \in {"idle", "loop"} =>
                  row[i] \in {"idle", "loop"} /\ new_title'[i] = new_title[i]
        PROVE  /\ counter'[i] >= 1
               /\ row'[i] \in {"idle", "loop"} => new_title'[i] = Candidate(i, counter[i] - 1)'
               /\ \A n \in 0..(counter'[i] - 2) : \E j \in EverHad(i)' : new_title'[j] = Candidate(i, n)'
    <2>1. \A n : Candidate(i, n)' = Candidate(i, n)
      BY <1>1 DEF Candidate
    <2>2. \A j \in EverHad(i) : new_title'[j] = new_title[j]
      BY <1>1 DEF EverHad
    <2>3. counter'[i] >= 1
      BY <1>3 DEF TurnsTaken
    <2>4. row'[i] \in {"idle", "loop"} => new_title'[i] = Candidate(i, counter[i] - 1)'
      BY <1>1, <1>3 DEF TurnsTaken, Candidate
    <2>5. ASSUME NEW n \in 0..(counter'[i] - 2)
          PROVE  \E j \in EverHad(i)' : new_title'[j] = Candidate(i, n)'
      <3>1. PICK j \in EverHad(i) : new_title[j] = Candidate(i, n)
        BY <1>3 DEF TurnsTaken
      <3> QED
        BY <1>1, <1>2, <2>2, <3>1 DEF Candidate
    <2> QED
      BY <2>3, <2>4, <2>5
  <1>4. CASE NextCandidate(k)
    <2>1. \A i \in Inserts : i # k => counter'[i] = counter[i] /\ new_title'[i] = new_title[i]
      BY <1>4 DEF NextCandidate, TypeOK
    <2>2. row' = row /\ row[k] = "loop" /\ counter[k] \in Nat /\ counter[k] >= 1
      BY <1>4 DEF NextCandidate, TypeOK, TurnsTaken
    <2>3. counter'[k] = counter[k] + 1 /\ new_title'[k] = Append(base_title[k], counter[k])
      BY <1>4 DEF NextCandidate, TypeOK
    <2>4. new_title'[k] = Candidate(k, counter[k] - 1)'
      BY <1>1, <2>2, <2>3 DEF Candidate
    <2>5. PICK r \in EverHad(k) : new_title[r] = Candidate(k, counter[k] - 1)
      <3>1. PICK r \in committed : owner[r] = owner[k] /\ new_title[r] = new_title[k]
        BY <1>4 DEF NextCandidate, title_exists
      <3>2. r \in EverHad(k)
        BY <2>2, <3>1 DEF EverHad, committed
      <3>3. new_title[k] = Candidate(k, counter[k] - 1)
        BY <2>2 DEF TurnsTaken
      <3> QED
        BY <3>1, <3>2, <3>3
    <2>6. ASSUME NEW n \in 0..(counter'[k] - 2)
          PROVE  \E j \in EverHad(k)' : new_title'[j] = Candidate(k, n)'
      <3>1. \A j \in EverHad(k) : j \in EverHad(k)' /\ new_title'[j] = new_title[j]
        BY <1>1, <1>2 DEF EverHad
      <3>2. Candidate(k, n)' = Candidate(k, n)
        BY <1>1 DEF Candidate
      <3>3. CASE n = counter[k] - 1
        BY <2>5, <3>1, <3>2, <3>3
      <3>4. CASE n \in 0..(counter[k] - 2)
        <4>1. PICK j \in EverHad(k) : new_title[j] = Candidate(k, n)
          BY <3>4 DEF TurnsTaken
        <4> QED
          BY <3>1, <3>2, <4>1
      <3>5. n = counter[k] - 1 \/ n \in 0..(counter[k] - 2)
        BY <2>2, <2>3
      <3> QED
        BY <3>3, <3>4, <3>5
    <2>7. counter'[k] >= 1
      BY <2>2, <2>3
    <2> QED
      BY <1>3, <2>1, <2>2, <2>4, <2>6, <2>7 DEF TurnsTaken
  <1>5. CASE ~NextCandidate(k)
    <2>1. counter' = counter /\ new_title' = new_title
      BY <1>5 DEF InsertNext, Begin, InsertRow, CommitRow, FailInsert, DeleteRow
    <2>2. \A i \in Inserts : row'[i] \in {"idle", "loop"} => row[i] \in {"idle", "loop"}
      BY <1>5 DEF InsertNext, Begin, InsertRow, CommitRow, FailInsert, DeleteRow, TypeOK
    <2> QED
      BY <1>3, <2>1, <2>2 DEF TurnsTaken
  <1> QED
    BY <1>4, <1>5

\* The invariant behind the theorems below is inductive.
THEOREM Inductive == Spec => []IInv
  <1>1. IInv /\ UNCHANGED vars => IInv'
    BY DEF IInv, vars, TypeOK, FreshWhenInserted, committed, TurnsTaken, EverHad, Candidate
  <1>2. IInv /\ [Next]_vars => IInv'
    BY <1>1, InsertFresh, InsertTurns DEF Next, InsertNext, IInv
  <1> QED
    BY InitIInv, <1>2, PTL DEF Spec

\* However many INSERTs overlap, two rows of a user share a title only when
\* neither was committed before the other's INSERT began.
THEOREM DuplicatesNeedOverlap == Spec => []FreshAmongCommitted
  <1>1. IInv => FreshAmongCommitted
    BY DEF IInv, FreshWhenInserted, FreshAmongCommitted, committed
  <1> QED
    BY Inductive, <1>1, PTL

\* Every state of the statements is well formed.
THEOREM AlwaysTyped == Spec => []TypeOK
  BY Inductive, PTL DEF IInv

\* The candidates of a statement are all different.
LEMMA CandidatesDiffer ==
    ASSUME TypeOK, NEW i \in Inserts, NEW m \in Nat, NEW n \in Nat,
           Candidate(i, m) = Candidate(i, n)
    PROVE  m = n
  <1>1. base_title[i] \in Seq(Nat \ {0})
    BY TypedAssumption DEF TypeOK
  <1>2. base_title[i] \in Seq(Nat)
    BY <1>1
  <1>3. \A l \in Nat : /\ Len(Append(base_title[i], l)) = Len(base_title[i]) + 1
                        /\ Append(base_title[i], l)[Len(base_title[i]) + 1] = l
    BY <1>2
  <1>4. Len(base_title[i]) \in Nat
    BY <1>2
  <1>5. CASE m # 0 /\ n # 0
    <2>1. Append(base_title[i], m) = Append(base_title[i], n)
      BY <1>5 DEF Candidate
    <2> QED
      BY <1>3, <2>1
  <1>6. CASE m = 0 /\ n # 0
    <2>1. base_title[i] = Append(base_title[i], n)
      BY <1>6 DEF Candidate
    <2> QED
      BY <1>3, <1>4, <2>1
  <1>7. CASE n = 0 /\ m # 0
    <2>1. base_title[i] = Append(base_title[i], m)
      BY <1>7 DEF Candidate
    <2> QED
      BY <1>3, <1>4, <2>1
  <1> QED
    BY <1>5, <1>6, <1>7

\* The trigger's loop makes no more turns than its user ever had other rows:
\* each turn was made because of another of them.
THEOREM LoopBounded == Spec => []TurnsBounded
  <1>1. ASSUME IInv
        PROVE  TurnsBounded
    <2>1. SUFFICES ASSUME NEW i \in Inserts, ~(counter[i] <= 1 + Cardinality(EverHad(i)))
                   PROVE  FALSE
      BY DEF TurnsBounded
    <2> DEFINE Turns == 0..(counter[i] - 2)
               f == [n \in Turns |-> CHOOSE j \in EverHad(i) : new_title[j] = Candidate(i, n)]
    <2>2. counter[i] \in Nat
      BY <1>1 DEF IInv, TypeOK
    <2>3. IsFiniteSet(EverHad(i)) /\ Cardinality(EverHad(i)) \in Nat
      <3>1. EverHad(i) \in SUBSET Inserts
        BY DEF EverHad
      <3> QED
        BY <3>1, InsertsAssumption, FS_Subset, FS_CardinalityType
    <2>4. IsFiniteSet(Turns) /\ Cardinality(Turns) = counter[i] - 1
      <3>1. counter[i] >= 2
        BY <2>1, <2>2, <2>3
      <3> QED
        BY <2>2, <3>1, FS_Interval
    <2>5. \A n \in Turns : f[n] \in EverHad(i) /\ new_title[f[n]] = Candidate(i, n)
      BY <1>1 DEF IInv, TurnsTaken
    <2>6. f \in [Turns -> EverHad(i)]
      BY <2>5
    <2>7. Cardinality(EverHad(i)) < Cardinality(Turns)
      BY <2>1, <2>2, <2>3, <2>4
    <2>8. PICK m, n \in Turns : m # n /\ f[m] = f[n]
      <3> HIDE DEF Turns, f
      <3> QED
        BY <2>3, <2>4, <2>6, <2>7, FS_PigeonHole
    <2>9. Candidate(i, m) = Candidate(i, n)
      BY <2>5, <2>8
    <2> QED
      BY <1>1, <2>8, <2>9, CandidatesDiffer DEF IInv
  <1> QED
    BY Inductive, <1>1, PTL

\* With serial INSERTs every step keeps the titles of a user apart: no other row
\* is committed between the last SELECT of a loop and the commit of its row.
LEMMA SerialStep ==
    ASSUME TypeOK, Serial, UniqueTitles, InsertedIsUnique, NEW k \in Inserts, InsertNext(k)
    PROVE  UniqueTitles' /\ InsertedIsUnique'
  <1> USE DEF UniqueTitles, InsertedIsUnique, committed
  <1>1. UNCHANGED owner /\ \A i \in Inserts : i # k => row'[i] = row[i] /\ new_title'[i] = new_title[i]
    BY DEF InsertNext, Begin, NextCandidate, InsertRow, CommitRow, FailInsert, DeleteRow, Step, TypeOK
  <1>2. CASE InsertRow(k)
    <2>1. row'[k] = "inserted" /\ new_title' = new_title
      BY <1>2 DEF InsertRow, Step, TypeOK
    <2>2. \A j \in Inserts : row[j] = "committed" /\ owner[j] = owner[k] => new_title[j] # new_title[k]
      BY <1>2 DEF InsertRow, title_exists
    <2> QED
      BY <1>1, <2>1, <2>2
  <1>3. CASE CommitRow(k)
    <2>1. row[k] = "inserted" /\ row'[k] = "committed" /\ new_title' = new_title
      BY <1>3 DEF CommitRow, Step, TypeOK
    <2>2. \A i \in Inserts : i # k /\ row[i] = "inserted" => owner[i] # owner[k]
      BY <2>1 DEF Serial
    <2> QED
      BY <1>1, <2>1, <2>2
  <1>4. CASE Begin(k) \/ NextCandidate(k) \/ FailInsert(k) \/ DeleteRow(k)
    <2>1. row'[k] \notin {"inserted", "committed"}
      BY <1>4 DEF Begin, NextCandidate, FailInsert, DeleteRow, Step, TypeOK
    <2> QED
      BY <1>1, <2>1
  <1> QED
    BY <1>2, <1>3, <1>4 DEF InsertNext

\* The trigger does keep a user's titles unique, whatever the number of users
\* and rows, as long as the user's INSERTs do not overlap.
THEOREM SerialInsertsAreUnique == Spec => UniqueWhenSerial
  <1>1. Init => UniqueTitles /\ InsertedIsUnique
    BY DEF Init, UniqueTitles, InsertedIsUnique, committed
  <1>2. TypeOK /\ Serial /\ UniqueTitles /\ InsertedIsUnique /\ [Next]_vars =>
            UniqueTitles' /\ InsertedIsUnique'
    <2>1. ASSUME UniqueTitles, InsertedIsUnique, UNCHANGED vars
          PROVE  UniqueTitles' /\ InsertedIsUnique'
      BY <2>1 DEF vars, UniqueTitles, InsertedIsUnique, committed
    <2> QED
      BY <2>1, SerialStep DEF Next, InsertNext
  <1> QED
    BY <1>1, <1>2, AlwaysTyped, PTL DEF Spec, UniqueWhenSerial

\* Seen through the mapping, every statement has a state of its own and the
\* rows and titles of the committed and deleted rows are the ones of the table.
LEMMA MappedRows ==
    ASSUME TypeOK, NEW i \in Inserts, row[i] = "loop"
    PROVE  /\ Contract!EverHad(i) = EverHad(i)
           /\ \A j \in EverHad(i) : Named(j)
  BY DEF Contract!EverHad, EverHad, Named

\* The contract counts with the FiniteSets it extends.
LEMMA SameCardinality == \A S : Contract!Cardinality(S) = Cardinality(S)
  BY DEF Contract!Cardinality, Cardinality

\* The row is inserted under a title that the contract allows: the loop's last
\* SELECT found it free, and its turns account for the smaller numbers.
LEMMA InsertIsName ==
    ASSUME IInv, TurnsBounded, NEW i \in Inserts, InsertRow(i)
    PROVE  Contract!Name(i)
  <1> DEFINE N == counter[i] - 1
             titles == [j \in Inserts |-> IF Named(j) THEN new_title[j] ELSE base_title[j]]
  <1>1. row[i] = "loop" /\ row' = [row EXCEPT ![i] = "inserted"] /\ ~title_exists(i)
    BY DEF InsertRow, Step
  <1>2. UNCHANGED <<owner, base_title, new_title>>
    BY DEF InsertRow
  <1>3. Contract!EverHad(i) = EverHad(i) /\ \A j \in EverHad(i) : Named(j)
    BY <1>1, MappedRows DEF IInv
  <1>4. N \in 0..Cardinality(EverHad(i))
    <2>1. EverHad(i) \in SUBSET Inserts
      BY DEF EverHad
    <2>2. Cardinality(EverHad(i)) \in Nat
      BY <2>1, InsertsAssumption, FS_Subset, FS_CardinalityType
    <2> QED
      BY <2>2 DEF IInv, TypeOK, TurnsTaken, TurnsBounded
  <1>5. \A n : Contract!Numbered(i, n) = Candidate(i, n)
    BY DEF Contract!Numbered, Candidate
  <1>6. new_title[i] = Candidate(i, N)
    BY <1>1 DEF IInv, TurnsTaken
  <1>7. Contract!Free(i, Candidate(i, N))
    BY <1>1, <1>3, <1>6 DEF Contract!Free, title_exists, committed, EverHad
  <1>8. \A m \in 0..(N - 1) : Contract!Used(i, Candidate(i, m))
    <2>1. ASSUME NEW m \in 0..(N - 1)
          PROVE  Contract!Used(i, Candidate(i, m))
      <3>1. m \in 0..(counter[i] - 2)
        BY DEF IInv, TypeOK
      <3>2. PICK j \in EverHad(i) : new_title[j] = Candidate(i, m)
        BY <3>1 DEF IInv, TurnsTaken
      <3>3. j \in Inserts /\ Named(j)
        BY <1>3, <3>2 DEF EverHad
      <3> QED
        BY <1>3, <3>2, <3>3 DEF Contract!Used
    <2> QED
      BY <2>1
  <1>9. titles' = [titles EXCEPT ![i] = Candidate(i, N)]
    BY <1>1, <1>2, <1>6 DEF IInv, TypeOK, Named
  <1>10. Contract!Move(i, "idle", "inserted")
    BY <1>1 DEF Contract!Move, IInv, TypeOK
  <1> HIDE DEF N, titles
  <1>11. \E n \in 0..Contract!Cardinality(Contract!EverHad(i)) :
            /\ Contract!Free(i, Contract!Numbered(i, n))
            /\ \A m \in 0..(n - 1) : Contract!Used(i, Contract!Numbered(i, m))
            /\ titles' = [titles EXCEPT ![i] = Contract!Numbered(i, n)]
    BY <1>3, <1>4, <1>5, <1>7, <1>8, <1>9, SameCardinality
  <1> QED
    BY <1>2, <1>10, <1>11 DEF Contract!Name, titles

\* Every other step of a statement is a step of the contract or a stutter: the
\* loop is not seen, and a row leaves with the title it was given.
LEMMA OtherStepsMap ==
    ASSUME TypeOK, NEW i \in Inserts,
           Begin(i) \/ NextCandidate(i) \/ CommitRow(i) \/ FailInsert(i) \/ DeleteRow(i)
    PROVE  UNCHANGED Contract!vars \/ Contract!Next
  <1> USE DEF Step, TypeOK, Named
  <1>1. CASE Begin(i)
    BY <1>1 DEF Begin, Contract!vars
  <1>2. CASE NextCandidate(i)
    BY <1>2 DEF NextCandidate, Contract!vars
  <1>3. CASE CommitRow(i)
    <2>1. Contract!Commit(i)
      BY <1>3 DEF CommitRow, Contract!Commit, Contract!Move
    <2> QED
      BY <2>1 DEF Contract!Next
  <1>4. CASE FailInsert(i)
    <2>1. Contract!Fail(i)
      BY <1>4 DEF FailInsert, Contract!Fail, Contract!Move
    <2> QED
      BY <2>1 DEF Contract!Next
  <1>5. CASE DeleteRow(i)
    <2>1. Contract!Remove(i)
      BY <1>5 DEF DeleteRow, Contract!Remove, Contract!Move
    <2> QED
      BY <2>1 DEF Contract!Next
  <1> QED
    BY <1>1, <1>2, <1>3, <1>4, <1>5

\* The trigger, its loop interleaved with any number of other statements,
\* implements its contract: titles are given as if in one look at the table.
THEOREM ImplementsContract == Spec => NumbersInOrder
  <1>1. Init => Contract!Init
    BY DEF Init, Contract!Init, Named
  <1>2. IInv /\ TurnsBounded /\ [Next]_vars => [Contract!Next]_(Contract!vars)
    <2>1. ASSUME UNCHANGED vars
          PROVE  UNCHANGED Contract!vars
      BY <2>1 DEF vars, Contract!vars, Named
    <2>2. ASSUME IInv, TurnsBounded, NEW i \in Inserts, InsertNext(i)
          PROVE  UNCHANGED Contract!vars \/ Contract!Next
      BY <2>2, InsertIsName, OtherStepsMap DEF InsertNext, Contract!Next, IInv
    <2> QED
      BY <2>1, <2>2 DEF Next, InsertNext
  <1> QED
    BY <1>1, <1>2, Inductive, LoopBounded, PTL DEF Spec, NumbersInOrder, Contract!Spec
=============================================================================
