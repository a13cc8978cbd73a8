--------------------------- MODULE BooksContract ---------------------------
(***************************************************************************)
(* What the books service promises about a book, without saying how: the   *)
(* content is stored before the book can be listed, the book is listed at  *)
(* most once - late, perhaps, when the content is condemned already - it   *)
(* leaves the list only when its content is condemned to deletion, and     *)
(* content is erased only when condemned and never returns.                *)
(***************************************************************************)
CONSTANT Books

VARIABLES
    stored,     \* books whose content exists
    visible,    \* books that can be listed and read
    shown,      \* books that could be listed once, whether or not they still can
    condemned   \* books whose content is to be deleted

vars == <<stored, visible, shown, condemned>>

TypeOK == \A S \in {stored, visible, shown, condemned} : S \subseteq Books

Init == stored = {} /\ visible = {} /\ shown = {} /\ condemned = {}

Store(b) ==
    /\ b \notin visible \cup condemned
    /\ stored' = stored \cup {b}
    /\ UNCHANGED <<visible, shown, condemned>>

Show(b) ==
    /\ b \in (stored \cup condemned) \ shown
    /\ visible' = visible \cup {b}
    /\ shown' = shown \cup {b}
    /\ UNCHANGED <<stored, condemned>>

Condemn(b) ==
    /\ b \in stored
    /\ condemned' = condemned \cup {b}
    /\ UNCHANGED <<stored, visible, shown>>

Hide(b) ==
    /\ b \in visible \cap condemned
    /\ visible' = visible \ {b}
    /\ UNCHANGED <<stored, shown, condemned>>

Erase(S) ==
    /\ S \subseteq condemned
    /\ stored' = stored \ S
    /\ UNCHANGED <<visible, shown, condemned>>

Next ==
    \/ \E b \in Books : Store(b) \/ Show(b) \/ Condemn(b) \/ Hide(b)
    \/ \E S \in SUBSET Books : Erase(S)

Spec == Init /\ [][Next]_vars
-----------------------------------------------------------------------------
(* What a caller may conclude from the contract alone.                     *)

\* A listed book has its content, or the content is to be deleted.
ListedHasContent == visible \subseteq stored \cup condemned

\* A book leaves the list only with its content condemned, and one that has
\* been listed and is not is never listed again: a deletion is final.
HidingIsFinal ==
    [][/\ visible \ visible' \subseteq condemned
       /\ visible' \cap shown \subseteq visible]_vars

\* Content goes only when it is condemned, and condemned content that is gone
\* is never stored again.
ErasureIsFinal ==
    [][/\ stored \ stored' \subseteq condemned
       /\ stored' \cap condemned \subseteq stored]_vars
=============================================================================
