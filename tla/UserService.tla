---------------------------- MODULE UserService ----------------------------
(***************************************************************************)
(* The user service on top of Accounts: ChangePassword, Deactivate and     *)
(* Delete, and the password that a login is given.  ChangePassword reads   *)
(* the user's row, compares the old password with what it read, and        *)
(* updates the row by its id alone, in a second statement with a timeout   *)
(* of its own; nothing relates the two statements, so calls overlap.       *)
(*                                                                         *)
(* A password stands for its bcrypt hash.  Nothing in the backend reads    *)
(* users.is_active, and nothing calls the three operations yet: they are   *)
(* the exported interface services.Users.                                  *)
(***************************************************************************)
EXTENDS Accounts

CONSTANTS
    Calls,      \* calls of ChangePassword, Deactivate and Delete
    Passwords

VARIABLES
    password,   \* password[i]: what user i registers with, and then the column
    is_active,  \* is_active[i]: the column; Register inserts TRUE
    given,      \* given[s]: the password Login call s was given
    call,       \* call[c]: where call c stands, or its answer ("done" is the
                \* answer of Deactivate and Delete)
    target,     \* target[c]: userID of a ChangePassword
    old,        \* old[c], new[c]: its oldPassword and newPassword
    new,
    read,       \* read[c]: is_active in the row that ChangePassword read
    answered,   \* answered[c]: the changes that had been answered when c began
    known,      \* known[s]: the same for Login call s
    deactivated,\* the users whose deactivation was answered
    since       \* since[c]: the changes of the row that took effect since c's
                \* did, c's own included

userServiceVars == <<password, is_active, given, call, target, old, new, read, answered, known, deactivated,
                     since>>
uvars == <<vars, userServiceVars>>

CallsTyped ==
    /\ password \in [Registers -> Passwords]
    /\ is_active \in [Registers -> BOOLEAN]
    /\ given \in [Logins -> Passwords]
    /\ call \in [Calls -> {"idle", "read", "update", "ok", "done",
                           "ErrUserNotFound", "ErrPasswordsNotMatch", "error"}]
    /\ target \in [Calls -> Registers \cup {NoUser}]
    /\ old \in [Calls -> Passwords]
    /\ new \in [Calls -> Passwords]
    /\ read \in [Calls -> BOOLEAN]
    /\ answered \in [Calls -> SUBSET Calls]
    /\ known \in [Logins -> SUBSET Calls]
    /\ deactivated \subseteq Registers
    /\ since \in [Calls -> SUBSET Calls]

UTypeOK == TypeOK /\ CallsTyped

UInit ==
    /\ Init
    /\ password \in [Registers -> Passwords]
    /\ is_active = [i \in Registers |-> TRUE]
    /\ \E p \in Passwords :
          /\ given = [s \in Logins |-> p]
          /\ old = [c \in Calls |-> p]
          /\ new = [c \in Calls |-> p]
    /\ call = [c \in Calls |-> "idle"]
    /\ target = [c \in Calls |-> NoUser]
    /\ read = [c \in Calls |-> TRUE]
    /\ answered = [c \in Calls |-> {}]
    /\ known = [s \in Logins |-> {}]
    /\ deactivated = {}
    /\ since = [c \in Calls |-> {}]

Answered == {c \in Calls : call[c] = "ok"}

-----------------------------------------------------------------------------
(* Login, with its password.                                               *)

BeginLogin(s, p) ==
    /\ StartLogin(s)
    /\ given' = [given EXCEPT ![s] = p]
    /\ known' = [known EXCEPT ![s] = Answered]
    /\ UNCHANGED <<password, is_active, call, target, old, new, read, answered, deactivated, since>>

\* Fault: the result of the comparison is dropped.
CheckPasswordDropped(s) == FindUser(s) /\ UNCHANGED userServiceVars

\* The row found by its address, compared with the password given.
CheckPassword(s) ==
    /\ FindUser(s)
    /\ login'[s] = "create" <=> given[s] = password[owner'[s]]
    /\ UNCHANGED userServiceVars

-----------------------------------------------------------------------------
(* ChangePassword.                                                         *)

CallStep(c, from, to) ==
    /\ call[c] = from
    /\ call' = [call EXCEPT ![c] = to]
    /\ UNCHANGED <<given, known>>

\* An id is there to be given once a registration has made it.
Made(i) == register[i] \in {"ok", "error"}

StartChangePassword(c, i, o, n) ==
    /\ Made(i)
    /\ CallStep(c, "idle", "read")
    /\ target' = [target EXCEPT ![c] = i]
    /\ old' = [old EXCEPT ![c] = o]
    /\ new' = [new EXCEPT ![c] = n]
    /\ answered' = [answered EXCEPT ![c] = Answered]
    /\ UNCHANGED <<vars, password, is_active, read, deactivated, since>>

\* Fault: the old password is not compared.
ReadUserUnchecked(c) ==
    /\ target[c] \in users
    /\ CallStep(c, "read", "update")
    /\ read' = [read EXCEPT ![c] = is_active[target[c]]]
    /\ UNCHANGED <<vars, password, is_active, target, old, new, answered, deactivated, since>>

\* GetByID, and the comparison with the row it returned.
ReadUser(c) ==
    /\ target[c] \in users
    /\ CallStep(c, "read", IF old[c] = password[target[c]] THEN "update" ELSE "ErrPasswordsNotMatch")
    /\ read' = [read EXCEPT ![c] = is_active[target[c]]]
    /\ UNCHANGED <<vars, password, is_active, target, old, new, answered, deactivated, since>>

ReadUserFails(c) ==
    /\ \/ CallStep(c, "read", "error")
       \/ target[c] \notin users /\ CallStep(c, "read", "ErrUserNotFound")
    /\ UNCHANGED <<vars, password, is_active, target, old, new, read, answered, deactivated, since>>

\* Fault: the arguments of the statement are swapped.
SetPasswordSwapped(c) ==
    /\ target[c] \in users
    /\ password' = [password EXCEPT ![target[c]] = target[c]]
    /\ since' = [since EXCEPT ![c] = {c}]

\* UPDATE users SET password = ... WHERE id = ...: no other column is written
\* and no other condition is asked.
SetPassword(c) ==
    /\ target[c] \in users
    /\ password' = [password EXCEPT ![target[c]] = new[c]]
    /\ since' = [d \in Calls |->
                    IF d = c THEN {c}
                    ELSE IF since[d] # {} /\ target[d] = target[c] THEN since[d] \cup {c}
                    ELSE since[d]]

\* Fault: the whole row is written back as it was read.
UpdatePasswordWholeRow(c) ==
    /\ CallStep(c, "update", "ok")
    /\ SetPassword(c)
    /\ is_active' = [is_active EXCEPT ![target[c]] = read[c]]
    /\ UNCHANGED <<vars, target, old, new, read, answered, deactivated>>

UpdatePassword(c) ==
    /\ CallStep(c, "update", "ok")
    /\ SetPassword(c)
    /\ UNCHANGED <<vars, is_active, target, old, new, read, answered, deactivated>>

\* The new password cannot be hashed, the row has gone (RETURNING has no row to
\* scan), or the UPDATE fails, or only its answer is lost.
UpdatePasswordFails(c) ==
    /\ CallStep(c, "update", "error")
    /\ SetPassword(c) \/ UNCHANGED <<password, since>>
    /\ UNCHANGED <<vars, is_active, target, old, new, read, answered, deactivated>>

-----------------------------------------------------------------------------
(* Deactivate and Delete: one statement each.                              *)

OneStatement(c, i, to) ==
    /\ Made(i)
    /\ CallStep(c, "idle", to)
    /\ UNCHANGED <<password, target, old, new, read, answered, since>>

SetInactive(i) == i \in users /\ is_active' = [is_active EXCEPT ![i] = FALSE]

Deactivate(c, i) ==
    /\ OneStatement(c, i, "done")
    /\ SetInactive(i)
    /\ deactivated' = deactivated \cup {i}
    /\ UNCHANGED vars

\* No row to scan, or the UPDATE fails, or only its answer is lost.
DeactivateFails(c, i) ==
    /\ OneStatement(c, i, "error")
    /\ SetInactive(i) \/ UNCHANGED is_active
    /\ UNCHANGED <<vars, deactivated>>

\* DELETE without a row is no error.
Delete(c, i) ==
    /\ OneStatement(c, i, "done")
    /\ DeleteUser(i) \/ (i \notin users /\ UNCHANGED vars)
    /\ UNCHANGED <<is_active, deactivated>>

\* A session's row or a book refers to the user, or the DELETE fails, or only
\* its answer is lost.
DeleteFails(c, i) ==
    /\ OneStatement(c, i, "error")
    /\ DeleteUser(i) \/ UNCHANGED vars
    /\ UNCHANGED <<is_active, deactivated>>

-----------------------------------------------------------------------------
UNext ==
    \/ Tick /\ UNCHANGED userServiceVars
    \/ \E i \in Registers : RegisterNext(i) /\ UNCHANGED userServiceVars
    \/ \E r \in Requests : RequestNext(r) /\ UNCHANGED userServiceVars
    \/ \E s \in Logins :
          \/ \E p \in Passwords : BeginLogin(s, p)
          \/ CheckPassword(s)
          \/ FindUserFails(s) /\ UNCHANGED userServiceVars
          \/ CreateSession(s) /\ UNCHANGED userServiceVars
          \/ CreateSessionFails(s) /\ UNCHANGED userServiceVars
    \/ \E c \in Calls :
          \/ ReadUser(c) \/ ReadUserFails(c)
          \/ UpdatePassword(c) \/ UpdatePasswordFails(c)
    \/ \E c \in Calls, i \in Registers :
          \/ \E o, n \in Passwords : StartChangePassword(c, i, o, n)
          \/ Deactivate(c, i) \/ DeactivateFails(c, i)
          \/ Delete(c, i) \/ DeleteFails(c, i)

USpec == UInit /\ [][UNext]_uvars
-----------------------------------------------------------------------------
(* Properties.                                                             *)

\* Call c's password was replaced by a call that had begun before c was
\* answered, or that gave c's password.
Replaced(c) == \E d \in since[c] \ {c} : c \notin answered[d] \/ old[d] = new[c]

\* The password of an answered change stands until a change replaces it that
\* overlapped it or that gave it: who knows an older password only cannot undo
\* the change by a call begun later.
AnsweredChangeStands ==
    \A c \in Calls : call[c] = "ok" => password[target[c]] = new[c] \/ Replaced(c)

\* A login begun after a change was answered is let past the comparison only
\* with the new password, or when the row was changed again.
OldPasswordIsOut ==
    \A s \in Logins : \A c \in known[s] :
        login[s] \in {"create", "ok", "error"} /\ owner[s] = target[c] =>
            given[s] = new[c] \/ since[c] # {c}

\* An answered deactivation is not undone by a ChangePassword that read the row
\* before it.
DeactivationStands == \A i \in deactivated : ~is_active[i]

\* A user that was deleted, or never inserted, does not appear any more: no
\* Register under way and no answer that was lost brings the id back.
DeletedForGood == [][\A i \in Registers : Made(i) /\ i \notin users => i \notin users']_uvars

\* ErrUserNotFound is final: there is no such user, and there will be none.
NotFoundIsFinal ==
    \A c \in Calls : call[c] = "ErrUserNotFound" => target[c] \in Registers /\ target[c] \notin users

\* A ChangePassword is given an id that a registration has made.
TargetMade ==
    \A c \in Calls :
        call[c] \in {"read", "update", "ok", "ErrUserNotFound", "ErrPasswordsNotMatch"} =>
            target[c] \in Registers /\ Made(target[c])
-----------------------------------------------------------------------------
(* Why they hold: an inductive invariant, in parts.                        *)

\* since[c] holds answered or failed changes of c's row, c first.
SinceOwn ==
    \A c \in Calls :
        /\ call[c] = "ok" => since[c] # {}
        /\ since[c] # {} => c \in since[c] /\ call[c] \in {"ok", "error"}
        /\ \A d \in since[c] : call[d] \in {"ok", "error"} /\ target[d] = target[c]
        /\ call[c] \in {"read", "update", "ok"} => target[c] \in Registers

\* What a call or a login saw answered stays answered.
AnsweredStays ==
    /\ \A c \in Calls : answered[c] \subseteq Answered
    /\ \A s \in Logins : known[s] \subseteq Answered

\* A change past its comparison gave the password of every change answered
\* when it began, as far as those have not been replaced.
KnowsPassword ==
    \A c \in Calls : call[c] = "update" =>
        \A d \in answered[c] : target[d] = target[c] => old[c] = new[d] \/ Replaced(d)

UIInv ==
    /\ CallsTyped
    /\ SinceOwn
    /\ AnsweredStays
    /\ KnowsPassword
    /\ AnsweredChangeStands
    /\ OldPasswordIsOut
    /\ DeactivationStands
=============================================================================
