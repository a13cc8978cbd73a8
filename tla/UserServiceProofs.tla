------------------------- MODULE UserServiceProofs -------------------------
(***************************************************************************)
(* Proofs about UserService, for every number of users, logins, requests,  *)
(* calls and passwords.  With the user service on top the accounts still   *)
(* behave as Accounts says, so what is proved there carries over.          *)
(***************************************************************************)
EXTENDS UserService, AccountsProofs

\* What a step of the user service is to the accounts: a step of theirs, or
\* nothing.
LEMMA StepRefines == ASSUME [UNext]_uvars PROVE [Next]_vars
  <1>1. CASE UNCHANGED uvars
    BY <1>1 DEF uvars
  <1>2. CASE \/ Tick
             \/ \E i \in Registers : RegisterNext(i)
             \/ \E r \in Requests : RequestNext(r)
    BY <1>2 DEF Next
  <1>3. ASSUME NEW s \in Logins,
               \/ \E p \in Passwords : BeginLogin(s, p)
               \/ CheckPassword(s) \/ FindUserFails(s) \/ CreateSession(s) \/ CreateSessionFails(s)
        PROVE  Next
    <2>1. LoginNext(s)
      BY <1>3 DEF BeginLogin, CheckPassword, LoginNext
    <2> QED
      BY <2>1 DEF Next
  <1>4. ASSUME NEW c \in Calls,
               ReadUser(c) \/ ReadUserFails(c) \/ UpdatePassword(c) \/ UpdatePasswordFails(c)
        PROVE  UNCHANGED vars
    BY <1>4 DEF ReadUser, ReadUserFails, UpdatePassword, UpdatePasswordFails
  <1>5. ASSUME NEW c \in Calls, NEW i \in Registers,
               \/ \E o, n \in Passwords : StartChangePassword(c, i, o, n)
               \/ Deactivate(c, i) \/ DeactivateFails(c, i)
        PROVE  UNCHANGED vars
    BY <1>5 DEF StartChangePassword, Deactivate, DeactivateFails
  <1>6. ASSUME NEW c \in Calls, NEW i \in Registers, Delete(c, i) \/ DeleteFails(c, i)
        PROVE  [Next]_vars
    BY <1>6 DEF Delete, DeleteFails, Next
  <1> QED
    BY <1>1, <1>2, <1>3, <1>4, <1>5, <1>6 DEF UNext

\* The user service implements the accounts: passwords decide which logins
\* find a user and calls which users are deleted, and nothing else.
THEOREM Implements == USpec => Spec
  <1>1. UInit => Init
    BY DEF UInit
  <1> QED
    BY <1>1, StepRefines, PTL DEF USpec, Spec

\* The invariant holds at the start.
LEMMA InitUIInv == UInit => UIInv
  BY DEF UInit, UIInv, CallsTyped, SinceOwn, AnsweredStays, KnowsPassword, AnsweredChangeStands,
         OldPasswordIsOut, DeactivationStands

\* A step of the accounts that is not a login's leaves the invariant alone.
LEMMA AccountsUIInv ==
    ASSUME UIInv, UNCHANGED userServiceVars, UNCHANGED <<login, owner>>
    PROVE  UIInv'
  BY DEF UIInv, userServiceVars, CallsTyped, SinceOwn, AnsweredStays, Answered, KnowsPassword, Replaced,
         AnsweredChangeStands, OldPasswordIsOut, DeactivationStands

\* A login is compared with the password of the row it found, and that is what
\* the last change left there.
LEMMA LoginUIInv ==
    ASSUME TypeOK, UIInv, NEW s \in Logins,
           \/ \E p \in Passwords : BeginLogin(s, p)
           \/ CheckPassword(s)
           \/ /\ FindUserFails(s) \/ CreateSession(s) \/ CreateSessionFails(s)
              /\ UNCHANGED userServiceVars
    PROVE  UIInv'
  <1> USE DEF UIInv
  <1>1. /\ UNCHANGED <<password, is_active, call, target, old, new, read, answered, deactivated, since>>
        /\ CallsTyped'
    BY DEF BeginLogin, CheckPassword, userServiceVars, CallsTyped, Answered
  <1>2. SinceOwn' /\ KnowsPassword' /\ AnsweredChangeStands' /\ DeactivationStands'
    BY <1>1 DEF SinceOwn, KnowsPassword, Replaced, AnsweredChangeStands, DeactivationStands
  <1>3. AnsweredStays'
    BY <1>1 DEF AnsweredStays, Answered, BeginLogin, CheckPassword, userServiceVars, CallsTyped
  <1>4. OldPasswordIsOut'
    <2>1. \A t \in Logins : t # s => /\ login'[t] = login[t] /\ owner'[t] = owner[t]
                                     /\ known'[t] = known[t] /\ given'[t] = given[t]
      BY DEF TypeOK, CallsTyped, BeginLogin, StartLogin, CheckPassword, FindUser, FindUserFails,
             CreateSession, CreateSessionFails, LoginStep, userServiceVars
    <2>2. ASSUME NEW c \in known'[s], login'[s] \in {"create", "ok", "error"}, owner'[s] = target'[c]
          PROVE  given'[s] = new'[c] \/ since'[c] # {c}
      <3>1. CASE \E p \in Passwords : BeginLogin(s, p)
        BY <2>2, <3>1 DEF BeginLogin, StartLogin, LoginStep, TypeOK
      <3>2. CASE CheckPassword(s)
        <4>1. c \in known[s] /\ given'[s] = given[s] /\ login'[s] = "create"
          BY <2>2, <3>2 DEF CheckPassword, userServiceVars, FindUser, LoginStep, TypeOK
        <4>2. c \in Calls /\ call[c] = "ok"
          BY <4>1 DEF AnsweredStays, Answered
        <4>3. given[s] = password[target[c]]
          BY <1>1, <2>2, <3>2, <4>1 DEF CheckPassword
        <4>4. password[target[c]] = new[c] \/ Replaced(c)
          BY <4>2 DEF AnsweredChangeStands
        <4> QED
          BY <1>1, <4>1, <4>3, <4>4 DEF Replaced
      <3>3. CASE /\ FindUserFails(s) \/ CreateSession(s) \/ CreateSessionFails(s)
                 /\ UNCHANGED userServiceVars
        <4>1. login[s] = "create" /\ owner'[s] = owner[s] /\ c \in known[s] /\ given'[s] = given[s]
          BY <2>2, <3>3 DEF FindUserFails, CreateSession, CreateSessionFails, LoginStep, TypeOK,
                            userServiceVars
        <4> QED
          BY <1>1, <2>2, <4>1 DEF OldPasswordIsOut
      <3> QED
        BY <3>1, <3>2, <3>3
    <2> QED
      BY <1>1, <2>1, <2>2 DEF OldPasswordIsOut
  <1> QED
    BY <1>1, <1>2, <1>3, <1>4

\* A call that writes no password keeps the invariant: a change past its
\* comparison gave the password the row had then.
LEMMA CallUIInv ==
    ASSUME UIInv, NEW c \in Calls, NEW i \in Registers,
           UNCHANGED <<login, owner>>,
           \/ \E o, n \in Passwords : StartChangePassword(c, i, o, n)
           \/ ReadUser(c) \/ ReadUserFails(c)
           \/ Deactivate(c, i) \/ DeactivateFails(c, i) \/ Delete(c, i) \/ DeleteFails(c, i)
    PROVE  UIInv'
  <1> USE DEF UIInv, StartChangePassword, ReadUser, ReadUserFails, Deactivate, DeactivateFails, Delete,
              DeleteFails, OneStatement, CallStep, SetInactive
  <1>1. CallsTyped'
    <2>1. is_active' \in [Registers -> BOOLEAN]
      <3>1. is_active' = is_active \/ is_active' = [is_active EXCEPT ![i] = FALSE]
        OBVIOUS
      <3>2. is_active \in [Registers -> BOOLEAN]
        BY DEF CallsTyped
      <3> HIDE DEF UIInv, StartChangePassword, ReadUser, ReadUserFails, Deactivate, DeactivateFails,
                   Delete, DeleteFails
      <3> QED
        BY Zenon, <3>1, <3>2
    <2>6. read' \in [Calls -> BOOLEAN]
      <3>1. read' = read \/ (ReadUser(c) /\ read' = [read EXCEPT ![c] = is_active[target[c]]])
        OBVIOUS
      <3>2. ReadUser(c) => target[c] \in Registers
        BY DEF SinceOwn
      <3>3. read' = read \/ \E b \in BOOLEAN : read' = [read EXCEPT ![c] = b]
        BY <3>1, <3>2 DEF CallsTyped
      <3>4. read \in [Calls -> BOOLEAN]
        BY DEF CallsTyped
      <3> HIDE DEF UIInv, StartChangePassword, ReadUser, ReadUserFails, Deactivate, DeactivateFails,
                   Delete, DeleteFails
      <3> QED
        BY Zenon, <3>3, <3>4
    <2>2. /\ call' \in [Calls -> {"idle", "read", "update", "ok", "done", "ErrUserNotFound",
                                   "ErrPasswordsNotMatch", "error"}]
          /\ target' \in [Calls -> Registers \cup {NoUser}]
          /\ deactivated' \subseteq Registers
      BY DEF CallsTyped
    <2>3. old' \in [Calls -> Passwords] /\ new' \in [Calls -> Passwords]
      BY DEF CallsTyped
    <2>4. answered' \in [Calls -> SUBSET Calls]
      BY DEF CallsTyped, Answered
    <2>5. UNCHANGED <<password, given, known, since>>
      OBVIOUS
    <2> QED
      BY <2>1, <2>2, <2>3, <2>4, <2>5, <2>6 DEF CallsTyped
  <1>2. /\ UNCHANGED <<password, given, known, since>>
        /\ call[c] \in {"idle", "read"} /\ call'[c] \notin {"idle", "ok"}
        /\ \A d \in Calls : d # c => /\ call'[d] = call[d] /\ target'[d] = target[d]
                                     /\ old'[d] = old[d] /\ new'[d] = new[d]
                                     /\ answered'[d] = answered[d]
    BY DEF CallsTyped
  <1>3. \A d \in Calls : c \notin since[d] /\ (call[d] = "ok" => d # c)
    BY <1>2 DEF SinceOwn
  <1>4. Answered' = Answered
    BY <1>2, <1>3 DEF Answered
  <1>5. AnsweredStays'
    BY <1>2, <1>4 DEF AnsweredStays, CallsTyped
  <1>6. SinceOwn'
    <2>1. since[c] = {} /\ (call'[c] \in {"read", "update", "ok"} => target'[c] \in Registers)
      BY <1>2 DEF SinceOwn, CallsTyped
    <2>2. ASSUME NEW d \in Calls, d # c
          PROVE  /\ call'[d] = "ok" => since'[d] # {}
                 /\ since'[d] # {} => d \in since'[d] /\ call'[d] \in {"ok", "error"}
                 /\ \A e \in since'[d] : call'[e] \in {"ok", "error"} /\ target'[e] = target'[d]
                 /\ call'[d] \in {"read", "update", "ok"} => target'[d] \in Registers
      BY <1>2, <1>3, <2>2 DEF SinceOwn, CallsTyped
    <2> QED
      BY <1>2, <2>1, <2>2 DEF SinceOwn
  <1>7. \A d \in Calls : d # c => (Replaced(d)' <=> Replaced(d))
    <2>1. ASSUME NEW d \in Calls, NEW e \in since[d]
          PROVE  e # c /\ e \in Calls
      BY <1>3 DEF CallsTyped
    <2> QED
      BY <1>2, <2>1 DEF Replaced
  <1>8. AnsweredChangeStands'
    BY <1>2, <1>3, <1>7 DEF AnsweredChangeStands
  <1>9. KnowsPassword'
    <2>1. ASSUME NEW d \in Calls, d # c, call'[d] = "update",
                 NEW e \in answered'[d], target'[e] = target'[d]
          PROVE  old'[d] = new'[e] \/ Replaced(e)'
      <3>1. e \in Answered
        BY <1>2, <2>1 DEF AnsweredStays
      <3>2. e \in Calls /\ e # c
        BY <3>1, <1>3 DEF Answered
      <3> QED
        BY <1>2, <1>7, <2>1, <3>2 DEF KnowsPassword
    <2>2. ASSUME call'[c] = "update", NEW e \in answered'[c], target'[e] = target'[c]
          PROVE  old'[c] = new'[e] \/ Replaced(e)'
      <3>1. ReadUser(c) /\ old[c] = password[target[c]] /\ UNCHANGED <<target, old, new, answered>>
        BY <1>2, <2>2 DEF CallsTyped
      <3>2. e \in Answered
        BY <2>2, <3>1 DEF AnsweredStays
      <3>3. e \in Calls /\ e # c /\ call[e] = "ok"
        BY <3>2, <1>3 DEF Answered
      <3>4. password[target[e]] = new[e] \/ Replaced(e)
        BY <3>3 DEF AnsweredChangeStands
      <3> QED
        BY <1>7, <2>2, <3>1, <3>3, <3>4
    <2> QED
      BY <2>1, <2>2 DEF KnowsPassword
  <1>10. OldPasswordIsOut'
    <2>1. ASSUME NEW t \in Logins, NEW d \in known[t]
          PROVE  d \in Calls /\ d # c
      BY <1>3 DEF AnsweredStays, Answered
    <2> QED
      BY <1>2, <2>1 DEF OldPasswordIsOut
  <1>11. DeactivationStands'
    BY DEF DeactivationStands, CallsTyped
  <1> QED
    BY <1>1, <1>5, <1>6, <1>8, <1>9, <1>10, <1>11

\* A change that writes replaces the password of an answered change only when
\* it overlapped that one or gave its password.
LEMMA ChangeUIInv ==
    ASSUME UIInv, NEW c \in Calls, UNCHANGED <<login, owner>>,
           UpdatePassword(c) \/ UpdatePasswordFails(c), SetPassword(c)
    PROVE  UIInv'
  <1> USE DEF UIInv
  <1>1. /\ UNCHANGED <<is_active, given, known, target, old, new, read, answered, deactivated>>
        /\ call[c] = "update" /\ call'[c] \in {"ok", "error"}
        /\ \A d \in Calls : d # c => call'[d] = call[d]
    BY DEF UpdatePassword, UpdatePasswordFails, CallStep, CallsTyped
  <1>2. /\ target[c] \in Registers
        /\ password' = [password EXCEPT ![target[c]] = new[c]]
        /\ since'[c] = {c}
        /\ \A d \in Calls : d # c =>
              since'[d] = IF since[d] # {} /\ target[d] = target[c] THEN since[d] \cup {c} ELSE since[d]
    BY <1>1 DEF SetPassword, SinceOwn
  <1>3. CallsTyped'
    BY <1>1 DEF CallsTyped, UpdatePassword, UpdatePasswordFails, CallStep, SetPassword
  <1>4. \A d \in Calls : c \notin since[d] /\ (call[d] = "ok" => d # c)
    BY <1>1 DEF SinceOwn
  <1>5. Answered \subseteq Answered'
    BY <1>1 DEF Answered
  <1>6. AnsweredStays'
    BY <1>1, <1>5 DEF AnsweredStays
  <1>7. SinceOwn'
    <2>1. ASSUME NEW d \in Calls, d # c
          PROVE  /\ call'[d] = "ok" => since'[d] # {}
                 /\ since'[d] # {} => d \in since'[d] /\ call'[d] \in {"ok", "error"}
                 /\ \A e \in since'[d] : call'[e] \in {"ok", "error"} /\ target'[e] = target'[d]
                 /\ call'[d] \in {"read", "update", "ok"} => target'[d] \in Registers
      <3>1. /\ call'[d] = call[d] /\ target'[d] = target[d]
            /\ call[d] = "ok" => since[d] # {}
            /\ since[d] # {} => d \in since[d] /\ call[d] \in {"ok", "error"}
            /\ \A e \in since[d] : call[e] \in {"ok", "error"} /\ target[e] = target[d]
            /\ call[d] \in {"read", "update", "ok"} => target[d] \in Registers
        BY <1>1, <2>1 DEF SinceOwn
      <3>2. \A e \in since[d] : call'[e] \in {"ok", "error"} /\ target'[e] = target'[d]
        BY <1>1, <1>4, <3>1 DEF CallsTyped
      <3>3. CASE since[d] # {} /\ target[d] = target[c]
        BY <1>1, <1>2, <2>1, <3>1, <3>2, <3>3
      <3>4. CASE ~(since[d] # {} /\ target[d] = target[c])
        BY <1>2, <2>1, <3>1, <3>2, <3>4
      <3> QED
        BY <3>3, <3>4
    <2>2. /\ since'[c] = {c} /\ call'[c] \in {"ok", "error"}
          /\ target'[c] \in Registers
      BY <1>1, <1>2
    <2> QED
      BY <2>1, <2>2 DEF SinceOwn
  <1>8. \A d \in Calls : Replaced(d) => Replaced(d)'
    <2>1. ASSUME NEW d \in Calls, Replaced(d)
          PROVE  Replaced(d)'
      <3>1. PICK e \in since[d] \ {d} : d \notin answered[e] \/ old[e] = new[d]
        BY <2>1 DEF Replaced
      <3>2. d # c
        BY <3>1, <1>1 DEF SinceOwn
      <3>3. e \in since'[d]
        BY <1>2, <3>1, <3>2
      <3> QED
        BY <1>1, <3>1, <3>3 DEF Replaced
    <2> QED
      BY <2>1
  <1>9. KnowsPassword'
    BY <1>1, <1>8 DEF KnowsPassword, AnsweredStays, Answered
  <1>10. AnsweredChangeStands'
    <2>1. ASSUME NEW d \in Calls, call'[d] = "ok"
          PROVE  password'[target'[d]] = new'[d] \/ Replaced(d)'
      <3>1. CASE d = c
        BY <1>1, <1>2, <3>1 DEF CallsTyped
      <3>2. CASE d # c /\ target[d] # target[c]
        BY <1>1, <1>2, <1>8, <2>1, <3>2 DEF AnsweredChangeStands, CallsTyped
      <3>3. CASE d # c /\ target[d] = target[c]
        <4>1. call[d] = "ok" /\ since[d] # {}
          BY <1>1, <2>1, <3>3 DEF SinceOwn
        <4>2. c \in since'[d] \ {d}
          BY <1>2, <3>3, <4>1
        <4>3. CASE d \notin answered[c]
          BY <1>1, <4>2, <4>3 DEF Replaced
        <4>4. CASE d \in answered[c]
          <5>1. old[c] = new[d] \/ Replaced(d)
            BY <1>1, <3>3, <4>4 DEF KnowsPassword
          <5> QED
            BY <1>1, <1>8, <4>2, <5>1 DEF Replaced
        <4> QED
          BY <4>3, <4>4
      <3> QED
        BY <3>1, <3>2, <3>3
    <2> QED
      BY <2>1 DEF AnsweredChangeStands
  <1>11. OldPasswordIsOut'
    <2>1. ASSUME NEW t \in Logins, NEW d \in known[t], since[d] # {d}
          PROVE  since'[d] # {d}
      <3>1. d \in Calls /\ call[d] = "ok"
        BY DEF AnsweredStays, Answered
      <3>2. d # c /\ d \in since[d]
        BY <1>4, <3>1 DEF SinceOwn
      <3> QED
        BY <1>2, <2>1, <3>1, <3>2
    <2> QED
      BY <1>1, <2>1 DEF OldPasswordIsOut
  <1>12. DeactivationStands'
    BY <1>1 DEF DeactivationStands
  <1> QED
    BY <1>3, <1>6, <1>7, <1>9, <1>10, <1>11, <1>12

\* A change that fails without a trace only ends.
LEMMA ChangeLostUIInv ==
    ASSUME UIInv, NEW c \in Calls, UNCHANGED <<login, owner>>,
           UpdatePasswordFails(c), UNCHANGED <<password, since>>
    PROVE  UIInv'
  <1> USE DEF UIInv, UpdatePasswordFails, CallStep
  <1>1. CallsTyped'
    BY DEF CallsTyped
  <1>2. Answered' = Answered
    BY DEF Answered, CallsTyped
  <1>3. SinceOwn'
    BY DEF SinceOwn, CallsTyped
  <1>4. AnsweredStays' /\ DeactivationStands'
    BY <1>2 DEF AnsweredStays, DeactivationStands
  <1>5. KnowsPassword' /\ AnsweredChangeStands' /\ OldPasswordIsOut'
    BY DEF KnowsPassword, AnsweredChangeStands, OldPasswordIsOut, Replaced, CallsTyped
  <1> QED
    BY <1>1, <1>3, <1>4, <1>5

\* The invariant behind the theorems below is inductive.
THEOREM UInductive == USpec => []UIInv
  <1>1. ASSUME TypeOK, UIInv, [UNext]_uvars
        PROVE  UIInv'
    <2>1. CASE UNCHANGED uvars
      BY <1>1, <2>1, AccountsUIInv DEF uvars, vars, loginVars
    <2>2. ASSUME \/ Tick
                 \/ \E i \in Registers : RegisterNext(i)
                 \/ \E r \in Requests : RequestNext(r),
                 UNCHANGED userServiceVars
          PROVE  UIInv'
      <3>1. UNCHANGED <<login, owner>>
        BY <2>2 DEF Tick, RegisterNext, StartRegister, GetByEmail, GetByEmailFails, CreateUser,
                    CreateUserFails, RegisterStep, RequestNext, StartRequest, ValidateSession,
                    SessionRefused, GetUser, GetUserFails, HTTPHandlerNoUser, GQLHandlerNoUser, Serve,
                    Logout, LogoutFails, RequestStep, loginVars
      <3> QED
        BY <1>1, <2>2, <3>1, AccountsUIInv
    <2>3. ASSUME NEW c \in Calls, UpdatePassword(c) \/ UpdatePasswordFails(c)
          PROVE  UIInv'
      <3>1. UNCHANGED <<login, owner>>
        BY <2>3 DEF UpdatePassword, UpdatePasswordFails, vars, loginVars
      <3>2. CASE SetPassword(c)
        BY <1>1, <2>3, <3>1, <3>2, ChangeUIInv
      <3>3. CASE ~SetPassword(c)
        <4>1. UpdatePasswordFails(c) /\ UNCHANGED <<password, since>>
          BY <2>3, <3>3 DEF UpdatePassword, UpdatePasswordFails
        <4> QED
          BY <1>1, <3>1, <4>1, ChangeLostUIInv
      <3> QED
        BY <3>2, <3>3
    <2>4. ASSUME NEW c \in Calls, ReadUser(c) \/ ReadUserFails(c)
          PROVE  UIInv'
      <3>1. UNCHANGED <<login, owner>> /\ target[c] \in Registers
        BY <1>1, <2>4 DEF ReadUser, ReadUserFails, CallStep, vars, loginVars, UIInv, SinceOwn
      <3> QED
        BY <1>1, <2>4, <3>1, CallUIInv
    <2>5. ASSUME NEW c \in Calls, NEW i \in Registers,
                 \/ \E o, n \in Passwords : StartChangePassword(c, i, o, n)
                 \/ Deactivate(c, i) \/ DeactivateFails(c, i) \/ Delete(c, i) \/ DeleteFails(c, i)
          PROVE  UIInv'
      <3>1. UNCHANGED <<login, owner>>
        BY <2>5 DEF StartChangePassword, Deactivate, DeactivateFails, Delete, DeleteFails, DeleteUser,
                    vars, loginVars
      <3> QED
        BY <1>1, <2>5, <3>1, CallUIInv
    <2> QED
      BY <1>1, <2>1, <2>2, <2>3, <2>4, <2>5, LoginUIInv DEF UNext
  <1> QED
    BY Implements, AlwaysTyped, InitUIInv, <1>1, PTL DEF USpec

\* Every state of the accounts and of the user service is well formed.
THEOREM AlwaysUTyped == USpec => []UTypeOK
  BY Implements, AlwaysTyped, UInductive, PTL DEF UIInv, UTypeOK

\* An answered change of a password is replaced only by one that overlapped it
\* or gave its password.
THEOREM ChangesStand == USpec => []AnsweredChangeStands
  BY UInductive, PTL DEF UIInv

\* No login begun after a change was answered passes with the password that
\* change replaced, unless the row was changed again.
THEOREM OldPasswordStaysOut == USpec => []OldPasswordIsOut
  BY UInductive, PTL DEF UIInv

\* ChangePassword, which reads the row and writes later, undoes no deactivation.
THEOREM DeactivationsStand == USpec => []DeactivationStands
  BY UInductive, PTL DEF UIInv

\* The guarantees of the accounts hold while users are changed and deleted.
THEOREM AccountsStaySafe ==
    USpec => /\ [](LogoutIsFinal /\ ServedAsOwner /\ NeverServedAsAnother /\ SharedEmailNeedsOverlap)
             /\ LetInInTime
             /\ LetInBeforeLogout
             /\ SessionsOnlyClose
  BY Implements, LogoutStaysFinal, AlwaysServedAsOwner, NobodyServedAsAnother, SharingNeedsOverlap,
     AlwaysLetInInTime, LogoutShutsOut, SessionsStayClosed, PTL

-----------------------------------------------------------------------------
(* Deleted users.                                                          *)

\* A step of the accounts brings back no user whose registration has answered,
\* and keeps the answer.
LEMMA NoUserReturns ==
    ASSUME TypeOK, [Next]_vars, NEW i \in Registers, Made(i)
    PROVE  Made(i)' /\ (i \notin users => i \notin users')
  <1>1. ASSUME NEW j \in Registers, RegisterNext(j)
        PROVE  Made(i)' /\ (i \notin users => i \notin users')
    <2>1. i # j
      BY <1>1 DEF Made, RegisterNext, StartRegister, GetByEmail, GetByEmailFails, CreateUser,
                  CreateUserFails, RegisterStep
    <2> QED
      BY <1>1, <2>1 DEF TypeOK, Made, RegisterNext, StartRegister, GetByEmail, GetByEmailFails, CreateUser,
                        CreateUserFails, RegisterStep
  <1>2. CASE ~ \E j \in Registers : RegisterNext(j)
    <2>1. register' = register /\ users' \subseteq users
      BY <1>2 DEF Next, vars, userVars, Tick, DeleteUser, LoginNext, StartLogin, FindUser, FindUserFails,
                  CreateSession, CreateSessionFails, LoginStep, RequestNext, StartRequest, ValidateSession,
                  SessionRefused, GetUser, GetUserFails, HTTPHandlerNoUser, GQLHandlerNoUser, Serve,
                  Logout, LogoutFails, RequestStep
    <2> QED
      BY <2>1 DEF Made
  <1> QED
    BY <1>1, <1>2

\* However deletions, registrations and lost answers interleave, a deleted user
\* does not come back.
THEOREM DeletedUsersStayOut == USpec => DeletedForGood
  <1>1. TypeOK /\ [UNext]_uvars =>
            [\A i \in Registers : Made(i) /\ i \notin users => i \notin users']_uvars
    BY StepRefines, NoUserReturns
  <1> QED
    BY <1>1, Implements, AlwaysTyped, PTL DEF USpec, DeletedForGood

\* Every step keeps the targets of the calls, and what they found out.
LEMMA NotFoundStep ==
    ASSUME TypeOK, CallsTyped, NotFoundIsFinal, TargetMade, [UNext]_uvars
    PROVE  NotFoundIsFinal' /\ TargetMade'
  <1> USE DEF NotFoundIsFinal, TargetMade
  <1>0. \A i \in Registers : Made(i) => Made(i)' /\ (i \notin users => i \notin users')
    BY StepRefines, NoUserReturns
  <1>1. ASSUME UNCHANGED <<call, target>>
        PROVE  NotFoundIsFinal' /\ TargetMade'
    BY <1>0, <1>1
  <1>2. ASSUME NEW c \in Calls,
               ReadUser(c) \/ ReadUserFails(c) \/ UpdatePassword(c) \/ UpdatePasswordFails(c)
        PROVE  NotFoundIsFinal' /\ TargetMade'
    <2>1. target' = target /\ users' = users /\ register' = register
      BY <1>2 DEF ReadUser, ReadUserFails, UpdatePassword, UpdatePasswordFails, vars, userVars
    <2>2. CASE ReadUser(c)
      BY <1>0, <2>1, <2>2 DEF ReadUser, CallStep, CallsTyped
    <2>3. CASE ReadUserFails(c)
      BY <1>0, <2>1, <2>3 DEF ReadUserFails, CallStep, CallsTyped
    <2>4. CASE UpdatePassword(c) \/ UpdatePasswordFails(c)
      BY <1>0, <2>1, <2>4 DEF UpdatePassword, UpdatePasswordFails, CallStep, CallsTyped
    <2> QED
      BY <1>2, <2>2, <2>3, <2>4
  <1>3. ASSUME NEW c \in Calls, NEW i \in Registers, NEW o \in Passwords, NEW n \in Passwords,
               StartChangePassword(c, i, o, n)
        PROVE  NotFoundIsFinal' /\ TargetMade'
    BY <1>0, <1>3 DEF StartChangePassword, CallStep, CallsTyped
  <1>4. ASSUME NEW c \in Calls, NEW i \in Registers,
               Deactivate(c, i) \/ DeactivateFails(c, i) \/ Delete(c, i) \/ DeleteFails(c, i)
        PROVE  NotFoundIsFinal' /\ TargetMade'
    BY <1>0, <1>4 DEF Deactivate, DeactivateFails, Delete, DeleteFails, OneStatement, CallStep, CallsTyped
  <1>5. CASE UNCHANGED userServiceVars \/ \E s \in Logins, p \in Passwords : BeginLogin(s, p)
    BY <1>1, <1>5 DEF userServiceVars, BeginLogin
  <1> QED
    BY <1>2, <1>3, <1>4, <1>5 DEF UNext, uvars, CheckPassword

\* Whoever is told ErrUserNotFound has no user then and will have none.
THEOREM NotFoundStaysTrue == USpec => []NotFoundIsFinal
  <1>1. UInit => NotFoundIsFinal /\ TargetMade
    BY DEF UInit, NotFoundIsFinal, TargetMade
  <1> QED
    BY <1>1, NotFoundStep, AlwaysUTyped, PTL DEF USpec, UTypeOK
=============================================================================
