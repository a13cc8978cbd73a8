--------------------------- MODULE AccountsProofs ---------------------------
(***************************************************************************)
(* Proofs about Accounts, for every number of registrations, logins and    *)
(* requests and every life time and time zone.                             *)
(***************************************************************************)
EXTENDS Accounts, TLAPS

\* The invariant holds at the start.
LEMMA InitIInv == Init => IInv
  <1> SUFFICES ASSUME Init PROVE IInv
    OBVIOUS
  <1>1. TypeOK
    <2>1. now \in 0..MaxTime /\ \A s \in Logins : issued[s] \in 0..MaxTime
      BY SMT, TimeAssumption DEF Init
    <2>2. loggedOut \in [Requests -> BOOLEAN]
      BY Zenon DEF Init
    <2>3. expires_at \in [Logins -> Int] /\ issued \in [Logins -> 0..MaxTime]
      BY SMT, TimeAssumption DEF Init
    <2>4. register \in [Registers -> {"idle", "check", "create", "ok", "exists", "error"}]
      BY DEF Init
    <2>5. login \in [Logins -> {"idle", "find", "create", "ok", "ErrInvalidCredentials", "error"}]
      BY DEF Init
    <2>6. request \in [Requests -> {"idle", "session", "user", "handler"} \cup RequestDone]
      BY DEF Init
    <2>7. sessions \in [Logins -> {"none", "active", "inactive", "deleted"}]
      BY DEF Init
    <2>8. rivals \in [Registers -> SUBSET Registers] /\ owner \in [Logins -> Registers \cup {NoUser}]
      BY DEF Init
    <2>9. user \in [Requests -> Registers \cup {NoUser}] /\ users \subseteq Registers
      BY DEF Init
    <2> QED
      BY <2>1, <2>2, <2>3, <2>4, <2>5, <2>6, <2>7, <2>8, <2>9 DEF Init, TypeOK
  <1>2. CookieKnown /\ LoggedOutIsClosed
    BY DEF Init, CookieKnown, LoggedOutIsClosed
  <1>3. SessionMade /\ FreeWhenFound
    BY DEF Init, SessionMade, FreeWhenFound
  <1>4. LogoutIsFinal /\ ServedAsOwner
    BY DEF Init, LogoutIsFinal, ServedAsOwner
  <1> QED
    BY <1>1, <1>2, <1>3, <1>4 DEF IInv

\* The clock touches nothing the invariant speaks of.
LEMMA TickIInv == ASSUME IInv, Tick PROVE IInv'
  <1> USE DEF IInv, Tick, userVars, loginVars, requestVars
  <1>1. TypeOK'
    BY TimeAssumption DEF TypeOK
  <1>2. CookieKnown' /\ LoggedOutIsClosed'
    BY DEF CookieKnown, LoggedOutIsClosed, Closed
  <1>3. SessionMade' /\ FreeWhenFound'
    BY DEF SessionMade, FreeWhenFound
  <1>4. LogoutIsFinal' /\ ServedAsOwner'
    BY DEF LogoutIsFinal, ServedAsOwner
  <1> QED
    BY <1>1, <1>2, <1>3, <1>4

\* A registration only adds users, and adds one only after it has found the
\* address free.
LEMMA RegisterIInv ==
    ASSUME IInv, NEW i \in Registers, RegisterNext(i)
    PROVE  IInv'
  <1> USE DEF IInv, RegisterNext, StartRegister, GetByEmail, GetByEmailFails, CreateUser,
              CreateUserFails, RegisterStep, loginVars, requestVars
  <1>1. TypeOK'
    BY DEF TypeOK
  <1>2. users \subseteq users' /\ UNCHANGED <<email, login, address, owner, sessions, issued, expires_at>>
    OBVIOUS
  <1>3. CookieKnown' /\ LoggedOutIsClosed'
    BY DEF CookieKnown, LoggedOutIsClosed, Closed
  <1>4. SessionMade'
    BY <1>2 DEF SessionMade, StoredTime
  <1>5. FreeWhenFound'
    BY DEF FreeWhenFound, TypeOK, Taken
  <1>6. LogoutIsFinal' /\ ServedAsOwner'
    BY <1>2 DEF LogoutIsFinal, ServedAsOwner
  <1> QED
    BY <1>1, <1>3, <1>4, <1>5, <1>6

\* A login touches only its own session, which nobody can present before the
\* login has answered.
LEMMA LoginIInv ==
    ASSUME IInv, NEW s \in Logins, LoginNext(s)
    PROVE  IInv'
  <1> USE DEF IInv, LoginNext, StartLogin, FindUser, FindUserFails, CreateSession,
              CreateSessionFails, LoginStep, userVars, requestVars
  <1>0. login[s] \in {"idle", "find", "create"}
    BY DEF TypeOK
  <1>1. TypeOK'
    BY TimeAssumption DEF TypeOK, InsertSession, StoredTime
  <1>2. \A r \in Requests : request[r] # "idle" => cookie[r] # s
    BY <1>0, NoSessionAssumption DEF CookieKnown
  <1>3. \A t \in Logins : t # s => /\ login'[t] = login[t]
                                   /\ sessions'[t] = sessions[t]
                                   /\ owner'[t] = owner[t]
                                   /\ issued'[t] = issued[t]
                                   /\ expires_at'[t] = expires_at[t]
    BY DEF TypeOK, InsertSession
  <1>4. CookieKnown'
    BY <1>2, <1>3 DEF CookieKnown, TypeOK
  <1>5. sessions[s] = "none"
    BY <1>0 DEF SessionMade
  <1>6. LoggedOutIsClosed'
    BY <1>3, <1>5 DEF LoggedOutIsClosed, Closed, TypeOK
  <1>7. SessionMade'
    <2>1. \A t \in Logins : t # s =>
            /\ login'[t] \in {"idle", "find"} => sessions'[t] = "none"
            /\ login'[t] = "ok" => sessions'[t] # "none"
            /\ login'[t] = "create" \/ sessions'[t] # "none" =>
                  owner'[t] \in Registers /\ email'[owner'[t]] = address'[t]
            /\ sessions'[t] \in {"active", "inactive"} => owner'[t] \in users'
            /\ login'[t] = "create" => sessions'[t] = "none"
            /\ sessions'[t] # "none" => expires_at'[t] = StoredTime(issued'[t] + LifeTime)
      BY <1>3 DEF SessionMade
    <2>2. CASE StartLogin(s) \/ FindUserFails(s)
      BY <2>1, <2>2, <1>5 DEF SessionMade, TypeOK
    <2>3. CASE FindUser(s)
      BY <2>1, <2>3, <1>5 DEF SessionMade, TypeOK
    <2>4. CASE CreateSession(s) \/ CreateSessionFails(s)
      BY <2>1, <2>4, <1>5 DEF SessionMade, TypeOK, InsertSession
    <2> QED
      BY <2>2, <2>3, <2>4
  <1>8. FreeWhenFound' /\ LogoutIsFinal'
    BY DEF FreeWhenFound, LogoutIsFinal
  <1>9. ServedAsOwner'
    BY <1>2, <1>3 DEF ServedAsOwner, CookieKnown, TypeOK
  <1> QED
    BY <1>1, <1>4, <1>6, <1>7, <1>8, <1>9

\* A request changes no session but the one it logs out, and that one it
\* closes.
LEMMA RequestIInv ==
    ASSUME IInv, NEW r \in Requests, RequestNext(r)
    PROVE  IInv'
  <1> USE DEF IInv, RequestNext, StartRequest, ValidateSession, SessionRefused, GetUser, GetUserFails,
              HTTPHandlerNoUser, GQLHandlerNoUser, Serve, Logout, LogoutFails, RequestStep,
              userVars, loginVars
  <1>1. request[r] = "handler" => cookie[r] \in Logins /\ sessions[cookie[r]] # "none"
    BY DEF CookieKnown, SessionMade, TypeOK
  <1>2. /\ \A s \in Logins : sessions'[s] = "none" <=> sessions[s] = "none"
        /\ \A s \in Logins : sessions[s] \in {"inactive", "deleted"} =>
                                sessions'[s] \in {"inactive", "deleted"}
        /\ \A s \in Logins : sessions[s] = "deleted" => sessions'[s] = "deleted"
        /\ sessions' \in [Logins -> {"none", "active", "inactive", "deleted"}]
    BY <1>1 DEF TypeOK, EndSession
  <1>3. request' \in [Requests -> {"idle", "session", "user", "handler"} \cup RequestDone]
    BY DEF TypeOK, RequestDone
  <1>4. user' \in [Requests -> Registers \cup {NoUser}]
    BY DEF TypeOK
  <1>5. loggedOut' \in [Requests -> BOOLEAN]
    BY DEF TypeOK, LoggedOut
  <1>6. TypeOK'
    BY <1>2, <1>3, <1>4, <1>5 DEF TypeOK
  <1>7. CookieKnown'
    BY NoSessionAssumption DEF CookieKnown, TypeOK, RequestDone, Valid
  <1>8. LoggedOutIsClosed'
    <2>1. ASSUME NEW q \in Requests, request[q] = "loggedOut" \/ loggedOut[q]
          PROVE  Closed(cookie[q])'
      BY <2>1, <1>2 DEF LoggedOutIsClosed, Closed, TypeOK
    <2>2. ASSUME loggedOut'[r], ~loggedOut[r]
          PROVE  Closed(cookie[r])'
      <3>1. LoggedOut(cookie[r])
        BY <2>2 DEF TypeOK
      <3>2. PICK q \in Requests : request[q] = "loggedOut" /\ cookie[q] = cookie[r]
        BY <3>1 DEF LoggedOut
      <3>3. Closed(cookie[q])'
        BY <2>1, <3>2
      <3>4. cookie' = cookie
        OBVIOUS
      <3>5. Closed(cookie[q])' <=> Closed(cookie[r])'
        BY <3>2, <3>4 DEF Closed
      <3> QED
        BY <3>3, <3>5
    <2>3. request'[r] = "loggedOut" => Closed(cookie[r])'
      BY <1>1 DEF Closed, TypeOK, EndSession
    <2>4. \A q \in Requests : q # r => request'[q] = request[q] /\ loggedOut'[q] = loggedOut[q]
      BY DEF TypeOK
    <2> QED
      BY <2>1, <2>2, <2>3, <2>4 DEF LoggedOutIsClosed
  <1>9. SessionMade' /\ FreeWhenFound'
    <2>1. \A s \in Logins : sessions'[s] \in {"active", "inactive"} =>
                                sessions[s] \in {"active", "inactive"}
      BY <1>2 DEF TypeOK
    <2>2. SessionMade'
      BY <1>2, <2>1 DEF SessionMade, StoredTime
    <2>3. FreeWhenFound'
      BY DEF FreeWhenFound
    <2> QED
      BY <2>2, <2>3
  <1>10. LogoutIsFinal'
    <2>1. \A q \in Requests : q # r => request'[q] = request[q] /\ loggedOut'[q] = loggedOut[q]
      BY DEF TypeOK
    <2>2. CASE StartRequest(r)
      BY <2>1, <2>2 DEF LogoutIsFinal, TypeOK
    <2>3. CASE ValidateSession(r)
      <3>1. ~loggedOut[r]
        BY <2>3, NoSessionAssumption DEF LoggedOutIsClosed, Closed, Valid
      <3> QED
        BY <2>1, <2>3, <3>1 DEF LogoutIsFinal, TypeOK
    <2>4. CASE ~StartRequest(r) /\ ~ValidateSession(r)
      <3>1. loggedOut' = loggedOut
        BY <2>4
      <3>2. request'[r] \in {"401", "panic"} \/ request[r] \in {"user", "handler"}
        BY <2>4 DEF TypeOK
      <3> QED
        BY <2>1, <3>1, <3>2 DEF LogoutIsFinal
    <2> QED
      BY <2>2, <2>3, <2>4
  <1>11. ServedAsOwner'
    <2>1. ASSUME GetUser(r)
          PROVE  /\ cookie[r] \in Logins
                 /\ owner[cookie[r]] \in users
                 /\ email[owner[cookie[r]]] = address[cookie[r]]
      BY <2>1 DEF CookieKnown, SessionMade, TypeOK
    <2>2. CASE GetUser(r)
      BY <2>1, <2>2 DEF ServedAsOwner, TypeOK
    <2>3. CASE ~GetUser(r)
      <3>1. user' = user /\ \A q \in Requests : request'[q] = "handler" /\ api[q] = "rest" => request[q] = "handler"
        BY <2>3 DEF TypeOK
      <3>2. \A q \in Requests : request[q] = "handler" => cookie[q] \in Logins
        BY DEF CookieKnown, TypeOK
      <3> QED
        BY <1>2, <3>1, <3>2 DEF ServedAsOwner
    <2> QED
      BY <2>2, <2>3
  <1> QED
    BY <1>6, <1>7, <1>8, <1>9, <1>10, <1>11

\* A deletion takes a user that no session's row refers to, and an id that was
\* deleted is not given again.
LEMMA DeleteUserIInv ==
    ASSUME IInv, NEW i \in Registers, DeleteUser(i)
    PROVE  IInv'
  <1> USE DEF IInv, DeleteUser, loginVars, requestVars
  <1>1. TypeOK'
    BY DEF TypeOK
  <1>2. CookieKnown' /\ LoggedOutIsClosed' /\ LogoutIsFinal'
    BY DEF CookieKnown, LoggedOutIsClosed, Closed, LogoutIsFinal
  <1>3. SessionMade'
    BY DEF SessionMade, StoredTime
  <1>4. FreeWhenFound'
    BY DEF FreeWhenFound
  <1>5. ServedAsOwner'
    BY DEF ServedAsOwner, CookieKnown, SessionMade, TypeOK
  <1> QED
    BY <1>1, <1>2, <1>3, <1>4, <1>5

\* A step that changes nothing keeps the invariant.
LEMMA StutterIInv == ASSUME IInv, UNCHANGED vars PROVE IInv'
  BY DEF IInv, vars, userVars, loginVars, requestVars, TypeOK, CookieKnown, LoggedOutIsClosed,
         Closed, SessionMade, StoredTime, FreeWhenFound, LogoutIsFinal, ServedAsOwner

\* The invariant behind the theorems below is inductive.
THEOREM Inductive == Spec => []IInv
  <1>1. IInv /\ [Next]_vars => IInv'
    BY TickIInv, RegisterIInv, DeleteUserIInv, LoginIInv, RequestIInv, StutterIInv DEF Next
  <1> QED
    BY InitIInv, <1>1, PTL DEF Spec

\* Every state of the accounts is well formed.
THEOREM AlwaysTyped == Spec => []TypeOK
  BY Inductive, PTL DEF IInv

\* Logging out is final: a request that begins after a logout of its session
\* was answered reaches no handler.
THEOREM LogoutStaysFinal == Spec => []LogoutIsFinal
  BY Inductive, PTL DEF IInv

\* REST handlers run as the owner of the session they were sent.
THEOREM AlwaysServedAsOwner == Spec => []ServedAsOwner
  BY Inductive, PTL DEF IInv

\* Accounts with the same address come from registrations that overlap.
THEOREM SharingNeedsOverlap == Spec => []SharedEmailNeedsOverlap
  <1>1. IInv => SharedEmailNeedsOverlap
    BY DEF IInv, TypeOK, FreeWhenFound, SharedEmailNeedsOverlap
  <1> QED
    BY Inductive, <1>1, PTL

\* Only the validation of its session lets a request in.
LEMMA LetInByValidation ==
    ASSUME IInv, [Next]_vars, NEW r \in Requests, request[r] = "session", request'[r] = "user"
    PROVE  ValidateSession(r)
  <1>1. UNCHANGED request \/ \E q \in Requests : RequestNext(q)
    BY DEF Next, vars, requestVars, Tick, RegisterNext, StartRegister, GetByEmail,
           GetByEmailFails, CreateUser, CreateUserFails, RegisterStep, LoginNext, StartLogin,
           FindUser, FindUserFails, CreateSession, CreateSessionFails, LoginStep, DeleteUser
  <1>2. PICK q \in Requests : RequestNext(q)
    BY <1>1
  <1> QED
    BY <1>2 DEF IInv, TypeOK, RequestDone, RequestNext, StartRequest, ValidateSession, SessionRefused,
                GetUser, GetUserFails, HTTPHandlerNoUser, GQLHandlerNoUser, Serve, Logout, LogoutFails,
                RequestStep

\* No request is let in after its session's life time, as shifted by the
\* server's time zone.
THEOREM AlwaysLetInInTime == Spec => LetInInTime
  <1>1. ASSUME IInv, [Next]_vars
        PROVE  [LetIn]_vars
    <2>1. SUFFICES ASSUME NEW r \in Requests, request[r] = "session", request'[r] = "user"
                   PROVE  now <= issued[cookie[r]] + LifeTime + TZOffset
      BY DEF LetIn
    <2>2. Valid(cookie[r])
      BY <1>1, <2>1, LetInByValidation DEF ValidateSession
    <2>3. expires_at[cookie[r]] = StoredTime(issued[cookie[r]] + LifeTime)
      BY <1>1, <2>2 DEF Valid, IInv, SessionMade
    <2>4. now \in Int /\ issued[cookie[r]] \in Int /\ cookie[r] \in Logins
      BY <1>1, <2>2, TimeAssumption DEF Valid, IInv, TypeOK
    <2> QED
      BY <2>2, <2>3, <2>4, TimeAssumption DEF Valid, StoredTime
  <1> QED
    BY Inductive, <1>1, PTL DEF Spec, LetInInTime, LetIn

-----------------------------------------------------------------------------
(* Both APIs, and what may happen to a session.                            *)

\* What has to be known of the handlers of both APIs, with the typing and the
\* sessions of the invariant.
LEMMA ServedNext ==
    ASSUME IInv, HandlersInv, [Next]_vars
    PROVE  HandlersInv'
  <1> USE DEF HandlersInv, NoUserYet, NeverServedAsAnother
  <1>1. \A r \in Requests : request[r] = "handler" => cookie[r] \in Logins
    BY DEF IInv, CookieKnown, TypeOK
  <1>2. CASE Tick \/ (\E i \in Registers : RegisterNext(i)) \/ UNCHANGED vars
    <2>1. /\ users \subseteq users'
          /\ UNCHANGED <<email, address, owner, sessions, request, api, cookie, user>>
      BY <1>2 DEF vars, userVars, loginVars, requestVars, Tick, RegisterNext, StartRegister, GetByEmail,
                  GetByEmailFails, CreateUser, CreateUserFails, RegisterStep
    <2> QED
      BY <2>1
  <1>3. ASSUME NEW i \in Registers, DeleteUser(i)
        PROVE  HandlersInv'
    <2>1. /\ users' = users \ {i}
          /\ UNCHANGED <<email, address, owner, sessions, request, api, cookie, user>>
      BY <1>3 DEF DeleteUser, loginVars, requestVars
    <2>2. \A s \in Logins : sessions[s] \in {"active", "inactive"} => owner[s] # i
      BY <1>3 DEF DeleteUser
    <2>3. \A r \in Requests : request[r] = "handler" => sessions[cookie[r]] # "none"
      BY <1>1 DEF IInv, CookieKnown, SessionMade
    <2> QED
      BY <1>1, <2>1, <2>2, <2>3 DEF IInv, TypeOK
  <1>4. ASSUME NEW s \in Logins, LoginNext(s)
        PROVE  HandlersInv'
    <2> USE DEF LoginNext, StartLogin, FindUser, FindUserFails, CreateSession, CreateSessionFails,
                LoginStep, userVars, requestVars
    <2>1. \A r \in Requests : request[r] # "idle" => cookie[r] # s
      BY <1>4, NoSessionAssumption DEF IInv, TypeOK, CookieKnown
    <2>2. \A t \in Logins : t # s => sessions'[t] = sessions[t] /\ owner'[t] = owner[t]
      BY <1>4 DEF IInv, TypeOK, InsertSession
    <2>3. UNCHANGED <<users, email, address, request, api, cookie, user>>
      BY <1>4
    <2> QED
      BY <1>1, <2>1, <2>2, <2>3
  <1>5. ASSUME NEW r \in Requests, RequestNext(r)
        PROVE  HandlersInv'
    <2> USE DEF RequestNext, StartRequest, ValidateSession, SessionRefused, GetUser, GetUserFails,
                HTTPHandlerNoUser, GQLHandlerNoUser, Serve, Logout, LogoutFails, RequestStep,
                userVars, loginVars
    <2>1. UNCHANGED <<users, email, address, owner, api, cookie>>
      BY <1>5
    <2>2. \A q \in Requests : q # r => request'[q] = request[q] /\ user'[q] = user[q]
      BY <1>5 DEF IInv, TypeOK
    <2>3. \A s \in Logins : sessions[s] = "deleted" => sessions'[s] = "deleted"
      BY <1>5 DEF IInv, TypeOK, EndSession
    <2>4. ASSUME request'[r] = "handler"
          PROVE  \/ api[r] = "gql" /\ user'[r] = NoUser
                 \/ user'[r] = owner[cookie[r]] /\ owner[cookie[r]] \in users
      <3>1. request[r] = "user"
        BY <1>5, <2>4 DEF IInv, TypeOK
      <3>2. CASE GetUser(r)
        BY <3>2 DEF IInv, TypeOK
      <3>3. CASE GetUserFails(r)
        <4>1. api[r] = "gql" /\ user' = user
          BY <3>3, <2>4 DEF IInv, TypeOK
        <4>2. user[r] = NoUser
          BY <3>1
        <4> QED
          BY <4>1, <4>2
      <3> QED
        BY <1>5, <2>4, <3>1, <3>2, <3>3
    <2>5. request'[r] = "handler" => /\ cookie[r] \in Logins
                                     /\ owner[cookie[r]] \in users => email[owner[cookie[r]]] = address[cookie[r]]
      <3>1. request'[r] = "handler" => request[r] = "user"
        BY <1>5 DEF IInv, TypeOK
      <3>2. request[r] = "user" => cookie[r] \in Logins /\ sessions[cookie[r]] # "none"
        BY DEF IInv, CookieKnown, TypeOK, SessionMade
      <3> QED
        BY <3>1, <3>2 DEF IInv, SessionMade
    <2>6. NoUserYet'
      BY <1>5, <2>2 DEF IInv, TypeOK
    <2>7. NeverServedAsAnother'
      BY <1>1, <2>1, <2>2, <2>3, <2>4, <2>5
    <2> QED
      BY <2>6, <2>7
  <1> QED
    BY <1>2, <1>3, <1>4, <1>5 DEF Next

\* Whichever of the two APIs lets it in, a handler never runs as a user other
\* than the one its session belongs to; a GraphQL handler may run as no user.
THEOREM NobodyServedAsAnother == Spec => []NeverServedAsAnother
  <1>1. Init => HandlersInv
    BY DEF Init, HandlersInv, NoUserYet, NeverServedAsAnother
  <1> QED
    BY <1>1, Inductive, ServedNext, PTL DEF Spec, HandlersInv

\* Once a logout has been answered no request is let in with its session, not
\* even one that began before the logout.
THEOREM LogoutShutsOut == Spec => LetInBeforeLogout
  <1>1. IInv /\ [Next]_vars => [NotLoggedOut]_vars
    <2>1. SUFFICES ASSUME IInv, [Next]_vars,
                          NEW r \in Requests, request[r] = "session", request'[r] = "user"
                   PROVE  ~LoggedOut(cookie[r])
      BY DEF NotLoggedOut
    <2>2. Valid(cookie[r])
      BY <2>1, LetInByValidation DEF ValidateSession
    <2> QED
      BY <2>1, <2>2, NoSessionAssumption DEF Valid, LoggedOut, IInv, LoggedOutIsClosed, Closed
  <1> QED
    BY Inductive, <1>1, PTL DEF Spec, LetInBeforeLogout

\* Once made, a session is only ever closed: whatever logins, logouts, deleted
\* users and lost answers come together, it is not opened again and keeps its
\* user and its times.
THEOREM SessionsStayClosed == Spec => SessionsOnlyClose
  <1>1. ASSUME IInv, [Next]_vars, NEW s \in Logins, sessions[s] # "none"
        PROVE  OnlyCloses(s)
    <2>1. ASSUME NEW t \in Logins, LoginNext(t)
          PROVE  OnlyCloses(s)
      <3>1. login[s] \notin {"idle", "find", "create"}
        BY <1>1 DEF IInv, SessionMade
      <3>2. s # t
        BY <2>1, <3>1 DEF LoginNext, StartLogin, FindUser, FindUserFails, CreateSession,
                          CreateSessionFails, LoginStep
      <3>3. UNCHANGED <<sessions[s], owner[s], issued[s], expires_at[s]>>
        BY <1>1, <2>1, <3>2 DEF IInv, TypeOK, LoginNext, StartLogin, FindUser, FindUserFails,
                                CreateSession, CreateSessionFails, LoginStep, InsertSession
      <3> QED
        BY <1>1, <3>3 DEF OnlyCloses
    <2>2. ASSUME NEW r \in Requests, RequestNext(r)
          PROVE  OnlyCloses(s)
      <3>1. UNCHANGED loginVars
        BY <2>2 DEF RequestNext, StartRequest, ValidateSession, SessionRefused, GetUser, GetUserFails,
                    HTTPHandlerNoUser, GQLHandlerNoUser, Serve, Logout, LogoutFails, RequestStep
      <3>2. UNCHANGED sessions \/ EndSession(r)
        BY <2>2 DEF RequestNext, StartRequest, ValidateSession, SessionRefused, GetUser, GetUserFails,
                    HTTPHandlerNoUser, GQLHandlerNoUser, Serve, Logout, LogoutFails
      <3> QED
        BY <1>1, <3>1, <3>2 DEF OnlyCloses, EndSession, IInv, TypeOK, loginVars
    <2>3. CASE \/ Tick \/ UNCHANGED vars
               \/ \E i \in Registers : RegisterNext(i) \/ DeleteUser(i)
      <3>1. UNCHANGED <<sessions, owner, issued, expires_at>>
        BY <2>3 DEF vars, loginVars, Tick, RegisterNext, StartRegister, GetByEmail, GetByEmailFails,
                    CreateUser, CreateUserFails, RegisterStep, DeleteUser
      <3> QED
        BY <1>1, <3>1 DEF OnlyCloses
    <2> QED
      BY <1>1, <2>1, <2>2, <2>3 DEF Next
  <1>2. IInv /\ [Next]_vars => [\A s \in Logins : OnlyCloses(s)]_vars
    BY <1>1 DEF OnlyCloses
  <1> QED
    BY Inductive, <1>2, PTL DEF Spec, SessionsOnlyClose
=============================================================================
