------------------------------ MODULE Accounts ------------------------------
(***************************************************************************)
(* Accounts, sessions and the authentication of requests: the tables users *)
(* and sessions, Register and Login (REST and GraphQL do the same calls),  *)
(* the two authentication middlewares and the two logouts.  REST logout    *)
(* deactivates the session's row, GraphQL logout deletes it.  The calls    *)
(* that change or delete a user are in UserService; here is what a         *)
(* deletion does to the tables.                                            *)
(*                                                                         *)
(* A Register call inserts at most one user and a Login call at most one   *)
(* session, so the calls also name the user ids and the session ids.       *)
(* Nothing activates a session or changes an expiry time.                  *)
(***************************************************************************)
EXTENDS Integers

CONSTANTS
    Registers,  \* Register calls, and user ids
    Logins,     \* Login calls, and session ids
    Requests,   \* authenticated requests
    Emails,
    NoUser,     \* entities.User{}
    NoSession,  \* no cookie, or one that names no session
    LifeTime,   \* Auth.SessionLifeTime
    TZOffset,   \* the server's local time minus UTC
    MaxTime     \* bound: the last instant

ASSUME NoUserAssumption == NoUser \notin Registers
ASSUME NoSessionAssumption == NoSession \notin Logins
ASSUME TimeAssumption == LifeTime \in Nat /\ TZOffset \in Int /\ MaxTime \in Nat

VARIABLES
    now,        \* the clock, an instant
    register,   \* register[i]: where Register call i stands, or its answer
    email,      \* email[i]: the address it registers
    users,      \* the committed rows of table users
    rivals,     \* rivals[i]: the rows there when i began
    login,      \* login[s]: where Login call s stands, or its answer
    address,    \* address[s]: the address it was given
    owner,      \* owner[s]: the user it found; column user_id of the session
    sessions,   \* sessions[s]: "none", "active", "inactive" or "deleted"
    expires_at, \* expires_at[s], as read back from the row
    issued,     \* issued[s]: when the session was made
    request,    \* request[r]: where request r stands, or how it ended
    api,        \* api[r]: "rest" or "gql"
    cookie,     \* cookie[r]: the session it presents
    user,       \* user[r]: the user in its context
    loggedOut   \* loggedOut[r]: a logout of its session had been answered when it began

userVars    == <<register, email, users, rivals>>
loginVars   == <<login, address, owner, issued, expires_at>>
requestVars == <<request, api, cookie, user, loggedOut>>
vars == <<now, userVars, loginVars, sessions, requestVars>>

RequestDone == {"401", "panic", "ok", "loggedOut", "error"}

TypeOK ==
    /\ now \in 0..MaxTime
    /\ register \in [Registers -> {"idle", "check", "create", "ok", "exists", "error"}]
    /\ email \in [Registers -> Emails]
    /\ users \subseteq Registers
    /\ rivals \in [Registers -> SUBSET Registers]
    /\ login \in [Logins -> {"idle", "find", "create", "ok", "ErrInvalidCredentials", "error"}]
    /\ address \in [Logins -> Emails]
    /\ owner \in [Logins -> Registers \cup {NoUser}]
    /\ sessions \in [Logins -> {"none", "active", "inactive", "deleted"}]
    /\ expires_at \in [Logins -> Int]
    /\ issued \in [Logins -> 0..MaxTime]
    /\ request \in [Requests -> {"idle", "session", "user", "handler"} \cup RequestDone]
    /\ api \in [Requests -> {"rest", "gql"}]
    /\ cookie \in [Requests -> Logins \cup {NoSession}]
    /\ user \in [Requests -> Registers \cup {NoUser}]
    /\ loggedOut \in [Requests -> BOOLEAN]

Init ==
    /\ now = 0
    /\ register = [i \in Registers |-> "idle"]
    /\ email \in [Registers -> Emails]
    /\ users = {}
    /\ rivals = [i \in Registers |-> {}]
    /\ login = [s \in Logins |-> "idle"]
    /\ address \in [Logins -> Emails]
    /\ owner = [s \in Logins |-> NoUser]
    /\ sessions = [s \in Logins |-> "none"]
    /\ expires_at = [s \in Logins |-> 0]
    /\ issued = [s \in Logins |-> 0]
    /\ request = [r \in Requests |-> "idle"]
    /\ api \in [Requests -> {"rest", "gql"}]
    /\ cookie \in [Requests -> Logins \cup {NoSession}]
    /\ user = [r \in Requests |-> NoUser]
    /\ loggedOut = [r \in Requests |-> FALSE]

Tick ==
    /\ now < MaxTime
    /\ now' = now + 1
    /\ UNCHANGED <<userVars, loginVars, sessions, requestVars>>

-----------------------------------------------------------------------------
(* Register: look for the address, then insert.                            *)

RegisterStep(i, from, to) ==
    /\ register[i] = from
    /\ register' = [register EXCEPT ![i] = to]
    /\ UNCHANGED <<now, email, loginVars, sessions, requestVars>>

StartRegister(i) ==
    /\ RegisterStep(i, "idle", "check")
    /\ rivals' = [rivals EXCEPT ![i] = users]
    /\ UNCHANGED users

Taken(e) == \E i \in users : email[i] = e

GetByEmail(i) ==
    /\ RegisterStep(i, "check", IF Taken(email[i]) THEN "exists" ELSE "create")
    /\ UNCHANGED <<users, rivals>>

\* Fault: every error of GetByEmail is taken for ErrUserNotFound.
GetByEmailFailsIgnored(i) ==
    /\ RegisterStep(i, "check", "create")
    /\ UNCHANGED <<users, rivals>>

GetByEmailFails(i) ==
    /\ RegisterStep(i, "check", "error")
    /\ UNCHANGED <<users, rivals>>

CreateUser(i) ==
    /\ RegisterStep(i, "create", "ok")
    /\ users' = users \cup {i}
    /\ UNCHANGED rivals

\* The INSERT fails, or only its answer is lost.
CreateUserFails(i) ==
    /\ RegisterStep(i, "create", "error")
    /\ users' \in {users, users \cup {i}}
    /\ UNCHANGED rivals

-----------------------------------------------------------------------------
(* Login: find a user with the address, compare the password, insert.      *)

LoginStep(s, from, to) ==
    /\ login[s] = from
    /\ login' = [login EXCEPT ![s] = to]
    /\ UNCHANGED <<now, userVars, address, requestVars>>

StartLogin(s) ==
    /\ LoginStep(s, "idle", "find")
    /\ UNCHANGED <<owner, sessions, issued, expires_at>>

\* QueryRow takes the first of the rows with the address, in no given order;
\* the password given is right or wrong for that one.
FindUser(s) ==
    /\ \E i \in users :
          /\ email[i] = address[s]
          /\ owner' = [owner EXCEPT ![s] = i]
    /\ \E to \in {"create", "ErrInvalidCredentials"} : LoginStep(s, "find", to)
    /\ UNCHANGED <<sessions, issued, expires_at>>

\* No row, and any failure of the query, are both answered with
\* ErrInvalidCredentials.
FindUserFails(s) ==
    /\ LoginStep(s, "find", "ErrInvalidCredentials")
    /\ UNCHANGED <<owner, sessions, issued, expires_at>>

\* time.Now is in the server's zone; a TIMESTAMP column keeps its wall clock
\* and drops the zone, and it is read back as UTC.
StoredTime(t) == t + TZOffset

\* sessions.user_id REFERENCES users(id): the user may have been deleted since
\* it was found, and then the INSERT fails.
InsertSession(s) ==
    /\ owner[s] \in users
    /\ sessions' = [sessions EXCEPT ![s] = "active"]
    /\ issued' = [issued EXCEPT ![s] = now]
    /\ expires_at' = [expires_at EXCEPT ![s] = StoredTime(now + LifeTime)]

CreateSession(s) ==
    /\ LoginStep(s, "create", "ok")
    /\ InsertSession(s)
    /\ UNCHANGED owner

CreateSessionFails(s) ==
    /\ LoginStep(s, "create", "error")
    /\ InsertSession(s) \/ UNCHANGED <<sessions, issued, expires_at>>
    /\ UNCHANGED owner

-----------------------------------------------------------------------------
(* A request: its middleware reads the session and then the user, and the  *)
(* handler runs with what the middleware put into the context.             *)

RequestStep(r, from, to) ==
    /\ request[r] = from
    /\ request' = [request EXCEPT ![r] = to]
    /\ UNCHANGED <<now, userVars, loginVars, api, cookie>>

LoggedOut(s) == \E r \in Requests : request[r] = "loggedOut" /\ cookie[r] = s

\* A client presents a session only after Login has answered with it.
StartRequest(r) ==
    /\ cookie[r] # NoSession => login[cookie[r]] = "ok"
    /\ RequestStep(r, "idle", "session")
    /\ loggedOut' = [loggedOut EXCEPT ![r] = LoggedOut(cookie[r])]
    /\ UNCHANGED <<sessions, user>>

\* Fault: is_active is not looked at.
ValidIfInactive(s) == s \in Logins /\ sessions[s] \in {"active", "inactive"} /\ ~(expires_at[s] < now)

\* Fault: expires_at is not looked at.
ValidForEver(s) == s \in Logins /\ sessions[s] = "active"

\* ValidateSession accepts the row of session s.
Valid(s) == s \in Logins /\ sessions[s] = "active" /\ ~(expires_at[s] < now)

ValidateSession(r) ==
    /\ RequestStep(r, "session", "user")
    /\ Valid(cookie[r])
    /\ UNCHANGED <<sessions, user, loggedOut>>

\* The session is missing, inactive or expired, or its query failed: REST
\* answers 401.  The GraphQL middleware passes the request on without a
\* session, and the @Auth directive panics in GetSessionIDOrPanic.
SessionRefused(r) ==
    /\ RequestStep(r, "session", IF api[r] = "rest" THEN "401" ELSE "panic")
    /\ UNCHANGED <<sessions, user, loggedOut>>

GetUser(r) ==
    /\ RequestStep(r, "user", "handler")
    /\ owner[cookie[r]] \in users
    /\ user' = [user EXCEPT ![r] = owner[cookie[r]]]
    /\ UNCHANGED <<sessions, loggedOut>>

\* Fault: the middleware goes on without a user, as the GraphQL one does.
HTTPHandlerGoesOn(r) == api[r] = "rest" /\ RequestStep(r, "user", "handler")

HTTPHandlerNoUser(r) == api[r] = "rest" /\ RequestStep(r, "user", "401")

\* The GraphQL middleware writes "unauthorized" and returns only when that
\* fails; otherwise the request goes on with the zero user.
GQLHandlerNoUser(r) ==
    /\ api[r] = "gql"
    /\ \E to \in {"401", "handler"} : RequestStep(r, "user", to)

GetUserFails(r) ==
    /\ HTTPHandlerNoUser(r) \/ GQLHandlerNoUser(r)
    /\ UNCHANGED <<sessions, user, loggedOut>>

Serve(r) ==
    /\ \E to \in {"ok", "error"} : RequestStep(r, "handler", to)
    /\ UNCHANGED <<sessions, user, loggedOut>>

\* REST: UPDATE ... SET is_active = false; no row is no error.
\* GraphQL: DELETE FROM sessions.
EndSession(r) ==
    sessions' = [sessions EXCEPT ![cookie[r]] =
                    IF api[r] = "gql" \/ @ = "deleted" THEN "deleted" ELSE "inactive"]

Logout(r) ==
    /\ RequestStep(r, "handler", "loggedOut")
    /\ EndSession(r)
    /\ UNCHANGED <<user, loggedOut>>

\* The statement fails, or only its answer is lost.
LogoutFails(r) ==
    /\ RequestStep(r, "handler", "error")
    /\ EndSession(r) \/ UNCHANGED sessions
    /\ UNCHANGED <<user, loggedOut>>

-----------------------------------------------------------------------------
(* A user is deleted.                                                      *)

\* Fault: the sessions of the user do not matter.
DeleteUserUnchecked(i) ==
    /\ i \in users
    /\ users' = users \ {i}
    /\ UNCHANGED <<now, register, email, rivals, loginVars, sessions, requestVars>>

\* DELETE FROM users: the foreign key forbids it while a session's row refers
\* to the user, an inactive or expired one too.
DeleteUser(i) ==
    /\ i \in users
    /\ \A s \in Logins : sessions[s] \in {"active", "inactive"} => owner[s] # i
    /\ users' = users \ {i}
    /\ UNCHANGED <<now, register, email, rivals, loginVars, sessions, requestVars>>

-----------------------------------------------------------------------------
RegisterNext(i) ==
    \/ StartRegister(i) \/ GetByEmail(i) \/ GetByEmailFails(i)
    \/ CreateUser(i) \/ CreateUserFails(i)

LoginNext(s) ==
    \/ StartLogin(s) \/ FindUser(s) \/ FindUserFails(s)
    \/ CreateSession(s) \/ CreateSessionFails(s)

RequestNext(r) ==
    \/ StartRequest(r) \/ ValidateSession(r) \/ SessionRefused(r)
    \/ GetUser(r) \/ GetUserFails(r)
    \/ Serve(r) \/ Logout(r) \/ LogoutFails(r)

Next ==
    \/ Tick
    \/ \E i \in Registers : RegisterNext(i) \/ DeleteUser(i)
    \/ \E s \in Logins : LoginNext(s)
    \/ \E r \in Requests : RequestNext(r)

Spec == Init /\ [][Next]_vars
-----------------------------------------------------------------------------
(* Properties.                                                             *)

\* A request that begins after a logout of its session was answered never
\* reaches a handler, whichever of the two APIs logged out and however many
\* requests were under way with the session.
LogoutIsFinal ==
    \A r \in Requests : loggedOut[r] => request[r] \notin {"user", "handler", "ok", "loggedOut", "error"}

\* A REST handler runs as the user its session belongs to, and that is a user
\* with the address given at login; the user can be deleted under a handler
\* only after a GraphQL logout has deleted the session's row.
ServedAsOwner ==
    \A r \in Requests :
        request[r] = "handler" /\ api[r] = "rest" =>
            /\ user[r] = owner[cookie[r]]
            /\ user[r] \in users \/ sessions[cookie[r]] = "deleted"
            /\ email[user[r]] = address[cookie[r]]

\* Two accounts share an address only when neither was there when the other's
\* registration began: it takes two Register calls that overlap.
SharedEmailNeedsOverlap ==
    \A i, j \in users : i # j /\ email[i] = email[j] => i \notin rivals[j] /\ j \notin rivals[i]

\* A step that lets a request in.
LetIn ==
    \A r \in Requests :
        request[r] = "session" /\ request'[r] = "user" =>
            now <= issued[cookie[r]] + LifeTime + TZOffset

\* A request is let in only within the session's life time, shifted by the
\* server's offset from UTC.
LetInInTime == [][LetIn]_vars

\* An @Auth resolver runs with the user its session belongs to: what the
\* "unauthorized" answer of the GraphQL middleware is there for.
GQLServedAsOwner ==
    \A r \in Requests :
        request[r] = "handler" /\ api[r] = "gql" => user[r] = owner[cookie[r]]

\* What is true of both APIs: a handler runs as the user its session belongs
\* to or, behind the GraphQL middleware, as the zero user; never as another.
NeverServedAsAnother ==
    \A r \in Requests :
        request[r] = "handler" =>
            \/ api[r] = "gql" /\ user[r] = NoUser
            \/ /\ user[r] = owner[cookie[r]]
               /\ user[r] \in users \/ sessions[cookie[r]] = "deleted"
               /\ email[user[r]] = address[cookie[r]]

\* A step that lets a request in without a logout of its session answered yet,
\* whether the request began before the logout or after it.
NotLoggedOut ==
    \A r \in Requests : request[r] = "session" /\ request'[r] = "user" => ~LoggedOut(cookie[r])

\* The answer of a logout shuts out the requests under way, too, as far as the
\* SELECT of ValidateSession has not read their session: what the middleware
\* does with the row read it does in the same step.
LetInBeforeLogout == [][NotLoggedOut]_vars

\* What a step may do to session s once it is made: close it, and no more.  It
\* is never opened again, and keeps its user and its times.
OnlyCloses(s) ==
    sessions[s] # "none" =>
        /\ sessions'[s] = "active" => sessions[s] = "active"
        /\ sessions[s] = "deleted" => sessions'[s] = "deleted"
        /\ sessions'[s] # "none"
        /\ UNCHANGED <<owner[s], issued[s], expires_at[s]>>

SessionsOnlyClose == [][\A s \in Logins : OnlyCloses(s)]_vars
-----------------------------------------------------------------------------
(* Why they hold: an inductive invariant, in parts.                        *)

\* A session is presented only after its Login answered, and a request past
\* its middleware presents one.
CookieKnown ==
    \A r \in Requests :
        /\ request[r] # "idle" /\ cookie[r] # NoSession => login[cookie[r]] = "ok"
        /\ request[r] \in {"user", "handler", "loggedOut"} => cookie[r] # NoSession

\* A session that a logout was answered for is closed.
Closed(s) == s # NoSession => sessions[s] \in {"inactive", "deleted"}

LoggedOutIsClosed ==
    \A r \in Requests : request[r] = "loggedOut" \/ loggedOut[r] => Closed(cookie[r])

\* Until its INSERT a session does not exist; then it belongs to a user with
\* the address given at login, who is there as long as the session's row is.
SessionMade ==
    \A s \in Logins :
        /\ login[s] \in {"idle", "find"} => sessions[s] = "none"
        /\ login[s] = "ok" => sessions[s] # "none"
        /\ login[s] = "create" \/ sessions[s] # "none" =>
              owner[s] \in Registers /\ email[owner[s]] = address[s]
        /\ sessions[s] \in {"active", "inactive"} => owner[s] \in users
        /\ login[s] = "create" => sessions[s] = "none"
        /\ sessions[s] # "none" => expires_at[s] = StoredTime(issued[s] + LifeTime)

\* A user whose address was found free has no rival with the same address.
FreeWhenFound ==
    \A i \in Registers :
        /\ \A j \in rivals[i] : register[j] \in {"ok", "error"}
        /\ i \in users => register[i] \in {"ok", "error"}
        /\ register[i] = "create" \/ i \in users =>
              \A j \in rivals[i] \cap users : email[j] # email[i]

\* No user is in the context of a request before its middleware found one.
NoUserYet == \A r \in Requests : request[r] \in {"idle", "session", "user"} => user[r] = NoUser

HandlersInv == NoUserYet /\ NeverServedAsAnother

IInv ==
    /\ TypeOK
    /\ CookieKnown
    /\ LoggedOutIsClosed
    /\ SessionMade
    /\ FreeWhenFound
    /\ LogoutIsFinal
    /\ ServedAsOwner
=============================================================================
