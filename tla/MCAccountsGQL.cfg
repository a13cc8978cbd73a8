SPECIFICATION Spec
CONSTANTS
    Registers = {u1}
    Logins = {s1}
    Requests = {r1}
    Emails = {e1}
    NoUser = NoUser
    NoSession = NoSession
    LifeTime = 1
    TZOffset = 0
    MaxTime = 1
INVARIANT GQLServedAsOwner
CHECK_DEADLOCK FALSE
