SPECIFICATION USpec
CONSTANTS
    Registers = {u1, u2}
    Logins = {s1}
    Requests = {r1, r2}
    Emails = {e1}
    NoUser = NoUser
    NoSession = NoSession
    LifeTime = 1
    TZOffset <- WestOfUTC
    MaxTime = 1
    Calls = {c1, c2}
    Passwords = {p1, p2}
    MaxBegun = 4
SYMMETRY Symmetry
CONSTRAINT FewBegun
INVARIANTS UTypeOK LogoutIsFinal ServedAsOwner SharedEmailNeedsOverlap
    AnsweredChangeStands OldPasswordIsOut DeactivationStands
PROPERTIES LetInInTime LetInBeforeLogout
CHECK_DEADLOCK FALSE
