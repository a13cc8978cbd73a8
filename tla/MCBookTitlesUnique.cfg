SPECIFICATION FairSpec
CONSTANTS
    Inserts = {i1, i2, i3}
    Users = {u1, u2}
    Typed <- MCTyped
INVARIANT UniqueTitles

CHECK_DEADLOCK FALSE
