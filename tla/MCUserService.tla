--------------------------- MODULE MCUserService ---------------------------
(* Small instances of UserService for TLC.                                 *)
EXTENDS UserService, FiniteSets, TLC

CONSTANT MaxBegun   \* bound: how many registrations, logins, requests and calls begin

WestOfUTC == -1

Begun == Cardinality({i \in Registers : register[i] # "idle"})
       + Cardinality({s \in Logins : login[s] # "idle"})
       + Cardinality({r \in Requests : request[r] # "idle"})
       + Cardinality({c \in Calls : call[c] # "idle"})

FewBegun == Begun + now <= MaxBegun

Symmetry == Permutations(Registers) \cup Permutations(Logins) \cup Permutations(Requests)
            \cup Permutations(Calls) \cup Permutations(Passwords)
=============================================================================
