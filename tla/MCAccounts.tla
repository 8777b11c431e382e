----------------------------- MODULE MCAccounts -----------------------------
EXTENDS Accounts, TLC

CONSTANT FirstLink

\* Tokens are numbers; they and the links are taken in order.
Symmetry == Permutations(User) \cup Permutations(Device) \cup Permutations(Request)

SessionClient == {"login", "refresh", "logout", "logoutAll", "expire"}
AccountClient == {"register", "createUserByAdmin", "deleteUser", "refresh"}
ResetClient == {"requestReset", "resetPassword", "deleteUser", "createUserByAdmin"}
Serving(calls, state, users) ==
  [client |-> calls, account |-> [u \in User |-> IF u \in users THEN state ELSE "none"]]
MCProfiles ==
  {Serving(SessionClient, "live", {u}) : u \in User}
    \cup {Serving({"login", "refresh", "logoutAll"}, "live", User)}
    \cup {Serving(AccountClient, "none", User)}
    \cup {Serving(ResetClient, "live", {u}) : u \in User}

InOrder ==
  /\ \A k \in Token : token'[k].state # "none" =>
       \A j \in Token : j < k => token'[j].state # "none"
  /\ sent' # {} => FirstLink \in sent'

\* Where accounts are opened, one address is.
OneAddress ==
  "register" \in client =>
    Cardinality({u \in User : account'[u] # "none" \/ \E r \in Request : req'[r].user = u}) <= 1

MCNext == Next /\ InOrder /\ OneAddress
MCSpec == Init /\ [][MCNext]_vars
=============================================================================
