------------------------------ MODULE Accounts ------------------------------
(***************************************************************************)
(* Accounts, sessions and password resets: the next-state relation and what *)
(* it promises.                                                             *)
(***************************************************************************)
EXTENDS Sessions

TokenRow == [state : {"none", "active", "revoked", "expired"},
             user : User \cup {Null}, session : Token \cup {Null}]
Handler == [op : {"none", "register", "createUserByAdmin", "login", "refresh",
                  "requestReset", "resetPassword"},
            pc : {"idle", "create", "revive", "revoke", "issue", "respond",
                  "sendLink", "writePassword"},
            user : User \cup {Null}, device : Device \cup {Null},
            token : Token \cup {Null}, session : Token \cup {Null},
            link : Link \cup {Null}]

\* What a handler has read when it reaches a step that uses it.
HandlerOK(h) ==
  /\ h.pc # "idle" => h.user \in User
  /\ h.pc \in {"revoke", "respond"} => h.token \in Token
  /\ h.pc \in {"create", "revive", "revoke", "issue", "respond"} => h.device \in Device
  /\ h.pc = "writePassword" => h.link \in Link

\* Types of the tables, the cookies and the handlers' local state.
TypeOK ==
  /\ account \in [User -> {"none", "live", "deleted"}]
  /\ token \in [Token -> TokenRow]
  /\ reset \in [User -> [link : Link \cup {Null}, expired : BOOLEAN]]
  /\ jar \in [Device -> Token \cup {Null}]
  /\ req \in [Request -> Handler]
  /\ \A r \in Request : HandlerOK(req[r])
  /\ forked \in SUBSET Token
  /\ cutOff \in SUBSET Device
  /\ sent \in SUBSET Link
  /\ used \in [Link -> Nat]

Next ==
  \/ \E r \in Request :
       \/ BeginCreateAccount(r) \/ CreateAccount(r) \/ CreateAccountFails(r)
       \/ BeginLogin(r) \/ BeginRefresh(r) \/ RevokeOld(r)
       \/ IssueRefreshToken(r) \/ IssueFails(r) \/ Respond(r)
       \/ BeginResetRequest(r) \/ ResetUserPasswordRequest(r)
       \/ BeginResetPassword(r) \/ ResetUserPassword(r) \/ ResetUserPasswordFails(r)
       \/ Abort(r)
  \/ \E u \in User : DeleteUser(u) \/ LinkExpires(u) \/ \E d \in Device : LogoutAll(u, d)
  \/ \E d \in Device : Logout(d)
  \/ \E k \in Token : TokenExpires(k)

Spec == Init /\ [][Next]_vars

-----------------------------------------------------------------------------
\* refresh: rotation leaves a session one valid token, unless two refreshes of it
\* overlapped (two tabs, a retry), each of which issues one.
OneTokenPerSession ==
  \A s \in Token \ forked : Cardinality({k \in Active : token[k].session = s}) <= 1

\* refresh: the tokens are those of logins and rotations, one to a session.
TokensWellFormed == TypeOK /\ OneTokenPerSession

Over(s) == /\ token[s].state # "none"
           /\ \A k \in Active : token[k].session # s
           /\ ~Refreshing(s)

\* A session is named after the token of its login: what it is, seen from outside.
IsSession(s) == token[s].session = s
Life == INSTANCE SessionLife WITH
  Session <- Token, Person <- User, Nobody <- Null,
  life <- [s \in Token |-> IF ~IsSession(s) THEN "none" ELSE IF Over(s) THEN "over" ELSE "open"],
  holder <- [s \in Token |-> IF IsSession(s) THEN token[s].user ELSE Null]

\* Rotation, logout, expiry and lost responses are the life of a session: it stays with
\* one person, no refresh brings back one that has no valid token and no refresh under
\* way, and no request ends the sessions of two people.
SessionsLive == Life!Spec

\* logoutAll: it ends every session of its user, on every device, but those of which
\* a refresh is under way.
LogoutAllIsTotal ==
  [][\A u \in User : (\E d \in Device : LogoutAll(u, d)) =>
       \A s \in Token : token[s].user = u /\ ~Refreshing(s) => Over(s)']_vars

\* refresh, seen from the browser: its cookie is not a revoked token, unless a
\* refresh of it is under way, a response was lost, or it was logged out.
JarUsable ==
  \A d \in Device \ cutOff :
    jar[d] # Null /\ token[jar[d]].state = "revoked" =>
      \E r \in Request : req[r].op = "refresh" /\ req[r].device = d

\* resetUserPassword: a link changes one password once, however many requests carry it.
LinkUsedOnce == \A l \in Link : used[l] <= 1

\* resetUserPasswordRequest: a link that was sent stands until it is used or has
\* expired, unless another request was read before it was written.
PendingLinkStands ==
  [][\A u \in User : Pending(u) /\ reset'[u].link # reset[u].link =>
       \E r \in Request :
         /\ req[r].user = u /\ req'[r] = Resting
         /\ \/ req[r].op = "resetPassword" /\ req[r].link = reset[u].link
            \/ req[r].op = "requestReset" /\ req[r].link # reset[u].link]_vars

\* resetUserPasswordRequest and resetUserPassword: a link is good once, and until then.
LinksHold == []LinkUsedOnce /\ PendingLinkStands
=============================================================================
