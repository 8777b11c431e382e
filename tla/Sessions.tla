------------------------------ MODULE Sessions ------------------------------
(***************************************************************************)
(* AuthService: accounts, the refresh tokens that carry their sessions, and *)
(* the reset of passwords.                                                  *)
(*                                                                          *)
(* A device is a browser: its cookie jar holds the last refresh token that  *)
(* a response has set, and several of its tabs may call at once.  Responses *)
(* may be lost.  A session is named after the token its login issued.       *)
(***************************************************************************)
EXTENDS Naturals, FiniteSets

CONSTANTS User,      \* registered addresses
          Device,    \* browsers
          Token,     \* refresh tokens ever issued
          Link,      \* password reset links ever sent
          Request,   \* slots for handlers in flight
          Null,      \* SQL NULL, no cookie
          Profiles   \* instances: the accounts there are, and the operations clients call

ASSUME NullIsNothing == Null \notin User \cup Device \cup Token \cup Link
ASSUME ProfilesAssumption ==
  \A p \in Profiles : p.account \in [User -> {"none", "live", "deleted"}]

VARIABLES account,  \* User rows: "none", "live" or "deleted" (deletedAt set)
          token,    \* table RefreshToken
          reset,    \* resetPasswordToken, isResetPasswordRequested and its expiry
          jar,      \* the refresh_token cookie of each device
          req,      \* handlers in flight
          client,   \* operations the clients of this instance call
          forked,   \* history: sessions in which two refreshes overlapped
          cutOff,   \* history: devices whose jar missed a response or was logged out
          sent,     \* history: links sent so far
          used      \* history: how often each link has changed a password

rows == <<account, token, reset>>
history == <<client, forked, cutOff, sent, used>>
vars == <<account, token, reset, jar, req, client, forked, cutOff, sent, used>>

NoToken == [state |-> "none", user |-> Null, session |-> Null]
NoReset == [link |-> Null, expired |-> FALSE]
Pending(u) == reset[u].link # Null /\ ~reset[u].expired
Resting == [op |-> "none", pc |-> "idle", user |-> Null, device |-> Null,
            token |-> Null, session |-> Null, link |-> Null]

Active == {k \in Token : token[k].state = "active"}

At(r, pc) == req[r].pc = pc
Accept(r, handler) ==
  /\ handler.op \in client
  /\ req[r] = Resting
  /\ req' = [req EXCEPT ![r] = handler]
Finish(r) == req' = [req EXCEPT ![r] = Resting]

\* A refresh of session s is under way.
Refreshing(s) == \E r \in Request : req[r].session = s

Init ==
  /\ \E p \in Profiles :
       /\ client = p.client
       /\ account = p.account
  /\ token = [k \in Token |-> NoToken]
  /\ reset = [u \in User |-> NoReset]
  /\ jar = [d \in Device |-> Null]
  /\ req = [r \in Request |-> Resting]
  /\ forked = {}
  /\ cutOff = {}
  /\ sent = {}
  /\ used = [l \in Link |-> 0]

-----------------------------------------------------------------------------
(***************************************************************************)
(* Accounts: register and createUserByAdmin, which revive a deleted one.    *)
(***************************************************************************)
BeginCreateAccount(r) ==
  /\ \E u \in User, op \in {"register", "createUserByAdmin"}, d \in Device :
       /\ account[u] # "live"
       /\ Accept(r, [Resting EXCEPT
            !.op = op, !.user = u, !.device = d,
            !.pc = IF account[u] = "none" THEN "create" ELSE "revive"])
  /\ UNCHANGED <<rows, jar, history>>

\* register goes on to open a session.
AccountWritten(r) ==
  IF req[r].op = "register" THEN req' = [req EXCEPT ![r].pc = "issue"] ELSE Finish(r)

CreateAccount(r) ==
  /\ \/ At(r, "create") /\ account[req[r].user] = "none"
     \/ At(r, "revive")
  /\ account' = [account EXCEPT ![req[r].user] = "live"]
  /\ AccountWritten(r)
  /\ UNCHANGED <<token, reset, jar, history>>

\* The address is unique.
CreateAccountFails(r) ==
  /\ At(r, "create")
  /\ account[req[r].user] # "none"
  /\ Finish(r)
  /\ UNCHANGED <<rows, jar, history>>

\* What deleteUser does to the account: its tokens stay.
DeleteUser(u) ==
  /\ "deleteUser" \in client
  /\ account[u] = "live"
  /\ account' = [account EXCEPT ![u] = "deleted"]
  /\ UNCHANGED <<token, reset, jar, req, history>>

-----------------------------------------------------------------------------
(***************************************************************************)
(* Sessions: login, refresh with rotation, logout, logoutAll.               *)
(***************************************************************************)
BeginLogin(r) ==
  /\ \E u \in User, d \in Device :
       /\ account[u] = "live"
       /\ Accept(r, [Resting EXCEPT !.op = "login", !.pc = "issue",
                                    !.user = u, !.device = d])
  /\ UNCHANGED <<rows, jar, history>>

\* A token that refresh accepts.  Expiry is a step of its own.
Usable_Revoked(k) == token[k].state # "none" /\ account[token[k].user] = "live"
Usable(k) == token[k].state = "active" /\ account[token[k].user] = "live"

BeginRefresh(r) ==
  /\ \E d \in Device :
       /\ jar[d] # Null
       /\ Usable(jar[d])
       /\ Accept(r, [Resting EXCEPT
            !.op = "refresh", !.pc = "revoke", !.device = d, !.token = jar[d],
            !.user = token[jar[d]].user, !.session = token[jar[d]].session])
  /\ UNCHANGED <<rows, jar, history>>

\* The update is unconditional: it succeeds on a token revoked meanwhile.
Rotated_Kept(k) == token
Rotated_Session(k) == [x \in Token |->
  IF token[x].session = token[k].session THEN [token[x] EXCEPT !.state = "revoked"] ELSE token[x]]
Rotated(k) == [token EXCEPT ![k].state = "revoked"]

RevokeOld(r) ==
  LET h == req[r] IN
  /\ At(r, "revoke")
  /\ token' = Rotated(h.token)
  /\ forked' = IF h.token \in Active THEN forked ELSE forked \cup {h.session}
  /\ req' = [req EXCEPT ![r].pc = "issue"]
  /\ UNCHANGED <<account, reset, jar, client, cutOff, sent, used>>

IssueRefreshToken(r) ==
  LET h == req[r] IN
  /\ At(r, "issue")
  /\ \E k \in Token :
       /\ token[k].state = "none"
       /\ token' = [token EXCEPT ![k] =
            [state |-> "active", user |-> h.user,
             session |-> IF h.session = Null THEN k ELSE h.session]]
       /\ req' = [req EXCEPT ![r].pc = "respond", ![r].token = k]
  /\ UNCHANGED <<account, reset, jar, history>>

\* The bound Token is used up, as an insert may fail.
IssueFails(r) ==
  /\ At(r, "issue")
  /\ \A k \in Token : token[k].state # "none"
  /\ Finish(r)
  /\ cutOff' = cutOff \cup {req[r].device}
  /\ UNCHANGED <<rows, jar, client, forked, sent, used>>

\* The response sets the cookie.
Respond(r) ==
  /\ At(r, "respond")
  /\ jar' = [jar EXCEPT ![req[r].device] = req[r].token]
  /\ cutOff' = IF \A q \in Request \ {r} : req[q].device # req[r].device
               THEN cutOff \ {d \in Device : d = req[r].device /\ req[r].token \in Active}
               ELSE cutOff
  /\ Finish(r)
  /\ UNCHANGED <<rows, client, forked, sent, used>>

\* A handler fails, or its response is lost.  The browser keeps the cookie it has.
Abort(r) ==
  /\ req[r] # Resting
  /\ Finish(r)
  /\ cutOff' = IF req[r].device = Null THEN cutOff ELSE cutOff \cup {req[r].device}
  /\ UNCHANGED <<rows, jar, client, forked, sent, used>>

\* Revokes the active tokens among K: one updateMany.
Revoke(K) == token' = [k \in Token |->
  IF k \in K \cap Active THEN [token[k] EXCEPT !.state = "revoked"] ELSE token[k]]

\* The response clears the cookie of d, unless it is lost.
ClearCookie(d) == jar' \in {jar, [jar EXCEPT ![d] = Null]}

Logout(d) ==
  /\ "logout" \in client
  /\ jar[d] # Null
  /\ Revoke({jar[d]})
  /\ ClearCookie(d)
  /\ cutOff' = cutOff \cup {d}
  /\ UNCHANGED <<account, reset, req, client, forked, sent, used>>

\* What logoutAll of user u revokes, called from device d.
TokensOf_Jar(u, d) == {jar[d]}
TokensOf(u, d) == {k \in Token : token[k].user = u}

\* The access token names the caller.
LogoutAll(u, d) ==
  /\ "logoutAll" \in client
  /\ account[u] # "none"
  /\ Revoke(TokensOf(u, d))
  /\ ClearCookie(d)
  /\ cutOff' = cutOff \cup {d} \cup {x \in Device :
       \/ jar[x] # Null /\ token[jar[x]].user = u
       \/ \E r \in Request : req[r].device = x /\ req[r].user = u}
  /\ UNCHANGED <<account, reset, req, client, forked, sent, used>>

\* Seven days are over for a token, an hour for a link.
TokenExpires(k) ==
  /\ "expire" \in client
  /\ k \in Active
  /\ token' = [token EXCEPT ![k].state = "expired"]
  /\ UNCHANGED <<account, reset, jar, req, history>>

-----------------------------------------------------------------------------
(***************************************************************************)
(* Forgotten passwords.  The link is stored exactly while                   *)
(* isResetPasswordRequested is true.                                        *)
(***************************************************************************)
\* One link at a time, until it has expired.
MayRequest_Any(u) == account[u] = "live"
MayRequest(u) == account[u] = "live" /\ ~Pending(u)

BeginResetRequest(r) ==
  /\ \E u \in User :
       /\ MayRequest(u)
       /\ Accept(r, [Resting EXCEPT !.op = "requestReset", !.pc = "sendLink",
                                    !.user = u, !.link = reset[u].link])
  /\ UNCHANGED <<rows, jar, history>>

ResetUserPasswordRequest(r) ==
  /\ At(r, "sendLink")
  /\ \E l \in Link :
       /\ l \notin sent
       /\ reset' = [reset EXCEPT ![req[r].user] = [link |-> l, expired |-> FALSE]]
       /\ sent' = sent \cup {l}
  /\ Finish(r)
  /\ UNCHANGED <<account, token, jar, client, forked, cutOff, used>>

LinkExpires(u) ==
  /\ Pending(u)
  /\ reset' = [reset EXCEPT ![u].expired = TRUE]
  /\ UNCHANGED <<account, token, jar, req, history>>

\* Whoever opens the link; the password is hashed before the row is written.
Opens(u) == Pending(u)

BeginResetPassword(r) ==
  /\ \E u \in User :
       /\ Opens(u)
       /\ Accept(r, [Resting EXCEPT !.op = "resetPassword", !.pc = "writePassword",
                                    !.user = u, !.link = reset[u].link])
  /\ UNCHANGED <<rows, jar, history>>

\* The row is updated by its link: one that was used or replaced is found no more.
Redeems(h, u) == reset[u].link = h.link

ResetUserPassword(r) ==
  LET h == req[r] IN
  /\ At(r, "writePassword")
  /\ \E u \in User :
       /\ Redeems(h, u)
       /\ reset' = [reset EXCEPT ![u] = NoReset]
  /\ used' = [used EXCEPT ![h.link] = @ + 1]
  /\ Finish(r)
  /\ UNCHANGED <<account, token, jar, client, forked, cutOff, sent>>

ResetUserPasswordFails(r) ==
  /\ At(r, "writePassword")
  /\ \A u \in User : ~Redeems(req[r], u)
  /\ Finish(r)
  /\ UNCHANGED <<rows, jar, history>>
=============================================================================
