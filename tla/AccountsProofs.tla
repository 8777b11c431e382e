--------------------------- MODULE AccountsProofs ---------------------------
(***************************************************************************)
(* Proofs about accounts, sessions and password resets, for any number of   *)
(* users, devices, tokens, links and handlers in flight.                    *)
(***************************************************************************)
EXTENDS Accounts, FiniteSetTheorems, TLAPS

-----------------------------------------------------------------------------
(***************************************************************************)
(* The inductive invariant, part by part.                                   *)
(***************************************************************************)

\* A token that was issued belongs to a session: a token of the same user, issued by the
\* login, and named after itself.
TokensLinked ==
  \A k \in Token :
    IF token[k].state = "none" THEN token[k] = NoToken
    ELSE LET s == token[k].session IN
         /\ token[k].user \in User /\ s \in Token
         /\ token[s].state # "none" /\ IsSession(s) /\ token[s].user = token[k].user

\* A refresh works for the session and the user of the token it was called with.
HandlerLinked(h) ==
  /\ h.op = "refresh" <=> h.session # Null
  /\ h.session # Null =>
       /\ h.pc \in {"revoke", "issue", "respond"}
       /\ IsSession(h.session) /\ token[h.session].user = h.user
  /\ h.pc = "revoke" => h.session # Null /\ token[h.token].session = h.session
  /\ h.pc = "respond" => token[h.token].state # "none" /\ token[h.token].user = h.user

SessionsLinked ==
  /\ TokensLinked
  /\ \A r \in Request : HandlerLinked(req[r])
  /\ \A d \in Device : jar[d] # Null => token[jar[d]].state # "none"

\* Between the two writes of a refresh its session has no valid token, and no other refresh
\* of it is there, unless two overlapped.
RotationInv ==
  \A s \in Token \ forked :
    /\ \A k, l \in Active : token[k].session = s /\ token[l].session = s => k = l
    /\ \A r \in Request : At(r, "issue") /\ req[r].session = s =>
         /\ \A k \in Active : token[k].session # s
         /\ \A q \in Request : At(q, "issue") /\ req[q].session = s => q = r

\* A token is on its way to one device, or in the jar of one, and only that one refreshes it.
JarsApart ==
  /\ \A d, e \in Device : jar[d] # Null /\ jar[d] = jar[e] => d = e
  /\ \A r \in Request : At(r, "respond") =>
       /\ \A d \in Device : jar[d] # req[r].token
       /\ \A q \in Request :
            At(q, "respond") \/ At(q, "revoke") => q = r \/ req[q].token # req[r].token
  /\ \A r \in Request, d \in Device :
       At(r, "revoke") /\ jar[d] = req[r].token => d = req[r].device

\* What is on its way to a device has not been revoked, unless the device is cut off.
JarFresh ==
  \A r \in Request : At(r, "respond") /\ req[r].device \notin cutOff =>
    token[req[r].token].state # "revoked"

JarInv == JarsApart /\ JarUsable /\ JarFresh

\* A link belongs to one user for good; the row that holds it says that it was not used; and
\* a request for a link has read one that has expired since, or none.
LinksInv ==
  /\ \A u \in User : reset[u].link # Null => reset[u].link \in sent /\ used[reset[u].link] = 0
  /\ \A u, v \in User : reset[u].link # Null /\ reset[u].link = reset[v].link => u = v
  /\ \A l \in Link : used[l] <= 1 /\ (l \notin sent => used[l] = 0)
  /\ \A r \in Request : req[r].pc = "sendLink" =>
       /\ req[r].op = "requestReset" /\ req[r].link \in sent \cup {Null}
       /\ \A u \in User : req[r].user = u /\ Pending(u) => reset[u].link # req[r].link
  /\ \A r \in Request : req[r].pc = "writePassword" =>
       /\ req[r].op = "resetPassword" /\ req[r].link \in sent
       /\ \A u \in User : reset[u].link = req[r].link => u = req[r].user

-----------------------------------------------------------------------------
(***************************************************************************)
(* Types.                                                                   *)
(***************************************************************************)
LEMMA InitType == Init => TypeOK
BY ProfilesAssumption
   DEF Init, TypeOK, TokenRow, NoToken, NoReset, Handler, HandlerOK, Resting

\* Putting a well-formed handler in a slot keeps every slot well formed.
HandlersOK == req \in [Request -> Handler] /\ \A r \in Request : HandlerOK(req[r])

LEMMA SlotOK ==
  ASSUME HandlersOK, NEW r \in Request, NEW h \in Handler, HandlerOK(h),
         req' = [req EXCEPT ![r] = h]
  PROVE  HandlersOK'
BY DEF HandlersOK, HandlerOK

LEMMA FinishOK ==
  ASSUME HandlersOK, NEW r \in Request, Finish(r)
  PROVE  HandlersOK'
BY SlotOK DEF Finish, Resting, Handler, HandlerOK

LEMMA AcceptOK ==
  ASSUME HandlersOK, NEW r \in Request, NEW h \in Handler, HandlerOK(h), Accept(r, h)
  PROVE  HandlersOK'
BY SlotOK DEF Accept

Begin(r) ==
  \/ BeginCreateAccount(r) \/ BeginLogin(r) \/ BeginRefresh(r)
  \/ BeginResetRequest(r) \/ BeginResetPassword(r)

LEMMA CreationBegins ==
  ASSUME NEW r, BeginCreateAccount(r)
  PROVE  \E u \in User, op \in {"register", "createUserByAdmin"}, d \in Device,
            pc \in {"create", "revive"} :
           Accept(r, [Resting EXCEPT !.op = op, !.user = u, !.device = d, !.pc = pc])
BY Zenon DEF BeginCreateAccount

LEMMA BeginType ==
  ASSUME TypeOK, SessionsLinked, NEW r \in Request, Begin(r)
  PROVE  TypeOK'
<1> SUFFICES HandlersOK'
  BY DEF Begin, BeginCreateAccount, BeginLogin, BeginRefresh, BeginResetRequest,
         BeginResetPassword, rows, history, TypeOK, HandlersOK
<1> USE DEF TypeOK, HandlersOK
<1>1. ASSUME NEW h \in Handler, HandlerOK(h), Accept(r, h) PROVE HandlersOK'
  BY <1>1, AcceptOK
<1> USE DEF Handler, HandlerOK, Resting
<1>2. CASE BeginCreateAccount(r)
  BY <1>1, <1>2, CreationBegins
<1>3. CASE BeginLogin(r)
  BY <1>1, <1>3 DEF BeginLogin
<1>4. CASE BeginRefresh(r)
  <2>1. PICK d \in Device :
          /\ jar[d] # Null /\ Usable(jar[d])
          /\ Accept(r, [Resting EXCEPT
               !.op = "refresh", !.pc = "revoke", !.device = d, !.token = jar[d],
               !.user = token[jar[d]].user, !.session = token[jar[d]].session])
    BY <1>4 DEF BeginRefresh
  <2>2. jar[d] \in Token /\ token[jar[d]].state # "none"
    BY <2>1 DEF Usable
  <2>3. token[jar[d]].user \in User /\ token[jar[d]].session \in Token
    BY <2>2 DEF SessionsLinked, TokensLinked
  <2> QED BY <1>1, <2>1, <2>2, <2>3
<1>5. CASE BeginResetRequest(r)
  BY <1>1, <1>5 DEF BeginResetRequest
<1>6. CASE BeginResetPassword(r)
  BY <1>1, <1>6 DEF BeginResetPassword, Opens, Pending
<1> QED BY <1>2, <1>3, <1>4, <1>5, <1>6 DEF Begin

LEMMA GotoOK ==
  ASSUME HandlersOK, NEW r \in Request, NEW pc,
         req' = [req EXCEPT ![r] = [req[r] EXCEPT !.pc = pc]],
         \/ pc = "issue" /\ req[r].pc \in {"create", "revive", "revoke"}
  PROVE  HandlersOK'
<1> DEFINE h == [req[r] EXCEPT !.pc = pc]
<1>1. req[r] \in Handler /\ HandlerOK(req[r])
  BY DEF HandlersOK
<1>2. h \in Handler /\ HandlerOK(h)
  BY <1>1 DEF Handler, HandlerOK
<1> QED BY <1>2, SlotOK

\* Steps of handlers.
LEMMA HandlerType ==
  ASSUME TypeOK, SessionsLinked, NEW r \in Request,
         \/ CreateAccount(r) \/ CreateAccountFails(r) \/ RevokeOld(r)
         \/ IssueRefreshToken(r) \/ IssueFails(r) \/ Respond(r)
         \/ ResetUserPasswordRequest(r) \/ ResetUserPassword(r) \/ ResetUserPasswordFails(r)
         \/ Abort(r)
  PROVE  TypeOK'
<1>0. HandlersOK /\ req[r] \in Handler /\ HandlerOK(req[r])
  BY DEF TypeOK, HandlersOK
<1> DEFINE h == req[r]
<1> USE DEF At
<1>1. CASE CreateAccount(r)
  <2>1. account' \in [User -> {"none", "live", "deleted"}]
    BY <1>1 DEF CreateAccount, TypeOK
  <2>2. HandlersOK'
    BY <1>0, <1>1, FinishOK, GotoOK DEF CreateAccount, AccountWritten, HandlersOK
  <2> QED BY <1>1, <2>1, <2>2 DEF CreateAccount, TypeOK, HandlersOK, history
<1>2. CASE CreateAccountFails(r) \/ ResetUserPasswordFails(r)
  BY <1>0, <1>2, FinishOK
     DEF CreateAccountFails, ResetUserPasswordFails, TypeOK, HandlersOK, rows, history
<1>3. CASE RevokeOld(r)
  <2>1. h.token \in Token /\ h.session \in Token
    BY <1>0, <1>3 DEF RevokeOld, HandlerOK, Handler, SessionsLinked, HandlerLinked
  <2>2. HandlersOK'
    BY <1>0, <1>3, GotoOK DEF RevokeOld, HandlersOK
  <2>3. token' \in [Token -> TokenRow]
    BY <1>3 DEF RevokeOld, Rotated, TypeOK, TokenRow
  <2> QED BY <1>3, <2>1, <2>2, <2>3 DEF RevokeOld, TypeOK, HandlersOK
<1>4. CASE IssueRefreshToken(r)
  <2>1. PICK k \in Token :
          /\ token' = [token EXCEPT ![k] =
               [state |-> "active", user |-> h.user,
                session |-> IF h.session = Null THEN k ELSE h.session]]
          /\ req' = [req EXCEPT ![r].pc = "respond", ![r].token = k]
    BY <1>4 DEF IssueRefreshToken
  <2>2. [h EXCEPT !.pc = "respond", !.token = k] \in Handler
        /\ HandlerOK([h EXCEPT !.pc = "respond", !.token = k])
    BY <1>0, <1>4 DEF IssueRefreshToken, Handler, HandlerOK
  <2>3. HandlersOK'
    <3>1. req' = [req EXCEPT ![r] = [h EXCEPT !.pc = "respond", !.token = k]]
      BY <1>0, <2>1 DEF HandlersOK
    <3> QED BY <1>0, <2>2, <3>1, SlotOK
  <2>4. token' \in [Token -> TokenRow]
    BY <1>0, <2>1 DEF TypeOK, TokenRow, Handler
  <2> QED BY <1>4, <2>3, <2>4 DEF IssueRefreshToken, TypeOK, HandlersOK, history
<1>5. CASE IssueFails(r) \/ Abort(r)
  <2>1. HandlersOK'
    BY <1>0, <1>5, FinishOK DEF IssueFails, Abort
  <2>2. cutOff' \in SUBSET Device
    BY <1>0, <1>5 DEF IssueFails, Abort, TypeOK, Handler, HandlerOK
  <2> QED BY <1>5, <2>1, <2>2 DEF IssueFails, Abort, TypeOK, HandlersOK, rows
<1>6. CASE Respond(r)
  <2>1. HandlersOK'
    BY <1>0, <1>6, FinishOK DEF Respond
  <2>2. h.token \in Token
    BY <1>0, <1>6 DEF Respond, HandlerOK
  <2> QED BY <1>6, <2>1, <2>2 DEF Respond, TypeOK, HandlersOK, rows
<1>7. CASE ResetUserPasswordRequest(r)
  <2>1. HandlersOK'
    BY <1>0, <1>7, FinishOK DEF ResetUserPasswordRequest
  <2>2. reset' \in [User -> [link : Link \cup {Null}, expired : BOOLEAN]]
    <3>1. h.user \in User
      BY <1>0, <1>7 DEF ResetUserPasswordRequest, HandlerOK
    <3> QED BY <1>7, <3>1 DEF ResetUserPasswordRequest, TypeOK
  <2> QED BY <1>7, <2>1, <2>2 DEF ResetUserPasswordRequest, TypeOK, HandlersOK
<1>8. CASE ResetUserPassword(r)
  <2>1. HandlersOK'
    BY <1>0, <1>8, FinishOK DEF ResetUserPassword
  <2>2. h.link \in Link
    BY <1>0, <1>8 DEF ResetUserPassword, HandlerOK
  <2>3. reset' \in [User -> [link : Link \cup {Null}, expired : BOOLEAN]]
    BY <1>8 DEF ResetUserPassword, TypeOK, NoReset
  <2> QED BY <1>8, <2>1, <2>2, <2>3 DEF ResetUserPassword, TypeOK, HandlersOK
<1> QED BY <1>1, <1>2, <1>3, <1>4, <1>5, <1>6, <1>7, <1>8

\* The rest of the services, users who leave, and time.
LEMMA OtherType ==
  ASSUME TypeOK,
         \/ \E u \in User : DeleteUser(u) \/ LinkExpires(u) \/ \E d \in Device : LogoutAll(u, d)
         \/ \E d \in Device : Logout(d)
         \/ \E k \in Token : TokenExpires(k)
  PROVE  TypeOK'
<1> USE DEF TypeOK
<1>1. ASSUME NEW K, Revoke(K) PROVE token' \in [Token -> TokenRow]
  BY <1>1 DEF Revoke, TokenRow
<1>2. ASSUME NEW u \in User, DeleteUser(u) PROVE TypeOK'
  BY <1>2 DEF DeleteUser, history
<1>3. ASSUME NEW u \in User, LinkExpires(u) PROVE TypeOK'
  BY <1>3 DEF LinkExpires, history
<1>4. ASSUME NEW u \in User, NEW d \in Device, LogoutAll(u, d) PROVE TypeOK'
  BY <1>1, <1>4 DEF LogoutAll, ClearCookie
<1>5. ASSUME NEW d \in Device, Logout(d) PROVE TypeOK'
  BY <1>1, <1>5 DEF Logout, ClearCookie
<1>6. ASSUME NEW k \in Token, TokenExpires(k) PROVE TypeOK'
  <2>1. token' \in [Token -> TokenRow]
    BY <1>6 DEF TokenExpires, TokenRow
  <2> QED BY <1>6, <2>1 DEF TokenExpires, history
<1> QED BY <1>2, <1>3, <1>4, <1>5, <1>6

LEMMA NextType == TypeOK /\ SessionsLinked /\ [Next]_vars => TypeOK'
<1>1. TypeOK /\ SessionsLinked /\ Next => TypeOK'
  BY BeginType, HandlerType, OtherType DEF Next, Begin
<1>2. TypeOK /\ UNCHANGED vars => TypeOK'
  BY DEF TypeOK, vars
<1> QED BY <1>1, <1>2

-----------------------------------------------------------------------------
(***************************************************************************)
(* Tokens belong to sessions.                                               *)
(***************************************************************************)

\* Tokens that were issued keep their user and their session.
Grows ==
  \A k \in Token : token[k].state # "none" =>
    /\ token'[k].state # "none"
    /\ token'[k].user = token[k].user
    /\ token'[k].session = token[k].session

\* And none is issued, or comes back to validity.
NoneIssued ==
  /\ Grows
  /\ \A k \in Token : /\ token[k].state = "none" => token'[k] = token[k]
                      /\ token'[k].state = "active" => token[k].state = "active"

LEMMA TokenStep ==
  ASSUME TypeOK, SessionsLinked, [Next]_vars
  PROVE  NoneIssued \/ \E r \in Request : IssueRefreshToken(r)
<1> USE DEF NoneIssued, Grows, TypeOK, TokenRow
<1>1. ASSUME UNCHANGED token PROVE NoneIssued
  BY <1>1
<1>2. ASSUME NEW K, Revoke(K) PROVE NoneIssued
  BY <1>2 DEF Revoke, Active
<1>3. ASSUME NEW r \in Request, RevokeOld(r) PROVE NoneIssued
  <2>1. req[r].token \in Token
    BY <1>3 DEF RevokeOld, At, HandlerOK
  <2>2. req[r].session # Null /\ token[req[r].token].session = req[r].session
    BY <1>3 DEF RevokeOld, At, SessionsLinked, HandlerLinked
  <2>3. token[req[r].token].state # "none"
    BY <2>1, <2>2 DEF SessionsLinked, TokensLinked, NoToken
  <2> QED BY <1>3, <2>1, <2>3 DEF RevokeOld, Rotated
<1>4. ASSUME NEW k \in Token, TokenExpires(k) PROVE NoneIssued
  BY <1>4 DEF TokenExpires, Active
<1>5. ASSUME NEW r \in Request,
             \/ Begin(r) \/ CreateAccount(r) \/ CreateAccountFails(r)
             \/ IssueFails(r) \/ Respond(r) \/ ResetUserPasswordRequest(r)
             \/ ResetUserPassword(r) \/ ResetUserPasswordFails(r) \/ Abort(r)
      PROVE  UNCHANGED token
  BY <1>5 DEF Begin, BeginCreateAccount, BeginLogin, BeginRefresh, BeginResetRequest,
              BeginResetPassword, CreateAccount, CreateAccountFails, IssueFails, Respond,
              ResetUserPasswordRequest, ResetUserPassword, ResetUserPasswordFails, Abort, rows
<1>6. ASSUME NEW u \in User, DeleteUser(u) \/ LinkExpires(u) PROVE UNCHANGED token
  BY <1>6 DEF DeleteUser, LinkExpires
<1>7. ASSUME NEW u \in User, NEW d \in Device, LogoutAll(u, d) PROVE NoneIssued
  BY <1>2, <1>7 DEF LogoutAll, ClearCookie
<1>8. ASSUME NEW d \in Device, Logout(d) PROVE NoneIssued
  BY <1>2, <1>8 DEF Logout, ClearCookie
<1>9. CASE UNCHANGED vars
  BY <1>1, <1>9 DEF vars
<1> HIDE DEF NoneIssued, Grows, TypeOK, TokenRow
<1> QED BY <1>1, <1>3, <1>4, <1>5, <1>6, <1>7, <1>8, <1>9 DEF Next, Begin

\* What a login issues names itself, what a refresh issues goes on with its session.
Issues(r, k) ==
  /\ At(r, "issue")
  /\ token[k].state = "none"
  /\ token' = [token EXCEPT ![k] =
       [state |-> "active", user |-> req[r].user,
        session |-> IF req[r].session = Null THEN k ELSE req[r].session]]
  /\ req' = [req EXCEPT ![r].pc = "respond", ![r].token = k]
  /\ UNCHANGED <<account, reset, jar, history>>

LEMMA IssueIssues ==
  ASSUME NEW r \in Request, IssueRefreshToken(r)
  PROVE  \E k \in Token : Issues(r, k)
BY DEF IssueRefreshToken, Issues

LEMMA IssuesGrows ==
  ASSUME TypeOK, NEW r \in Request, NEW k \in Token, Issues(r, k)
  PROVE  Grows
BY DEF TypeOK, Issues, Grows

LEMMA IssuesLinked ==
  ASSUME TypeOK, SessionsLinked, TypeOK', NEW r \in Request, NEW k \in Token, Issues(r, k)
  PROVE  TokensLinked' /\ HandlerLinked(req[r])'
<1> DEFINE h == req[r]
           n == [state |-> "active", user |-> h.user,
                 session |-> IF h.session = Null THEN k ELSE h.session]
<1>1. h \in Handler /\ h.user \in User /\ h.pc = "issue" /\ HandlerLinked(h)
  BY DEF TypeOK, Issues, At, HandlerOK, SessionsLinked
<1>2. token[k] = NoToken
  BY DEF SessionsLinked, TokensLinked, Issues
<1>3. token'[k] = n /\ \A x \in Token \ {k} : token'[x] = token[x]
  BY DEF Issues, TypeOK
<1>4. CASE h.session = Null
  <2>1. TokensLinked'
    <3> SUFFICES ASSUME NEW x \in Token, token'[x].state # "none"
                 PROVE  LET s == token'[x].session IN
                        /\ token'[x].user \in User /\ s \in Token
                        /\ token'[s].state # "none" /\ token'[s].session = s
                        /\ token'[s].user = token'[x].user
      BY <1>2, <1>3 DEF TokensLinked, IsSession, SessionsLinked
    <3>1. CASE x = k
      BY <1>1, <1>3, <1>4, <3>1
    <3>2. CASE x # k
      <4>1. token[x].session # k
        BY <1>2, <1>3, <3>2 DEF SessionsLinked, TokensLinked, NoToken
      <4> QED BY <1>3, <3>2, <4>1 DEF SessionsLinked, TokensLinked, IsSession
    <3> QED BY <3>1, <3>2
  <2>2. HandlerLinked(req[r])'
    BY <1>1, <1>3, <1>4 DEF HandlerLinked, Issues, TypeOK
  <2> QED BY <2>1, <2>2
<1>5. CASE h.session # Null
  <2>1. h.session \in Token /\ IsSession(h.session) /\ token[h.session].user = h.user
    BY <1>1, <1>5 DEF HandlerLinked, Handler
  <2>2. h.session # k /\ token[h.session].state # "none"
    BY <1>2, <2>1, NullIsNothing DEF IsSession, NoToken, SessionsLinked, TokensLinked
  <2>3. TokensLinked'
    <3> SUFFICES ASSUME NEW x \in Token, token'[x].state # "none"
                 PROVE  LET s == token'[x].session IN
                        /\ token'[x].user \in User /\ s \in Token
                        /\ token'[s].state # "none" /\ token'[s].session = s
                        /\ token'[s].user = token'[x].user
      BY <1>2, <1>3 DEF TokensLinked, IsSession, SessionsLinked
    <3>1. CASE x = k
      BY <1>1, <1>3, <1>5, <2>1, <2>2, <3>1 DEF IsSession
    <3>2. CASE x # k
      <4>1. token[x].session # k
        BY <1>2, <1>3, <3>2 DEF SessionsLinked, TokensLinked, NoToken
      <4> QED BY <1>3, <3>2, <4>1 DEF SessionsLinked, TokensLinked, IsSession
    <3> QED BY <3>1, <3>2
  <2>4. HandlerLinked(req[r])'
    BY <1>1, <1>3, <1>5, <2>1, <2>2 DEF HandlerLinked, Issues, TypeOK, IsSession
  <2> QED BY <2>3, <2>4
<1> QED BY <1>4, <1>5

LEMMA NoneIssuedLinked ==
  ASSUME TypeOK, SessionsLinked, NoneIssued
  PROVE  TokensLinked'
BY DEF SessionsLinked, TokensLinked, NoneIssued, Grows, IsSession, NoToken

LEMMA HandlerLinkedKept ==
  ASSUME TypeOK, SessionsLinked, Grows, NEW h \in Handler, HandlerOK(h), HandlerLinked(h)
  PROVE  HandlerLinked(h)'
<1>1. \A s \in Token : token[s].session # Null => token[s].state # "none"
  BY DEF SessionsLinked, TokensLinked, NoToken
<1> QED BY <1>1, NullIsNothing DEF HandlerLinked, HandlerOK, Handler, Grows, IsSession

\* What a step does to the slots: at most one changes.
LEMMA SlotStep ==
  ASSUME TypeOK, [Next]_vars
  PROVE  \/ UNCHANGED req
         \/ \E r \in Request :
              /\ \A q \in Request \ {r} : req'[q] = req[q]
              /\ \/ req'[r] = Resting
                 \/ req[r] = Resting /\ Begin(r)
                 \/ CreateAccount(r) /\ req'[r] = [req[r] EXCEPT !.pc = "issue"]
                 \/ RevokeOld(r) /\ req'[r] = [req[r] EXCEPT !.pc = "issue"]
                 \/ \E k \in Token : Issues(r, k)
<1> DEFINE P(r) ==
      /\ \A q \in Request \ {r} : req'[q] = req[q]
      /\ \/ req'[r] = Resting
         \/ req[r] = Resting /\ Begin(r)
         \/ CreateAccount(r) /\ req'[r] = [req[r] EXCEPT !.pc = "issue"]
         \/ RevokeOld(r) /\ req'[r] = [req[r] EXCEPT !.pc = "issue"]
         \/ \E k \in Token : Issues(r, k)
<1> USE DEF TypeOK
<1>1. ASSUME NEW r \in Request, Finish(r) PROVE P(r)
  BY <1>1 DEF Finish
<1>2. ASSUME NEW r \in Request, NEW h, Accept(r, h), Begin(r) PROVE P(r)
  BY <1>2 DEF Accept
<1>3. ASSUME NEW r \in Request, Begin(r) PROVE P(r)
  <2>1. \E h : Accept(r, h)
    BY <1>3 DEF Begin, BeginCreateAccount, BeginLogin, BeginRefresh, BeginResetRequest,
                BeginResetPassword
  <2> QED BY <1>2, <1>3, <2>1
<1>4. ASSUME NEW r \in Request, CreateAccount(r) PROVE P(r)
  BY <1>1, <1>4 DEF CreateAccount, AccountWritten
<1>5. ASSUME NEW r \in Request, RevokeOld(r) PROVE P(r)
  BY <1>5 DEF RevokeOld
<1>6. ASSUME NEW r \in Request, IssueRefreshToken(r) PROVE P(r)
  BY <1>6 DEF IssueRefreshToken, Issues
<1>7. ASSUME NEW r \in Request,
             \/ CreateAccountFails(r) \/ IssueFails(r) \/ Respond(r)
             \/ ResetUserPasswordRequest(r) \/ ResetUserPassword(r)
             \/ ResetUserPasswordFails(r) \/ Abort(r)
      PROVE  P(r)
  BY <1>1, <1>7 DEF CreateAccountFails, IssueFails, Respond, ResetUserPasswordRequest,
                    ResetUserPassword, ResetUserPasswordFails, Abort
<1>8. ASSUME NEW u \in User, DeleteUser(u) \/ LinkExpires(u) PROVE UNCHANGED req
  BY <1>8 DEF DeleteUser, LinkExpires
<1>9. ASSUME NEW u \in User, NEW d \in Device, LogoutAll(u, d) PROVE UNCHANGED req
  BY <1>9 DEF LogoutAll, ClearCookie
<1>10. ASSUME NEW d \in Device, Logout(d) PROVE UNCHANGED req
  BY <1>10 DEF Logout, ClearCookie
<1>11. ASSUME NEW k \in Token, TokenExpires(k) PROVE UNCHANGED req
  BY <1>11 DEF TokenExpires
<1>12. CASE UNCHANGED vars
  BY <1>12 DEF vars
<1> HIDE DEF P, TypeOK
<1>13. ASSUME Next PROVE (\E r \in Request : P(r)) \/ UNCHANGED req
  BY <1>13, <1>3, <1>4, <1>5, <1>6, <1>7, <1>8, <1>9, <1>10, <1>11 DEF Next, Begin
<1> QED BY <1>12, <1>13 DEF P

\* What a step does to the cookies: a response sets one, a logout clears one.
LEMMA JarStep ==
  ASSUME TypeOK, [Next]_vars
  PROVE  \/ UNCHANGED jar
         \/ \E r \in Request : Respond(r)
         \/ \E d \in Device : jar' = [jar EXCEPT ![d] = Null]
<1>1. ASSUME NEW r \in Request, Next,
             \/ Begin(r) \/ CreateAccount(r) \/ CreateAccountFails(r)
             \/ RevokeOld(r) \/ IssueRefreshToken(r)
             \/ IssueFails(r) \/ ResetUserPasswordRequest(r)
             \/ ResetUserPassword(r) \/ ResetUserPasswordFails(r) \/ Abort(r)
      PROVE  UNCHANGED jar
  BY <1>1 DEF Begin, BeginCreateAccount, BeginLogin, BeginRefresh, BeginResetRequest,
              BeginResetPassword, CreateAccount, CreateAccountFails, IssueFails, RevokeOld,
              IssueRefreshToken, ResetUserPasswordRequest, ResetUserPassword,
              ResetUserPasswordFails, Abort
<1>2. ASSUME NEW u \in User, DeleteUser(u) \/ LinkExpires(u) PROVE UNCHANGED jar
  BY <1>2 DEF DeleteUser, LinkExpires
<1>3. ASSUME NEW u \in User, NEW d \in Device, LogoutAll(u, d)
      PROVE  UNCHANGED jar \/ jar' = [jar EXCEPT ![d] = Null]
  BY <1>3 DEF LogoutAll, ClearCookie
<1>4. ASSUME NEW d \in Device, Logout(d)
      PROVE  UNCHANGED jar \/ jar' = [jar EXCEPT ![d] = Null]
  BY <1>4 DEF Logout, ClearCookie
<1>5. ASSUME NEW k \in Token, TokenExpires(k) PROVE UNCHANGED jar
  BY <1>5 DEF TokenExpires
<1>6. CASE UNCHANGED vars
  BY <1>6 DEF vars
<1> QED BY <1>1, <1>2, <1>3, <1>4, <1>5, <1>6 DEF Next, Begin

LEMMA GrowsStep ==
  ASSUME TypeOK, SessionsLinked, [Next]_vars
  PROVE  Grows
BY TokenStep, IssueIssues, IssuesGrows DEF NoneIssued

LEMMA SessionsLinkedStep ==
  ASSUME TypeOK, SessionsLinked, [Next]_vars
  PROVE  SessionsLinked'
<1>0. TypeOK' /\ \A r \in Request : req[r] \in Handler /\ HandlerOK(req[r])
  BY NextType DEF TypeOK
<1>1. Grows
  BY GrowsStep
<1>2. ASSUME NEW q \in Request, req'[q] = req[q] PROVE HandlerLinked(req[q])'
  <2>1. HandlerLinked(req[q])
    BY DEF SessionsLinked
  <2>2. ASSUME NEW h, h = req[q] PROVE HandlerLinked(h)'
    BY <1>0, <1>1, <2>1, <2>2, HandlerLinkedKept
  <2> QED BY <1>2, <2>2 DEF HandlerLinked, IsSession
<1>3. \A d \in Device : jar'[d] # Null => token'[jar'[d]].state # "none"
  <2>1. ASSUME NEW r \in Request, Respond(r), NEW d \in Device, jar'[d] # Null
        PROVE  token'[jar'[d]].state # "none"
    <3>1. req[r].token \in Token /\ token[req[r].token].state # "none"
      BY <2>1, <1>0 DEF Respond, At, HandlerOK, SessionsLinked, HandlerLinked
    <3> QED BY <1>1, <2>1, <3>1 DEF Respond, TypeOK, SessionsLinked, Grows
  <2>2. ASSUME NEW d \in Device, jar'[d] # Null, jar'[d] = jar[d]
        PROVE  token'[jar'[d]].state # "none"
    BY <1>1, <2>2 DEF SessionsLinked, TypeOK, Grows
  <2> QED BY <2>1, <2>2, JarStep DEF TypeOK
<1>4. TokensLinked' /\ \A r \in Request : HandlerLinked(req[r])'
  <2>1. CASE \E r \in Request, k \in Token : Issues(r, k)
    <3>1. PICK r \in Request, k \in Token : Issues(r, k)
      BY <2>1
    <3>2. \A q \in Request \ {r} : req'[q] = req[q]
      BY <3>1 DEF Issues, TypeOK
    <3> QED BY <1>0, <1>2, <3>1, <3>2, IssuesLinked
  <2>2. CASE NoneIssued
    <3>1. TokensLinked'
      BY <2>2, NoneIssuedLinked
    <3>2. ASSUME NEW r \in Request, req'[r] = Resting PROVE HandlerLinked(req[r])'
      BY <3>2 DEF HandlerLinked, Resting
    <3>3. ASSUME NEW r \in Request, req[r] = Resting, Begin(r) PROVE HandlerLinked(req[r])'
      <4>1. CASE BeginRefresh(r)
        <5>1. PICK d \in Device :
                /\ jar[d] # Null
                /\ req'[r] = [Resting EXCEPT
                     !.op = "refresh", !.pc = "revoke", !.device = d, !.token = jar[d],
                     !.user = token[jar[d]].user, !.session = token[jar[d]].session]
                /\ UNCHANGED token
          BY <4>1 DEF BeginRefresh, Accept, rows, TypeOK
        <5>2. jar[d] \in Token /\ token[jar[d]].state # "none"
          BY <5>1 DEF TypeOK, SessionsLinked
        <5> DEFINE s == token[jar[d]].session
        <5>3. s \in Token /\ token[s].session = s /\ token[s].user = token[jar[d]].user
          BY <5>2 DEF SessionsLinked, TokensLinked, IsSession
        <5> HIDE DEF s
        <5>4. /\ req'[r].op = "refresh" /\ req'[r].pc = "revoke" /\ req'[r].session = s
              /\ req'[r].token = jar[d] /\ req'[r].user = token[jar[d]].user
          BY <5>1 DEF Resting, s
        <5> QED BY <5>1, <5>3, <5>4, NullIsNothing DEF HandlerLinked, IsSession, s
      <4>2. CASE ~BeginRefresh(r)
        <5>1. req'[r].op # "refresh" /\ req'[r].session = Null
              /\ req'[r].pc \notin {"revoke", "respond"}
          <6>1. ASSUME NEW h, Accept(r, h) PROVE req'[r] = h
            BY <6>1 DEF Accept, TypeOK
          <6>2. CASE BeginCreateAccount(r)
            <7>1. PICK u \in User, op \in {"register", "createUserByAdmin"}, d \in Device,
                       pc \in {"create", "revive"} :
                    Accept(r, [Resting EXCEPT !.op = op, !.user = u, !.device = d, !.pc = pc])
              BY <6>2, CreationBegins
            <7> QED BY <6>1, <7>1 DEF Resting
          <6>3. CASE BeginLogin(r)
            BY <6>1, <6>3 DEF BeginLogin, Resting
          <6>4. CASE BeginResetRequest(r)
            BY <6>1, <6>4 DEF BeginResetRequest, Resting
          <6>5. CASE BeginResetPassword(r)
            BY <6>1, <6>5 DEF BeginResetPassword, Resting
          <6> QED BY <3>3, <4>2, <6>2, <6>3, <6>4, <6>5 DEF Begin
        <5> QED BY <5>1 DEF HandlerLinked
      <4> QED BY <4>1, <4>2
    <3>4. ASSUME NEW r \in Request, req'[r] = [req[r] EXCEPT !.pc = "issue"],
                 CreateAccount(r) \/ RevokeOld(r)
          PROVE  HandlerLinked(req[r])'
      <4>1. HandlerLinked(req[r]) /\ req[r] \in Handler /\ HandlerOK(req[r])
        BY <1>0 DEF SessionsLinked
      <4>2. ASSUME NEW h, h = req[r] PROVE HandlerLinked(h)'
        BY <1>0, <1>1, <4>1, <4>2, HandlerLinkedKept
      <4>3. /\ req'[r].op = req[r].op /\ req'[r].pc = "issue"
            /\ req'[r].session = req[r].session /\ req'[r].user = req[r].user
        BY <3>4, <4>1 DEF Handler
      <4> QED BY <4>2, <4>3 DEF HandlerLinked, IsSession
    <3>5. ASSUME NEW r \in Request, NEW k \in Token, Issues(r, k) PROVE FALSE
      BY <2>2, <3>5 DEF Issues, NoneIssued, TypeOK
    <3>6. CASE UNCHANGED req
      <4> SUFFICES ASSUME NEW q \in Request PROVE HandlerLinked(req[q])'
        BY <3>1
      <4> QED BY <1>2, <3>6
    <3>7. CASE ~UNCHANGED req
      <4>1. PICK r \in Request :
              /\ \A q \in Request \ {r} : req'[q] = req[q]
              /\ \/ req'[r] = Resting
                 \/ req[r] = Resting /\ Begin(r)
                 \/ CreateAccount(r) /\ req'[r] = [req[r] EXCEPT !.pc = "issue"]
                 \/ RevokeOld(r) /\ req'[r] = [req[r] EXCEPT !.pc = "issue"]
        BY <3>5, <3>7, SlotStep
      <4>2. HandlerLinked(req[r])'
        BY <3>2, <3>3, <3>4, <4>1
      <4>3. ASSUME NEW q \in Request PROVE HandlerLinked(req[q])'
        BY <1>2, <4>1, <4>2
      <4> QED BY <3>1, <4>3
    <3> QED BY <3>6, <3>7
  <2> QED BY <2>1, <2>2, TokenStep, IssueIssues
<1> QED BY <1>3, <1>4 DEF SessionsLinked

LEMMA InitLinked == Init => SessionsLinked
BY NullIsNothing
   DEF Init, SessionsLinked, TokensLinked, HandlerLinked, NoToken, Resting

LinkedInv == TypeOK /\ SessionsLinked

LEMMA LinkedCorrect == Spec => []LinkedInv
<1>1. Init => LinkedInv
  BY InitType, InitLinked DEF LinkedInv
<1>2. LinkedInv /\ [Next]_vars => LinkedInv'
  BY NextType, SessionsLinkedStep DEF LinkedInv
<1> QED BY <1>1, <1>2, PTL DEF Spec

\* The tables, the cookies and the handlers' local state always have their types.
THEOREM TypeCorrect == Spec => []TypeOK
<1>1. LinkedInv => TypeOK
  BY DEF LinkedInv
<1> QED BY <1>1, LinkedCorrect, PTL

-----------------------------------------------------------------------------
(***************************************************************************)
(* The life of a session.                                                   *)
(***************************************************************************)

\* A refresh begins on a valid token of its session.
LEMMA RefreshBegins ==
  ASSUME TypeOK, [Next]_vars, NEW r \in Request,
         req'[r].session \notin {req[r].session, Null}
  PROVE  \E k \in Active : token[k].session = req'[r].session
<1>1. ASSUME NEW q \in Request, NEW h, req'[q] = [req[q] EXCEPT !.pc = h]
      PROVE  req'[q].session = req[q].session
  BY <1>1 DEF TypeOK, Handler
<1>2. ASSUME NEW q \in Request, NEW k \in Token, Issues(q, k)
      PROVE  req'[q].session = req[q].session
  BY <1>2 DEF TypeOK, Issues, Handler
<1>3. Resting.session = Null
  BY DEF Resting
<1>4. req[r] = Resting /\ Begin(r)
  BY <1>1, <1>2, <1>3, SlotStep
<1>5. ASSUME NEW h, Accept(r, h) PROVE req'[r] = h
  BY <1>5 DEF Accept, TypeOK
<1>6. CASE BeginRefresh(r)
  <2>1. PICK d \in Device :
          /\ jar[d] # Null /\ Usable(jar[d])
          /\ Accept(r, [Resting EXCEPT
               !.op = "refresh", !.pc = "revoke", !.device = d, !.token = jar[d],
               !.user = token[jar[d]].user, !.session = token[jar[d]].session])
    BY <1>6 DEF BeginRefresh
  <2>2. req'[r].session = token[jar[d]].session
    BY <1>5, <2>1 DEF Resting
  <2> QED BY <2>1, <2>2 DEF TypeOK, Usable, Active
<1>7. CASE BeginCreateAccount(r)
  <2>1. PICK u \in User, op \in {"register", "createUserByAdmin"}, d \in Device,
             pc \in {"create", "revive"} :
          Accept(r, [Resting EXCEPT !.op = op, !.user = u, !.device = d, !.pc = pc])
    BY <1>7, CreationBegins
  <2> QED BY <1>5, <2>1 DEF Resting
<1>8. CASE BeginLogin(r)
  BY <1>5, <1>8 DEF BeginLogin, Resting
<1>9. CASE BeginResetRequest(r)
  BY <1>5, <1>9 DEF BeginResetRequest, Resting
<1>10. CASE BeginResetPassword(r)
  BY <1>5, <1>10 DEF BeginResetPassword, Resting
<1> QED BY <1>4, <1>6, <1>7, <1>8, <1>9, <1>10 DEF Begin

Ends(s) == IsSession(s) /\ ~Over(s) /\ Over(s)'

\* What is over stays over, unless a token is issued.
LEMMA NoRevival ==
  ASSUME TypeOK, SessionsLinked, TypeOK', [Next]_vars, NoneIssued,
         NEW s \in Token, IsSession(s), Over(s)
  PROVE  Over(s)'
<1>1. \A k \in Active' : token'[k].session # s
  <2> SUFFICES ASSUME NEW k \in Token, token'[k].state = "active" PROVE token'[k].session # s
    BY DEF Active
  <2>1. token[k].state = "active" /\ token'[k].session = token[k].session
    BY DEF NoneIssued, Grows
  <2> QED BY <2>1 DEF Over, Active
<1>2. \A r \in Request : req'[r].session # s
  <2> SUFFICES ASSUME NEW r \in Request, req'[r].session = s PROVE FALSE
    OBVIOUS
  <2>1. req[r].session # s
    BY DEF Over, Refreshing
  <2>2. \E k \in Active : token[k].session = s
    BY <2>1, RefreshBegins, NullIsNothing
  <2> QED BY <2>2 DEF Over
<1>3. token'[s].state # "none"
  BY DEF NoneIssued, Grows, Over
<1> QED BY <1>1, <1>2, <1>3 DEF Over, Refreshing

\* A session ends by its last token, or by its last refresh.
LEMMA HowEnds ==
  ASSUME TypeOK, SessionsLinked, NoneIssued, NEW s \in Token, Ends(s)
  PROVE  \/ \E k \in Active : token[k].session = s /\ token'[k].state # "active"
         \/ \E r \in Request : req[r].session = s /\ req'[r].session # s
<1>1. token[s].state # "none"
  BY NullIsNothing DEF Ends, IsSession, SessionsLinked, TokensLinked, NoToken
<1>2. CASE \E k \in Active : token[k].session = s
  <2>1. PICK k \in Active : token[k].session = s
    BY <1>2
  <2>2. k \in Token /\ token'[k].session = s
    BY <2>1 DEF NoneIssued, Grows, Active
  <2> QED BY <2>1, <2>2 DEF Ends, Over, Active
<1>3. CASE Refreshing(s)
  BY <1>3 DEF Refreshing, Ends, Over
<1> QED BY <1>1, <1>2, <1>3 DEF Ends, Over

\* One step ends the sessions of one user only.
LEMMA EndersAgree ==
  ASSUME TypeOK, SessionsLinked, TypeOK', [Next]_vars, NoneIssued,
         NEW s \in Token, NEW t \in Token, Ends(s), Ends(t)
  PROVE  token[s].user = token[t].user
<1> DEFINE Spent(x, k) == /\ k \in Active /\ token[k].session = x
                          /\ token'[k].state # "active"
           Left(x, r) == r \in Request /\ req[r].session = x /\ req'[r].session # x
<1>1. \A x \in {s, t} : (\E k : Spent(x, k)) \/ (\E r : Left(x, r))
  BY HowEnds
<1>2. \A k, x \in Token : Spent(x, k) => token[x].user = token[k].user
  BY NullIsNothing DEF SessionsLinked, TokensLinked, NoToken
<1>3. ASSUME NEW x \in Token, NEW k, Spent(x, k) PROVE k \in Token
  BY <1>3 DEF Active
<1>4. CASE UNCHANGED token
  <2>1. \A k : ~Spent(s, k) /\ ~Spent(t, k)
    BY <1>4 DEF Active
  <2>2. PICK r \in Request, q \in Request : Left(s, r) /\ Left(t, q)
    BY <1>1, <2>1
  <2>3. r = q
    <3>1. \A a, b \in Request : req'[a] # req[a] /\ req'[b] # req[b] => a = b
      BY SlotStep
    <3> QED BY <2>2, <3>1
  <2> QED BY <2>2, <2>3
<1>5. ASSUME NEW r \in Request, RevokeOld(r) PROVE FALSE
  <2>1. req' = [req EXCEPT ![r].pc = "issue"]
    BY <1>5 DEF RevokeOld
  <2>2. \A q \in Request : req'[q].session = req[q].session
    BY <2>1 DEF TypeOK, Handler
  <2>3. req[r].token \in Token /\ token[req[r].token].session = req[r].session
    BY <1>5 DEF RevokeOld, At, TypeOK, HandlerOK, SessionsLinked, HandlerLinked
  <2>4. PICK k : Spent(s, k)
    BY <1>1, <2>2
  <2>5. k = req[r].token
    BY <1>5, <2>3, <2>4 DEF RevokeOld, Rotated, TypeOK, Active
  <2>6. req'[r].session = s
    BY <2>2, <2>3, <2>4, <2>5
  <2> QED BY <2>6 DEF Ends, Over, Refreshing
<1>6. ASSUME NEW u \in User, NEW d \in Device, LogoutAll(u, d)
      PROVE  token[s].user = token[t].user
  <2>1. \A k \in Active : token'[k].state # "active" => token[k].user = u
    BY <1>6 DEF LogoutAll, ClearCookie, Revoke, TokensOf, Active
  <2>2. \A r : ~Left(s, r) /\ ~Left(t, r)
    BY <1>6 DEF LogoutAll, ClearCookie
  <2> QED BY <1>1, <1>2, <1>3, <2>1, <2>2
<1>7. ASSUME NEW d \in Device, Logout(d) PROVE token[s].user = token[t].user
  <2>1. \A k \in Active : token'[k].state # "active" => k = jar[d]
    BY <1>7 DEF Logout, ClearCookie, Revoke, Active
  <2>2. \A r : ~Left(s, r) /\ ~Left(t, r)
    BY <1>7 DEF Logout, ClearCookie
  <2> QED BY <1>1, <2>1, <2>2
<1>8. ASSUME NEW e \in Token, TokenExpires(e) PROVE token[s].user = token[t].user
  <2>1. \A k \in Active : token'[k].state # "active" => k = e
    BY <1>8 DEF TokenExpires, Active, TypeOK
  <2>2. \A r : ~Left(s, r) /\ ~Left(t, r)
    BY <1>8 DEF TokenExpires
  <2> QED BY <1>1, <2>1, <2>2
<1>9. ASSUME NEW r \in Request, IssueRefreshToken(r) PROVE FALSE
  <2>1. PICK k \in Token : Issues(r, k)
    BY <1>9, IssueIssues
  <2> QED BY <2>1 DEF Issues, NoneIssued, TypeOK
<1>10. ASSUME NEW r \in Request,
             \/ Begin(r) \/ CreateAccount(r) \/ CreateAccountFails(r)
             \/ IssueFails(r) \/ Respond(r) \/ ResetUserPasswordRequest(r)
             \/ ResetUserPassword(r) \/ ResetUserPasswordFails(r) \/ Abort(r)
      PROVE  UNCHANGED token
  BY <1>10 DEF Begin, BeginCreateAccount, BeginLogin, BeginRefresh, BeginResetRequest,
              BeginResetPassword, CreateAccount, CreateAccountFails, IssueFails, Respond,
              ResetUserPasswordRequest, ResetUserPassword, ResetUserPasswordFails, Abort, rows
<1>11. ASSUME NEW u \in User, DeleteUser(u) \/ LinkExpires(u) PROVE UNCHANGED token
  BY <1>11 DEF DeleteUser, LinkExpires
<1>12. CASE UNCHANGED vars
  BY <1>4, <1>12 DEF vars
<1> HIDE DEF Spent, Left
<1>13. CASE Next
  BY <1>4, <1>5, <1>6, <1>7, <1>8, <1>9, <1>10, <1>11, <1>13 DEF Next, Begin
<1> QED BY <1>12, <1>13

\* The variables of SessionLife.
Lives == [s \in Token |-> IF ~IsSession(s) THEN "none" ELSE IF Over(s) THEN "over" ELSE "open"]
Holders == [s \in Token |-> IF IsSession(s) THEN token[s].user ELSE Null]

LEMMA LifeInit == Init => Life!Init
BY NullIsNothing DEF Init, Life!Init, IsSession, NoToken

\* Where no token is issued, a session goes on or ends.
LEMMA LifeEnds ==
  ASSUME TypeOK, SessionsLinked, TypeOK', [Next]_vars, NoneIssued
  PROVE  [Life!Next]_<<Lives, Holders>>
<1>1. \A s \in Token : IsSession(s)' <=> IsSession(s)
  <2> SUFFICES ASSUME NEW s \in Token PROVE IsSession(s)' <=> IsSession(s)
    OBVIOUS
  <2>1. token[s].state = "none" => token'[s] = token[s]
    BY DEF NoneIssued
  <2>2. token[s].state # "none" => token'[s].session = token[s].session
    BY DEF NoneIssued, Grows
  <2> QED BY <2>1, <2>2 DEF IsSession
<1>2. Holders' = Holders
  <2>1. \A s \in Token : IsSession(s) => token'[s].user = token[s].user
    BY NullIsNothing DEF IsSession, SessionsLinked, TokensLinked, NoToken, NoneIssued, Grows
  <2> QED BY <1>1, <2>1 DEF Holders
<1> DEFINE E == {s \in Token : Ends(s)}
<1>3. Lives' = [s \in Token |-> IF s \in E THEN "over" ELSE Lives[s]]
  <2>1. \A s \in Token : IsSession(s) /\ Over(s) => Over(s)'
    BY NoRevival
  <2> QED BY <1>1, <2>1 DEF Lives, Ends
<1>4. CASE E = {}
  BY <1>2, <1>3, <1>4 DEF Lives
<1>5. CASE E # {}
  <2>1. PICK s \in Token : Ends(s)
    BY <1>5
  <2>2. token[s].user \in User
    BY <2>1, NullIsNothing DEF Ends, IsSession, SessionsLinked, TokensLinked, NoToken
  <2>3. \A t \in E : Lives[t] = "open" /\ Holders[t] = token[s].user
    BY <2>1, EndersAgree DEF Ends, Lives, Holders
  <2>4. Life!End(token[s].user, E)
    BY <1>2, <1>3, <2>3 DEF Life!End, Lives, Holders
  <2> QED BY <2>2, <2>4 DEF Life!Next
<1> QED BY <1>4, <1>5

\* A login opens a session; a rotation goes on with one.
LEMMA LifeOpens ==
  ASSUME TypeOK, SessionsLinked, TypeOK', SessionsLinked', NEW r \in Request, NEW k \in Token,
         Issues(r, k)
  PROVE  [Life!Next]_<<Lives, Holders>>
<1> DEFINE h == req[r]
<1>1. /\ h \in Handler /\ HandlerOK(h) /\ HandlerLinked(h) /\ h.user \in User
      /\ token[k] = NoToken
  BY DEF TypeOK, SessionsLinked, Issues, At, HandlerOK, TokensLinked
<1>2. /\ token'[k] = [state |-> "active", user |-> h.user,
                      session |-> IF h.session = Null THEN k ELSE h.session]
      /\ \A x \in Token \ {k} : token'[x] = token[x]
  BY DEF Issues, TypeOK
<1>3. \A q \in Request : req'[q].session = req[q].session
  BY DEF Issues, TypeOK, Handler
<1>4. ~IsSession(k)
  BY <1>1, NullIsNothing DEF IsSession, NoToken
<1>5. \A x \in Token \ {k} : IsSession(x)' <=> IsSession(x)
  BY <1>2 DEF IsSession
<1>6. \A x \in Token : Refreshing(x)' <=> Refreshing(x)
  BY <1>3 DEF Refreshing
<1>7. ASSUME NEW x \in Token \ {k}, x # h.session PROVE Over(x)' <=> Over(x)
  <2>1. Active' = Active \cup {k}
    BY <1>1, <1>2 DEF Active, NoToken
  <2>2. token'[k].session # x
    BY <1>2, <1>7
  <2>3. k \notin Active
    BY <1>1 DEF Active, NoToken
  <2>4. \A y \in Active : token'[y] = token[y]
    BY <1>2, <2>3 DEF Active
  <2> QED BY <1>2, <1>6, <1>7, <2>1, <2>2, <2>4 DEF Over
<1>8. CASE h.session = Null
  <2>1. IsSession(k)' /\ ~Over(k)'
    <3>1. k \in Active' /\ token'[k].session = k
      BY <1>2, <1>8 DEF Active
    <3> QED BY <3>1 DEF IsSession, Over
  <2>2. \A x \in Token \ {k} : Over(x)' <=> Over(x)
    BY <1>7, <1>8, NullIsNothing
  <2>3. ASSUME NEW u \in User, u = h.user PROVE Life!Open(k, u)
    <3>1. Lives[k] = "none" /\ Lives' = [Lives EXCEPT ![k] = "open"]
      BY <1>4, <1>5, <2>1, <2>2 DEF Lives
    <3>2. Holders' = [Holders EXCEPT ![k] = u]
      <4>1. \A x \in Token \ {k} : Holders'[x] = Holders[x]
        BY <1>2, <1>5 DEF Holders
      <4>2. Holders'[k] = u
        BY <1>2, <2>1, <2>3 DEF Holders
      <4> QED BY <4>1, <4>2 DEF Holders
    <3> QED BY <3>1, <3>2, Zenon DEF Life!Open, Lives, Holders
  <2> QED BY <1>1, <2>3 DEF Life!Next
<1>9. CASE h.session # Null
  <2>1. PICK s \in Token : s = h.session /\ IsSession(s)
    BY <1>1, <1>9 DEF HandlerLinked, Handler
  <2>2. s # k
    BY <1>4, <2>1
  <2>3. ~IsSession(k)'
    BY <1>2, <1>9, <2>1, <2>2 DEF IsSession
  <2>4. ~Over(s) /\ ~Over(s)'
    BY <1>6, <2>1 DEF Over, Refreshing
  <2>5. UNCHANGED <<Lives, Holders>>
    <3>1. \A x \in Token : Lives'[x] = Lives[x]
      BY <1>4, <1>5, <1>7, <2>1, <2>2, <2>3, <2>4 DEF Lives
    <3>2. \A x \in Token : Holders'[x] = Holders[x]
      BY <1>2, <1>4, <1>5, <2>3 DEF Holders
    <3> QED BY <3>1, <3>2 DEF Lives, Holders
  <2> QED BY <2>5
<1> QED BY <1>8, <1>9

\* Whatever tokens, devices and handlers there are, sessions live as SessionLife says: opened
\* once, for one user, and over for good.
THEOREM SessionRefinement == Spec => SessionsLive
<1>1. LinkedInv /\ [Next]_vars => [Life!Next]_<<Lives, Holders>>
  <2> SUFFICES ASSUME LinkedInv, [Next]_vars PROVE [Life!Next]_<<Lives, Holders>>
    OBVIOUS
  <2>1. TypeOK /\ SessionsLinked /\ TypeOK' /\ SessionsLinked'
    BY NextType, SessionsLinkedStep DEF LinkedInv
  <2> QED BY <2>1, TokenStep, IssueIssues, LifeEnds, LifeOpens
<1>2. Init => Life!Init
  BY LifeInit
<1> QED BY <1>1, <1>2, LinkedCorrect, PTL DEF Spec, SessionsLive, Life!Spec, Lives, Holders

\* When logoutAll of a user is over, so is every session of theirs of which no refresh is
\* under way, whatever devices they are on.
THEOREM LogoutAllTotal == Spec => LogoutAllIsTotal
<1>1. LinkedInv /\ [Next]_vars =>
        [\A u \in User : (\E d \in Device : LogoutAll(u, d)) =>
           \A s \in Token : token[s].user = u /\ ~Refreshing(s) => Over(s)']_vars
  <2> SUFFICES ASSUME LinkedInv, NEW u \in User, NEW d \in Device, LogoutAll(u, d),
                      NEW s \in Token, token[s].user = u, ~Refreshing(s)
               PROVE  Over(s)'
    OBVIOUS
  <2>1. token[s].state # "none" /\ token'[s].state # "none"
    BY NullIsNothing
       DEF LinkedInv, TypeOK, SessionsLinked, TokensLinked, NoToken, LogoutAll, Revoke
  <2>2. ASSUME NEW k \in Token, token'[k].state = "active" PROVE token'[k].session # s
    <3>1. token'[k] = token[k] /\ token[k].state = "active" /\ token[k].user # u
      BY <2>2 DEF LogoutAll, ClearCookie, Revoke, TokensOf, Active, LinkedInv, TypeOK
    <3> QED BY <3>1 DEF LinkedInv, SessionsLinked, TokensLinked
  <2>3. ~Refreshing(s)'
    BY DEF LogoutAll, ClearCookie, Refreshing
  <2> QED BY <2>1, <2>2, <2>3 DEF Over, Active
<1> QED BY <1>1, LinkedCorrect, PTL DEF Spec, LogoutAllIsTotal

-----------------------------------------------------------------------------
(***************************************************************************)
(* One valid token per session.                                             *)
(***************************************************************************)
LEMMA ForkedGrows == [Next]_vars => forked \subseteq forked'
BY DEF Next, BeginCreateAccount, BeginLogin, BeginRefresh, BeginResetRequest,
       BeginResetPassword, CreateAccount, CreateAccountFails, IssueFails, Respond,
       ResetUserPasswordRequest, ResetUserPassword, ResetUserPasswordFails, Abort,
       RevokeOld, IssueRefreshToken, DeleteUser, LinkExpires, LogoutAll, Logout, TokenExpires,
       history, vars

\* Who is about to issue a token of session s after a step that issues none.
LEMMA AboutToIssue ==
  ASSUME TypeOK, SessionsLinked, [Next]_vars, NoneIssued,
         NEW r \in Request, At(r, "issue")', req'[r].session # Null
  PROVE  \/ req'[r] = req[r]
         \/ RevokeOld(r) /\ req'[r].session = req[r].session
            /\ \A q \in Request \ {r} : req'[q] = req[q]
<1>1. PICK q \in Request :
        /\ \A p \in Request \ {q} : req'[p] = req[p]
        /\ \/ req'[q] = Resting
           \/ req[q] = Resting /\ Begin(q)
           \/ CreateAccount(q) /\ req'[q] = [req[q] EXCEPT !.pc = "issue"]
           \/ RevokeOld(q) /\ req'[q] = [req[q] EXCEPT !.pc = "issue"]
           \/ \E k \in Token : Issues(q, k)
           \/ req'[q] = req[q]
  BY SlotStep
<1>2. CASE q # r
  BY <1>1, <1>2
<1>3. CASE q = r
  <2>1. req'[r] # Resting /\ \A k \in Token : ~Issues(r, k)
    BY DEF At, Resting, Issues, NoneIssued, TypeOK
  <2>2. CASE CreateAccount(r) /\ req'[r] = [req[r] EXCEPT !.pc = "issue"]
    <3>1. req[r].pc \in {"create", "revive"} /\ req'[r].session = req[r].session
      BY <2>2 DEF CreateAccount, At, TypeOK, Handler
    <3> QED BY <3>1 DEF SessionsLinked, HandlerLinked
  <2>3. CASE RevokeOld(r) /\ req'[r] = [req[r] EXCEPT !.pc = "issue"]
    BY <1>1, <1>3, <2>3 DEF TypeOK, Handler
  <2>4. CASE req[r] = Resting /\ Begin(r)
    <3>1. BeginRefresh(r)
      <4>1. Resting.session = Null
        BY DEF Resting
      <4>2. PICK k \in Active : token[k].session = req'[r].session
        BY <2>4, <4>1, RefreshBegins
      <4>3. ASSUME NEW h, Accept(r, h) PROVE req'[r] = h
        BY <4>3 DEF Accept, TypeOK
      <4>4. CASE BeginCreateAccount(r)
        <5>1. PICK u \in User, op \in {"register", "createUserByAdmin"}, d \in Device,
                   pc \in {"create", "revive"} :
                Accept(r, [Resting EXCEPT !.op = op, !.user = u, !.device = d, !.pc = pc])
          BY <4>4, CreationBegins
        <5> QED BY <4>3, <5>1 DEF Resting
      <4>5. ~BeginLogin(r) /\ ~BeginResetRequest(r) /\ ~BeginResetPassword(r)
        BY <4>3 DEF BeginLogin, BeginResetRequest, BeginResetPassword, Resting
      <4> QED BY <2>4, <4>4, <4>5 DEF Begin
    <3>2. PICK d \in Device :
            Accept(r, [Resting EXCEPT
              !.op = "refresh", !.pc = "revoke", !.device = d, !.token = jar[d],
              !.user = token[jar[d]].user, !.session = token[jar[d]].session])
      BY <3>1 DEF BeginRefresh
    <3>3. req'[r].pc = "revoke"
      BY <3>2 DEF Accept, Resting, TypeOK
    <3> QED BY <3>3 DEF At
  <2> QED BY <1>1, <1>3, <2>1, <2>2, <2>3, <2>4
<1> QED BY <1>2, <1>3

LEMMA RotationStep ==
  ASSUME TypeOK, SessionsLinked, RotationInv, [Next]_vars
  PROVE  RotationInv'
<1> SUFFICES ASSUME NEW s \in Token, s \notin forked'
             PROVE  /\ \A k, l \in Active' :
                         token'[k].session = s /\ token'[l].session = s => k = l
                    /\ \A r \in Request : At(r, "issue")' /\ req'[r].session = s =>
                         /\ \A k \in Active' : token'[k].session # s
                         /\ \A q \in Request :
                              At(q, "issue")' /\ req'[q].session = s => q = r
  BY DEF RotationInv, At
<1>0. /\ \A k, l \in Active : token[k].session = s /\ token[l].session = s => k = l
      /\ \A r \in Request : At(r, "issue") /\ req[r].session = s =>
           /\ \A k \in Active : token[k].session # s
           /\ \A q \in Request : At(q, "issue") /\ req[q].session = s => q = r
  BY ForkedGrows DEF RotationInv
<1>1. CASE NoneIssued
  <2>1. \A k \in Active' : k \in Active /\ token'[k].session = token[k].session
    BY <1>1 DEF NoneIssued, Grows, Active
  <2>2. s # Null
    BY NullIsNothing
  <2>3. CASE \E r \in Request : RevokeOld(r) /\ At(r, "issue")' /\ req'[r].session = s
    <3>1. PICK r \in Request : RevokeOld(r) /\ At(r, "issue")' /\ req'[r].session = s
      BY <2>3
    <3>2. req[r].session = s /\ \A q \in Request \ {r} : req'[q] = req[q]
      BY <3>1 DEF RevokeOld, TypeOK, Handler
    <3>3. req[r].token \in Active /\ token[req[r].token].session = s
      BY <3>1, <3>2 DEF RevokeOld, At, SessionsLinked, HandlerLinked
    <3>4. \A k \in Active' : token'[k].session # s
      <4>1. req[r].token \notin Active'
        BY <3>1 DEF RevokeOld, Rotated, Active, TypeOK
      <4> QED BY <1>0, <2>1, <3>3, <4>1
    <3>5. \A q \in Request : At(q, "issue")' /\ req'[q].session = s => q = r
      BY <1>0, <3>2, <3>3 DEF At
    <3> QED BY <1>0, <2>1, <3>4, <3>5
  <2>4. CASE ~ \E r \in Request : RevokeOld(r) /\ At(r, "issue")' /\ req'[r].session = s
    <3>1. \A r \in Request : At(r, "issue")' /\ req'[r].session = s => req'[r] = req[r]
      BY <1>1, <2>2, <2>4, AboutToIssue
    <3> QED BY <1>0, <2>1, <3>1 DEF At
  <2> QED BY <2>3, <2>4
<1>2. ASSUME NEW r \in Request, NEW k \in Token, Issues(r, k)
      PROVE  /\ \A x, l \in Active' :
                  token'[x].session = s /\ token'[l].session = s => x = l
             /\ \A p \in Request : At(p, "issue")' /\ req'[p].session = s =>
                  /\ \A x \in Active' : token'[x].session # s
                  /\ \A q \in Request :
                       At(q, "issue")' /\ req'[q].session = s => q = p
  <2> DEFINE h == req[r]
  <2>1. /\ token'[k].session = IF h.session = Null THEN k ELSE h.session
        /\ \A x \in Token \ {k} : token'[x] = token[x]
        /\ token[k] = NoToken
    BY <1>2 DEF Issues, TypeOK, SessionsLinked, TokensLinked
  <2>2. \A x \in Active' : x = k \/ (x \in Active /\ token'[x] = token[x])
    <3> SUFFICES ASSUME NEW x \in Token, token'[x].state = "active", x # k
                 PROVE  token[x].state = "active" /\ token'[x] = token[x]
      BY DEF Active
    <3> QED BY <2>1
  <2>3. \A q \in Request : At(q, "issue")' => q # r /\ At(q, "issue") /\ req'[q] = req[q]
    BY <1>2 DEF Issues, At, TypeOK, Handler
  <2>4. \A x \in Active : token[x].session # k
    BY <2>1 DEF SessionsLinked, TokensLinked, Active, NoToken
  <2>5. \A q \in Request : req[q].session # k
    <3>1. ~IsSession(k)
      BY <2>1, NullIsNothing DEF IsSession, NoToken
    <3> QED BY <3>1, NullIsNothing DEF SessionsLinked, HandlerLinked
  <2>6. CASE h.session = Null
    BY <1>0, <2>1, <2>2, <2>3, <2>4, <2>5, <2>6
  <2>7. CASE h.session # Null
    BY <1>0, <1>2, <2>1, <2>2, <2>3, <2>7 DEF Issues
  <2> QED BY <2>6, <2>7
<1> QED BY <1>1, <1>2, TokenStep, IssueIssues

RotationCorrect == LinkedInv /\ RotationInv

LEMMA AlwaysRotation == Spec => []RotationCorrect
<1>1. Init => RotationCorrect
  BY InitType, InitLinked
     DEF Init, RotationCorrect, LinkedInv, RotationInv, Active, NoToken, At, Resting
<1>2. RotationCorrect /\ [Next]_vars => RotationCorrect'
  BY NextType, SessionsLinkedStep, RotationStep DEF RotationCorrect, LinkedInv
<1> QED BY <1>1, <1>2, PTL DEF Spec

\* However many refreshes, logins and logouts interleave, a session has one valid token, but
\* for those in which two refreshes overlapped.
THEOREM OneToken == Spec => []TokensWellFormed
<1>1. RotationCorrect => TokensWellFormed
  <2> SUFFICES ASSUME RotationCorrect, NEW s \in Token, s \notin forked
               PROVE  Cardinality({k \in Active : token[k].session = s}) <= 1
    BY DEF TokensWellFormed, OneTokenPerSession, RotationCorrect, LinkedInv
  <2> DEFINE S == {k \in Active : token[k].session = s}
  <2>1. \A k, l \in S : k = l
    BY DEF RotationCorrect, RotationInv
  <2> HIDE DEF S
  <2>2. ASSUME NEW k \in S PROVE S = {k}
    BY <2>1
  <2>3. Cardinality(S) <= 1
    <3>1. CASE S = {}
      BY <3>1, FS_EmptySet
    <3>2. CASE S # {}
      <4>1. PICK k \in S : S = {k}
        BY <2>2, <3>2
      <4>2. Cardinality({k}) = 1
        BY FS_Singleton
      <4> QED BY <4>1, <4>2
    <3> QED BY <3>1, <3>2
  <2> QED BY <2>3 DEF S
<1> QED BY <1>1, AlwaysRotation, PTL

-----------------------------------------------------------------------------
(***************************************************************************)
(* Cookies.                                                                 *)
(***************************************************************************)

\* Who responds, or is about to revoke, after a step.
LEMMA AboutToRespond ==
  ASSUME TypeOK, [Next]_vars, NEW r \in Request, At(r, "respond")'
  PROVE  req'[r] = req[r] \/ \E k \in Token : Issues(r, k)
<1>1. PICK q \in Request :
        /\ \A p \in Request \ {q} : req'[p] = req[p]
        /\ \/ req'[q] = Resting
           \/ req[q] = Resting /\ Begin(q)
           \/ req'[q] = [req[q] EXCEPT !.pc = "issue"]
           \/ \E k \in Token : Issues(q, k)
           \/ req'[q] = req[q]
  BY SlotStep
<1>2. CASE q # r
  BY <1>1, <1>2
<1>3. CASE req'[r] = Resting \/ req'[r] = [req[r] EXCEPT !.pc = "issue"]
  BY <1>3 DEF At, Resting, TypeOK, Handler
<1>4. CASE Begin(r)
  <2>1. ASSUME NEW h, Accept(r, h) PROVE req'[r] = h
    BY <2>1 DEF Accept, TypeOK
  <2>2. CASE BeginCreateAccount(r)
    <3>1. PICK u \in User, op \in {"register", "createUserByAdmin"}, d \in Device,
               pc \in {"create", "revive"} :
            Accept(r, [Resting EXCEPT !.op = op, !.user = u, !.device = d, !.pc = pc])
      BY <2>2, CreationBegins
    <3> QED BY <2>1, <3>1 DEF Resting, At
  <2>3. ~BeginLogin(r)
    BY <2>1 DEF BeginLogin, Resting, At
  <2>4. ~BeginRefresh(r)
    BY <2>1 DEF BeginRefresh, Resting, At
  <2>5. ~BeginResetRequest(r) /\ ~BeginResetPassword(r)
    BY <2>1 DEF BeginResetRequest, BeginResetPassword, Resting, At
  <2> QED BY <1>4, <2>2, <2>3, <2>4, <2>5 DEF Begin
<1> QED BY <1>1, <1>2, <1>3, <1>4

LEMMA AboutToRevoke ==
  ASSUME TypeOK, [Next]_vars, NEW r \in Request, At(r, "revoke")'
  PROVE  \/ req'[r] = req[r]
         \/ /\ jar[req'[r].device] = req'[r].token /\ jar[req'[r].device] # Null
            /\ req'[r].device \in Device
            /\ UNCHANGED <<jar, token>> /\ \A q \in Request \ {r} : req'[q] = req[q]
<1>1. PICK q \in Request :
        /\ \A p \in Request \ {q} : req'[p] = req[p]
        /\ \/ req'[q] = Resting
           \/ req[q] = Resting /\ Begin(q)
           \/ req'[q] = [req[q] EXCEPT !.pc = "issue"]
           \/ \E k \in Token : Issues(q, k)
           \/ req'[q] = req[q]
  BY SlotStep
<1>2. CASE q # r
  BY <1>1, <1>2
<1>3. CASE req'[r] = Resting \/ req'[r] = [req[r] EXCEPT !.pc = "issue"]
  BY <1>3 DEF At, Resting, TypeOK, Handler
<1>4. ASSUME NEW k \in Token, Issues(r, k) PROVE FALSE
  BY <1>4 DEF Issues, At, TypeOK, Handler
<1>5. CASE Begin(r) /\ q = r
  <2>1. ASSUME NEW h, Accept(r, h) PROVE req'[r] = h
    BY <2>1 DEF Accept, TypeOK
  <2>2. CASE BeginRefresh(r)
    <3>1. PICK d \in Device :
            /\ jar[d] # Null
            /\ Accept(r, [Resting EXCEPT
                 !.op = "refresh", !.pc = "revoke", !.device = d, !.token = jar[d],
                 !.user = token[jar[d]].user, !.session = token[jar[d]].session])
            /\ UNCHANGED <<jar, token>>
      BY <2>2 DEF BeginRefresh, rows
    <3>2. req'[r].device = d /\ req'[r].token = jar[d]
      BY <2>1, <3>1 DEF Resting
    <3> QED BY <1>1, <1>5, <3>1, <3>2
  <2>3. CASE BeginCreateAccount(r)
    <3>1. PICK u \in User, op \in {"register", "createUserByAdmin"}, d \in Device,
               pc \in {"create", "revive"} :
            Accept(r, [Resting EXCEPT !.op = op, !.user = u, !.device = d, !.pc = pc])
      BY <2>3, CreationBegins
    <3> QED BY <2>1, <3>1 DEF Resting, At
  <2>4. ~BeginLogin(r) /\ ~BeginResetRequest(r) /\ ~BeginResetPassword(r)
    BY <2>1 DEF BeginLogin, BeginResetRequest, BeginResetPassword, Resting, At
  <2> QED BY <1>5, <2>2, <2>3, <2>4 DEF Begin
<1> QED BY <1>1, <1>2, <1>3, <1>4, <1>5

LEMMA JarsApartStep ==
  ASSUME TypeOK, SessionsLinked, JarsApart, [Next]_vars
  PROVE  JarsApart'
<1>0. /\ \A d, e \in Device : jar[d] # Null /\ jar[d] = jar[e] => d = e
      /\ \A r \in Request : At(r, "respond") =>
           /\ \A d \in Device : jar[d] # req[r].token
           /\ \A q \in Request :
                At(q, "respond") \/ At(q, "revoke") => q = r \/ req[q].token # req[r].token
      /\ \A r \in Request, d \in Device :
           At(r, "revoke") /\ jar[d] = req[r].token => d = req[r].device
  BY DEF JarsApart
<1>1. ASSUME NEW r \in Request, At(r, "respond") \/ At(r, "revoke")
      PROVE  req[r].token \in Token /\ token[req[r].token].state # "none"
  BY <1>1 DEF At, TypeOK, HandlerOK, SessionsLinked, HandlerLinked, TokensLinked, NoToken
<1>2. ASSUME NEW r \in Request, NEW k \in Token, Issues(r, k) PROVE JarsApart'
  <2>1. /\ req'[r].pc = "respond" /\ req'[r].token = k
        /\ \A q \in Request \ {r} : req'[q] = req[q]
        /\ token[k].state = "none" /\ jar' = jar
    BY <1>2 DEF Issues, TypeOK, Handler
  <2>2. /\ \A q \in Request : At(q, "respond") \/ At(q, "revoke") => req[q].token # k
        /\ \A d \in Device : jar[d] # k
    BY <1>1, <2>1, NullIsNothing DEF SessionsLinked
  <2> QED BY <1>0, <2>1, <2>2 DEF JarsApart, At
<1>3. ASSUME NEW r \in Request, Respond(r) PROVE JarsApart'
  <2>1. /\ At(r, "respond") /\ req'[r].pc = "idle"
        /\ \A q \in Request \ {r} : req'[q] = req[q]
        /\ jar' = [jar EXCEPT ![req[r].device] = req[r].token]
        /\ req[r].token # Null
    BY <1>1, <1>3, NullIsNothing DEF Respond, Finish, Resting, TypeOK
  <2> QED BY <1>0, <2>1 DEF JarsApart, At, TypeOK
<1>4. ASSUME \A r \in Request, k \in Token : ~Issues(r, k), \A d \in Device : jar'[d] \in {jar[d], Null}
      PROVE  JarsApart'
  <2>1. \A r \in Request : At(r, "respond")' => req'[r] = req[r] /\ At(r, "respond")
    BY <1>4, AboutToRespond DEF At
  <2>2. \A r \in Request : At(r, "respond")' => req'[r].token # Null
    BY <1>1, <2>1, NullIsNothing
  <2>3. ASSUME NEW r \in Request, At(r, "revoke")', req'[r] # req[r]
        PROVE  /\ \A q \in Request : At(q, "respond")' => req'[q].token # req'[r].token
               /\ \A d \in Device : jar'[d] = req'[r].token => d = req'[r].device
    <3>1. /\ jar[req'[r].device] = req'[r].token /\ jar[req'[r].device] # Null
          /\ req'[r].device \in Device /\ jar' = jar
      BY <2>3, AboutToRevoke
    <3> QED BY <1>0, <2>1, <3>1
  <2>4. \A r \in Request : At(r, "revoke")' /\ req'[r] = req[r] => At(r, "revoke")
    BY DEF At
  <2>5. \A r \in Request : At(r, "revoke") => req[r].token # Null
    BY <1>1, NullIsNothing
  <2>6. \A d, e \in Device : jar'[d] # Null /\ jar'[d] = jar'[e] => d = e
    BY <1>0, <1>4
  <2>7. ASSUME NEW r \in Request, At(r, "respond")'
        PROVE  /\ \A d \in Device : jar'[d] # req'[r].token
               /\ \A q \in Request : At(q, "respond")' \/ At(q, "revoke")' =>
                    q = r \/ req'[q].token # req'[r].token
    BY <1>0, <1>4, <2>1, <2>2, <2>3, <2>4, <2>7
  <2>8. ASSUME NEW r \in Request, NEW d \in Device, At(r, "revoke")', jar'[d] = req'[r].token
        PROVE  d = req'[r].device
    BY <1>0, <1>4, <2>3, <2>4, <2>5, <2>8
  <2> QED BY <2>6, <2>7, <2>8 DEF JarsApart, At
<1>5. CASE UNCHANGED jar \/ \E d \in Device : jar' = [jar EXCEPT ![d] = Null]
  BY <1>2, <1>4, <1>5 DEF TypeOK
<1> QED BY <1>3, <1>5, JarStep

\* Steps that leave tokens and cookies alone, and end no refresh.
LEMMA JarIdle ==
  ASSUME TypeOK, JarInv, [Next]_vars, UNCHANGED <<token, jar, cutOff>>,
         NEW r \in Request, req[r].op # "refresh",
         \A q \in Request \ {r} : req'[q] = req[q],
         \A q \in Request, k \in Token : ~Issues(q, k)
  PROVE  (JarUsable /\ JarFresh)'
<1>1. JarUsable'
  BY DEF JarInv, JarUsable
<1>2. JarFresh'
  BY AboutToRespond DEF JarInv, JarFresh, At
<1> QED BY <1>1, <1>2

LEMMA JarHandlerStep ==
  ASSUME TypeOK, SessionsLinked, JarInv, [Next]_vars, NEW r \in Request,
         \/ IssueRefreshToken(r) \/ RevokeOld(r) \/ Respond(r) \/ IssueFails(r) \/ Abort(r)
  PROVE  (JarUsable /\ JarFresh)'
<1> DEFINE h == req[r]
<1>0. /\ h \in Handler /\ HandlerOK(h) /\ HandlerLinked(h)
      /\ \A q \in Request : At(q, "respond") =>
           req[q].token \in Token /\ token[req[q].token].state # "none"
      /\ \A d \in Device : jar[d] # Null => jar[d] \in Token /\ token[jar[d]].state # "none"
  BY DEF TypeOK, SessionsLinked, HandlerLinked, HandlerOK, At
<1> USE DEF At, JarUsable, JarFresh
<1>1. ASSUME NEW k \in Token, Issues(r, k) PROVE (JarUsable /\ JarFresh)'
  <2>1. /\ req'[r].device = h.device /\ req'[r].op = h.op /\ req'[r].token = k
        /\ token'[k].state = "active"
        /\ \A x \in Token \ {k} : token'[x] = token[x]
        /\ \A q \in Request \ {r} : req'[q] = req[q]
        /\ token[k].state = "none" /\ UNCHANGED <<jar, cutOff>>
    BY <1>0, <1>1 DEF Issues, TypeOK, Handler, history
  <2>2. JarUsable'
    <3> SUFFICES ASSUME NEW d \in Device \ cutOff, jar[d] # Null,
                        token'[jar[d]].state = "revoked"
                 PROVE  \E q \in Request : req'[q].op = "refresh" /\ req'[q].device = d
      BY <2>1
    <3>1. token[jar[d]].state = "revoked"
      BY <1>0, <2>1
    <3>2. PICK q \in Request : req[q].op = "refresh" /\ req[q].device = d
      BY <3>1 DEF JarInv
    <3> QED BY <2>1, <3>2
  <2>3. JarFresh'
    <3> SUFFICES ASSUME NEW q \in Request, req'[q].pc = "respond", req'[q].device \notin cutOff
                 PROVE  token'[req'[q].token].state # "revoked"
      BY <2>1
    <3>1. CASE q = r
      BY <2>1, <3>1
    <3>2. CASE q # r
      BY <1>0, <2>1, <3>2 DEF JarInv
    <3> QED BY <3>1, <3>2
  <2> QED BY <2>2, <2>3
<1>2. CASE RevokeOld(r)
  <2>1. /\ h.pc = "revoke" /\ h.op = "refresh" /\ h.token \in Token /\ h.device \in Device
        /\ req'[r].device = h.device /\ req'[r].op = h.op /\ req'[r].pc = "issue"
        /\ \A x \in Token \ {h.token} : token'[x] = token[x]
        /\ \A q \in Request \ {r} : req'[q] = req[q]
        /\ UNCHANGED <<jar, cutOff>>
    BY <1>0, <1>2
       DEF RevokeOld, Rotated, TypeOK, Handler, HandlerOK, HandlerLinked
  <2>2. JarUsable'
    <3> SUFFICES ASSUME NEW d \in Device \ cutOff, jar[d] # Null,
                        token'[jar[d]].state = "revoked"
                 PROVE  \E q \in Request : req'[q].op = "refresh" /\ req'[q].device = d
      BY <2>1
    <3>1. CASE jar[d] = h.token
      BY <2>1, <3>1 DEF JarInv, JarsApart
    <3>2. CASE jar[d] # h.token
      <4>1. token[jar[d]].state = "revoked"
        BY <1>0, <2>1, <3>2
      <4>2. PICK q \in Request : req[q].op = "refresh" /\ req[q].device = d
        BY <4>1 DEF JarInv
      <4> QED BY <2>1, <4>2
    <3> QED BY <3>1, <3>2
  <2>3. JarFresh'
    <3> SUFFICES ASSUME NEW q \in Request, req'[q].pc = "respond", req'[q].device \notin cutOff
                 PROVE  token'[req'[q].token].state # "revoked"
      BY <2>1
    <3>1. q # r /\ req'[q] = req[q]
      BY <2>1
    <3>2. req[q].token # h.token
      BY <2>1, <3>1 DEF JarInv, JarsApart
    <3> QED BY <1>0, <2>1, <3>1, <3>2 DEF JarInv
  <2> QED BY <2>2, <2>3
<1>3. CASE Respond(r)
  <2>1. /\ h.pc = "respond" /\ h.device \in Device /\ h.token \in Token
        /\ \A q \in Request \ {r} : req'[q] = req[q]
        /\ req'[r].pc = "idle" /\ UNCHANGED token
        /\ jar'[h.device] = h.token
        /\ \A d \in Device \ {h.device} : jar'[d] = jar[d]
        /\ \A d \in cutOff : d \in cutOff' \/
             /\ d = h.device /\ token[h.token].state = "active"
             /\ \A q \in Request \ {r} : req[q].device # h.device
        /\ cutOff' \subseteq cutOff
    BY <1>0, <1>3 DEF Respond, Finish, Resting, TypeOK, HandlerOK, Active, rows
  <2>2. JarUsable'
    <3> SUFFICES ASSUME NEW d \in Device \ cutOff', jar'[d] # Null,
                        token[jar'[d]].state = "revoked"
                 PROVE  \E q \in Request : req'[q].op = "refresh" /\ req'[q].device = d
      BY <2>1
    <3>1. CASE d = h.device
      BY <2>1, <3>1 DEF JarInv
    <3>2. CASE d # h.device
      <4>1. d \notin cutOff /\ jar'[d] = jar[d]
        BY <2>1, <3>2
      <4>2. PICK q \in Request : req[q].op = "refresh" /\ req[q].device = d
        BY <4>1 DEF JarInv
      <4> QED BY <2>1, <3>2, <4>2
    <3> QED BY <3>1, <3>2
  <2>3. JarFresh'
    <3> SUFFICES ASSUME NEW q \in Request, req'[q].pc = "respond", req'[q].device \notin cutOff'
                 PROVE  token[req'[q].token].state # "revoked"
      BY <2>1
    <3>1. q # r /\ req'[q] = req[q]
      BY <2>1
    <3>2. req[q].device \notin cutOff
      BY <2>1, <3>1
    <3> QED BY <3>1, <3>2 DEF JarInv
  <2> QED BY <2>2, <2>3
<1>4. CASE IssueFails(r) \/ Abort(r)
  <2>1. /\ \A q \in Request \ {r} : req'[q] = req[q]
        /\ req'[r].pc = "idle" /\ UNCHANGED <<jar, token>>
        /\ cutOff \subseteq cutOff'
        /\ h.device \in Device => h.device \in cutOff'
    BY <1>4, NullIsNothing DEF IssueFails, Abort, Finish, Resting, TypeOK, rows
  <2>2. JarUsable'
    <3> SUFFICES ASSUME NEW d \in Device \ cutOff', jar[d] # Null, token[jar[d]].state = "revoked"
                 PROVE  \E q \in Request : req'[q].op = "refresh" /\ req'[q].device = d
      BY <2>1
    <3>1. PICK q \in Request : req[q].op = "refresh" /\ req[q].device = d
      BY <2>1 DEF JarInv
    <3> QED BY <2>1, <3>1
  <2>3. JarFresh'
    BY <2>1 DEF JarInv
  <2> QED BY <2>2, <2>3
<1> QED BY <1>1, <1>2, <1>3, <1>4, IssueIssues

\* Revocations by a logout, expiry, and the steps that are not about tokens.
LEMMA JarOtherStep ==
  ASSUME TypeOK, SessionsLinked, JarInv, [Next]_vars,
         \A r \in Request :
           ~ (\/ IssueRefreshToken(r) \/ RevokeOld(r) \/ Respond(r)
              \/ IssueFails(r) \/ Abort(r))
  PROVE  (JarUsable /\ JarFresh)'
<1>0. /\ \A q \in Request : At(q, "respond") =>
           /\ req[q].token \in Token /\ req[q].device \in Device
           /\ token[req[q].token].user = req[q].user
      /\ \A q \in Request : At(q, "respond") => \A d \in Device : jar[d] # req[q].token
      /\ \A d, e \in Device : jar[d] # Null /\ jar[d] = jar[e] => d = e
      /\ \A d \in Device : jar[d] # Null => jar[d] \in Token
  BY DEF TypeOK, SessionsLinked, HandlerLinked, HandlerOK, At, JarInv, JarsApart
<1> USE DEF JarUsable, JarFresh
<1>1. ASSUME NEW d \in Device, Logout(d) PROVE (JarUsable /\ JarFresh)'
  <2>1. /\ \A k \in Token : k # jar[d] => token'[k] = token[k]
        /\ \A e \in Device \ {d} : jar'[e] = jar[e]
        /\ cutOff' = cutOff \cup {d} /\ UNCHANGED req
    BY <1>1 DEF Logout, ClearCookie, Revoke, TypeOK
  <2>2. JarUsable'
    BY <1>0, <2>1 DEF JarInv
  <2>3. JarFresh'
    BY <1>0, <1>1, <2>1 DEF JarInv, At, Logout, ClearCookie
  <2> QED BY <2>2, <2>3
<1>2. ASSUME NEW u \in User, NEW d \in Device, LogoutAll(u, d)
      PROVE  (JarUsable /\ JarFresh)'
  <2>1. /\ \A k \in Token : token[k].user # u => token'[k] = token[k]
        /\ \A e \in Device \ {d} : jar'[e] = jar[e]
        /\ d \in cutOff' /\ cutOff \subseteq cutOff' /\ UNCHANGED req
        /\ \A e \in Device : jar[e] # Null /\ token[jar[e]].user = u => e \in cutOff'
        /\ \A e \in Device, r \in Request :
             req[r].device = e /\ req[r].user = u => e \in cutOff'
    BY <1>2 DEF LogoutAll, ClearCookie, Revoke, TokensOf, TypeOK
  <2>2. JarUsable'
    BY <1>0, <2>1 DEF JarInv
  <2>3. JarFresh'
    BY <1>0, <2>1 DEF JarInv, At
  <2> QED BY <2>2, <2>3
<1>3. ASSUME NEW k \in Token, TokenExpires(k) PROVE (JarUsable /\ JarFresh)'
  <2>1. /\ \A x \in Token : token'[x].state = "revoked" => token[x].state = "revoked"
        /\ UNCHANGED <<jar, req, cutOff>>
    BY <1>3 DEF TokenExpires, TypeOK, history
  <2> QED BY <1>0, <2>1 DEF JarInv, At
<1>4. ASSUME NEW r \in Request,
             \/ Begin(r) \/ CreateAccount(r) \/ CreateAccountFails(r)
             \/ ResetUserPasswordRequest(r) \/ ResetUserPassword(r) \/ ResetUserPasswordFails(r)
      PROVE  (JarUsable /\ JarFresh)'
  <2>1. UNCHANGED <<token, jar, cutOff>>
    BY <1>4 DEF Begin, BeginCreateAccount, BeginLogin, BeginRefresh, BeginResetRequest,
                BeginResetPassword, CreateAccount, CreateAccountFails, ResetUserPasswordRequest,
                ResetUserPassword, ResetUserPasswordFails, rows, history
  <2>2. req[r].op # "refresh"
    <3>1. req[r] = Resting \/ req[r].pc \in {"create", "revive", "sendLink", "writePassword"}
      BY <1>4 DEF Begin, BeginCreateAccount, BeginLogin, BeginRefresh, BeginResetRequest,
                  BeginResetPassword, Accept, CreateAccount, CreateAccountFails,
                  ResetUserPasswordRequest, ResetUserPassword, ResetUserPasswordFails, At
    <3> QED BY <3>1 DEF SessionsLinked, HandlerLinked, Resting
  <2>3. \A q \in Request \ {r} : req'[q] = req[q]
    BY <1>4 DEF Begin, BeginCreateAccount, BeginLogin, BeginRefresh, BeginResetRequest,
                BeginResetPassword, Accept, CreateAccount, CreateAccountFails, AccountWritten,
                ResetUserPasswordRequest, ResetUserPassword, ResetUserPasswordFails, Finish,
                TypeOK
  <2>4. \A q \in Request, k \in Token : ~Issues(q, k)
    BY <2>1 DEF Issues, TypeOK
  <2> QED BY <2>1, <2>2, <2>3, <2>4, JarIdle
<1>5. CASE UNCHANGED <<token, jar, req, cutOff>>
  BY <1>5 DEF JarInv, At
<1>6. ASSUME NEW u \in User, DeleteUser(u) \/ LinkExpires(u)
      PROVE  UNCHANGED <<token, jar, req, cutOff>>
  BY <1>6 DEF DeleteUser, LinkExpires, history
<1>7. CASE UNCHANGED vars
  BY <1>5, <1>7 DEF vars
<1>8. CASE Next
  BY <1>1, <1>2, <1>3, <1>4, <1>5, <1>6, <1>8 DEF Next, Begin
<1> QED BY <1>7, <1>8

LEMMA JarInvStep ==
  ASSUME TypeOK, SessionsLinked, JarInv, [Next]_vars
  PROVE  JarInv'
<1>1. JarsApart'
  BY JarsApartStep DEF JarInv
<1>2. (JarUsable /\ JarFresh)'
  BY JarHandlerStep, JarOtherStep
<1> QED BY <1>1, <1>2 DEF JarInv

\* The cookie of a browser that got every response is one it can go on with: it was not
\* revoked, unless by a refresh whose response is on its way.
THEOREM UsableCookies == Spec => []JarUsable
<1> DEFINE Inv == LinkedInv /\ JarInv
<1>1. Init => Inv
  BY InitType, InitLinked
     DEF Init, LinkedInv, JarInv, JarsApart, JarUsable, JarFresh, At, Resting
<1>2. Inv /\ [Next]_vars => Inv'
  BY NextType, SessionsLinkedStep, JarInvStep DEF LinkedInv
<1>3. Inv => JarUsable
  BY DEF JarInv
<1> HIDE DEF Inv
<1> QED BY <1>1, <1>2, <1>3, PTL DEF Spec

-----------------------------------------------------------------------------
(***************************************************************************)
(* Links to reset a password.                                               *)
(***************************************************************************)

\* Which handlers are about to send or to use a link after a step.
LEMMA LinkSlots ==
  ASSUME TypeOK, [Next]_vars, NEW r \in Request, req'[r] # req[r],
         req'[r].pc \in {"sendLink", "writePassword"}
  PROVE  /\ UNCHANGED <<reset, sent, used>>
         /\ \E u \in User :
              /\ req'[r].user = u /\ req'[r].link = reset[u].link
              /\ \/ req'[r].pc = "sendLink" /\ req'[r].op = "requestReset" /\ ~Pending(u)
                 \/ req'[r].pc = "writePassword" /\ req'[r].op = "resetPassword" /\ Pending(u)
<1>1. PICK q \in Request :
        /\ \A p \in Request \ {q} : req'[p] = req[p]
        /\ \/ req'[q] = Resting
           \/ req[q] = Resting /\ Begin(q)
           \/ req'[q] = [req[q] EXCEPT !.pc = "issue"]
           \/ \E k \in Token : Issues(q, k)
  BY SlotStep
<1>2. q = r
  BY <1>1
<1>3. \A k \in Token : ~Issues(r, k)
  BY DEF Issues, TypeOK, Handler
<1>4. Begin(r)
  BY <1>1, <1>2, <1>3 DEF Resting, TypeOK, Handler
<1>5. ASSUME NEW h, Accept(r, h) PROVE req'[r] = h
  BY <1>5 DEF Accept, TypeOK
<1>6. CASE BeginCreateAccount(r)
  <2>1. PICK u \in User, op \in {"register", "createUserByAdmin"}, d \in Device,
             pc \in {"create", "revive"} :
          Accept(r, [Resting EXCEPT !.op = op, !.user = u, !.device = d, !.pc = pc])
    BY <1>6, CreationBegins
  <2> QED BY <1>5, <2>1 DEF Resting
<1>7. ~BeginLogin(r) /\ ~BeginRefresh(r)
  BY <1>5 DEF BeginLogin, BeginRefresh, Resting
<1>8. CASE BeginResetRequest(r)
  <2>1. PICK u \in User :
          /\ MayRequest(u)
          /\ Accept(r, [Resting EXCEPT !.op = "requestReset", !.pc = "sendLink",
                                       !.user = u, !.link = reset[u].link])
    BY <1>8 DEF BeginResetRequest
  <2>2. /\ req'[r].pc = "sendLink" /\ req'[r].op = "requestReset" /\ ~Pending(u)
        /\ req'[r].user = u /\ req'[r].link = reset[u].link
    BY <1>5, <2>1 DEF Resting, MayRequest
  <2> QED BY <1>8, <2>2 DEF BeginResetRequest, rows, history
<1>9. CASE BeginResetPassword(r)
  <2>1. PICK u \in User :
          /\ Opens(u)
          /\ Accept(r, [Resting EXCEPT !.op = "resetPassword", !.pc = "writePassword",
                                       !.user = u, !.link = reset[u].link])
    BY <1>9 DEF BeginResetPassword
  <2>2. /\ req'[r].pc = "writePassword" /\ req'[r].op = "resetPassword" /\ Pending(u)
        /\ req'[r].user = u /\ req'[r].link = reset[u].link
    BY <1>5, <2>1 DEF Resting, Opens
  <2> QED BY <1>9, <2>2 DEF BeginResetPassword, rows, history
<1> QED BY <1>4, <1>6, <1>7, <1>8, <1>9 DEF Begin

\* What a step does to the rows: a new link, a used one, an expired one, or nothing.
Sends(r) ==
  /\ At(r, "sendLink") /\ req'[r] = Resting
  /\ \E l \in Link :
       /\ l \notin sent
       /\ reset' = [reset EXCEPT ![req[r].user] = [link |-> l, expired |-> FALSE]]
       /\ sent' = sent \cup {l}
  /\ UNCHANGED used
Redeemed(r) ==
  /\ At(r, "writePassword") /\ req'[r] = Resting
  /\ \E u \in User : Redeems(req[r], u) /\ reset' = [reset EXCEPT ![u] = NoReset]
  /\ used' = [used EXCEPT ![req[r].link] = @ + 1]
  /\ UNCHANGED sent

LEMMA ResetStep ==
  ASSUME TypeOK, [Next]_vars
  PROVE  \/ UNCHANGED <<reset, sent, used>>
         \/ \E r \in Request : Sends(r) \/ Redeemed(r)
         \/ \E u \in User : reset' = [reset EXCEPT ![u].expired = TRUE] /\ UNCHANGED <<sent, used>>
<1>1. ASSUME NEW r \in Request,
             \/ Begin(r) \/ CreateAccount(r) \/ CreateAccountFails(r) \/ RevokeOld(r)
             \/ IssueRefreshToken(r) \/ IssueFails(r) \/ Respond(r)
             \/ ResetUserPasswordFails(r) \/ Abort(r)
      PROVE  UNCHANGED <<reset, sent, used>>
  BY <1>1 DEF Begin, BeginCreateAccount, BeginLogin, BeginRefresh, BeginResetRequest,
              BeginResetPassword, CreateAccount, CreateAccountFails, RevokeOld,
              IssueRefreshToken, IssueFails, Respond, ResetUserPasswordFails, Abort, rows, history
<1>2. ASSUME NEW r \in Request, ResetUserPasswordRequest(r) PROVE Sends(r)
  BY <1>2 DEF ResetUserPasswordRequest, Sends, Finish, TypeOK
<1>3. ASSUME NEW r \in Request, ResetUserPassword(r) PROVE Redeemed(r)
  BY <1>3 DEF ResetUserPassword, Redeemed, Finish, TypeOK
<1>4. ASSUME NEW u \in User, LinkExpires(u)
      PROVE  reset' = [reset EXCEPT ![u].expired = TRUE] /\ UNCHANGED <<sent, used>>
  BY <1>4 DEF LinkExpires, history
<1>5. ASSUME NEW u \in User, DeleteUser(u) PROVE UNCHANGED <<reset, sent, used>>
  BY <1>5 DEF DeleteUser, history
<1>6. ASSUME NEW u \in User, NEW d \in Device, LogoutAll(u, d)
      PROVE  UNCHANGED <<reset, sent, used>>
  BY <1>6 DEF LogoutAll, ClearCookie
<1>7. ASSUME NEW d \in Device, Logout(d) PROVE UNCHANGED <<reset, sent, used>>
  BY <1>7 DEF Logout, ClearCookie
<1>8. ASSUME NEW k \in Token, TokenExpires(k) PROVE UNCHANGED <<reset, sent, used>>
  BY <1>8 DEF TokenExpires, history
<1>9. CASE UNCHANGED vars
  BY <1>9 DEF vars
<1>10. CASE Next
  BY <1>1, <1>2, <1>3, <1>4, <1>5, <1>6, <1>7, <1>8, <1>10 DEF Next, Begin
<1> QED BY <1>9, <1>10

LEMMA LinksInvStep ==
  ASSUME TypeOK, LinksInv, [Next]_vars
  PROVE  LinksInv'
<1>0. \A r \in Request : /\ req[r].pc \in {"sendLink", "writePassword"} => req[r].user \in User
                         /\ req[r].pc = "writePassword" => req[r].link \in Link
  BY DEF TypeOK, HandlerOK
<1>1. CASE UNCHANGED <<reset, sent, used>>
  <2> SUFFICES ASSUME NEW r \in Request, req'[r].pc \in {"sendLink", "writePassword"},
                      req'[r] # req[r]
               PROVE  /\ req'[r].pc = "sendLink" =>
                           /\ req'[r].op = "requestReset" /\ req'[r].link \in sent \cup {Null}
                           /\ \A u \in User : req'[r].user = u /\ Pending(u) => reset[u].link # req'[r].link
                      /\ req'[r].pc = "writePassword" =>
                           /\ req'[r].op = "resetPassword" /\ req'[r].link \in sent
                           /\ \A u \in User : reset[u].link = req'[r].link => u = req'[r].user
    BY <1>1 DEF LinksInv, At, Pending
  <2> QED BY LinkSlots DEF LinksInv, At, Pending
<1>2. \A r \in Request :
        req'[r].pc \in {"sendLink", "writePassword"} /\ ~UNCHANGED <<reset, sent, used>> =>
          req'[r] = req[r]
  BY LinkSlots
<1>3. ASSUME NEW r \in Request, Sends(r) PROVE LinksInv'
  <2>1. PICK l \in Link :
          /\ l \notin sent
          /\ reset' = [reset EXCEPT ![req[r].user] = [link |-> l, expired |-> FALSE]]
          /\ sent' = sent \cup {l} /\ UNCHANGED used
    BY <1>3 DEF Sends
  <2> DEFINE o == req[r].user
  <2>2. /\ o \in User /\ l # Null /\ req'[r] = Resting
        /\ reset'[o].link = l /\ \A u \in User \ {o} : reset'[u] = reset[u]
    BY <1>0, <1>3, <2>1, NullIsNothing DEF Sends, At, TypeOK
  <2>3. \A q \in Request : req'[q].pc \in {"sendLink", "writePassword"} => req'[q] = req[q]
    BY <1>2, <2>1
  <2> HIDE DEF o
  <2>4. /\ \A u \in User :
             reset'[u].link # Null => reset'[u].link \in sent' /\ used[reset'[u].link] = 0
        /\ \A u, v \in User : reset'[u].link # Null /\ reset'[u].link = reset'[v].link => u = v
    BY <2>1, <2>2 DEF LinksInv
  <2>5. \A k \in Link : used[k] <= 1 /\ (k \notin sent' => used[k] = 0)
    BY <2>1 DEF LinksInv
  <2>6. ASSUME NEW q \in Request, req'[q].pc = "sendLink"
        PROVE  /\ req'[q].op = "requestReset" /\ req'[q].link \in sent' \cup {Null}
               /\ \A u \in User : req'[q].user = u /\ reset'[u].link # Null /\ ~reset'[u].expired
                                => reset'[u].link # req'[q].link
    <3>1. req'[q] = req[q] /\ req[q].pc = "sendLink" /\ req[q].user \in User
      BY <1>0, <2>3, <2>6 DEF At
    <3> QED BY <2>1, <2>2, <3>1 DEF LinksInv, Pending
  <2>7. ASSUME NEW q \in Request, req'[q].pc = "writePassword"
        PROVE  /\ req'[q].op = "resetPassword" /\ req'[q].link \in sent'
               /\ \A u \in User : reset'[u].link = req'[q].link => u = req'[q].user
    <3>1. req'[q] = req[q] /\ req[q].pc = "writePassword"
      BY <2>3, <2>7 DEF At
    <3>2. /\ req[q].op = "resetPassword" /\ req[q].link \in sent
          /\ \A u \in User : reset[u].link = req[q].link => u = req[q].user
      BY <3>1 DEF LinksInv
    <3>3. \A u \in User : reset'[u].link = req[q].link => reset'[u] = reset[u]
      BY <2>1, <2>2, <3>2
    <3> QED BY <2>1, <3>1, <3>2, <3>3
  <2> QED BY <2>1, <2>4, <2>5, <2>6, <2>7 DEF LinksInv, Pending
<1>4. ASSUME NEW r \in Request, Redeemed(r) PROVE LinksInv'
  <2> DEFINE l == req[r].link
  <2>1. PICK o \in User : reset[o].link = l /\ reset' = [reset EXCEPT ![o] = NoReset]
    BY <1>4 DEF Redeemed, Redeems
  <2>2. /\ l \in Link /\ l \in sent /\ l # Null /\ sent' = sent /\ used[l] = 0
        /\ used' = [used EXCEPT ![l] = 1]
    <3>1. l \in Link /\ l # Null /\ sent' = sent /\ used' = [used EXCEPT ![l] = @ + 1]
      BY <1>0, <1>4, NullIsNothing DEF Redeemed, At
    <3>2. l \in sent /\ used[l] = 0
      BY <1>4, <2>1, <3>1 DEF Redeemed, At, LinksInv
    <3>3. used[l] + 1 = 1
      BY <3>2
    <3> QED BY <3>1, <3>2, <3>3
  <2>3. reset'[o].link = Null /\ \A u \in User \ {o} : reset'[u] = reset[u]
    BY <2>1 DEF NoReset, TypeOK
  <2>4. \A q \in Request : req'[q].pc \in {"sendLink", "writePassword"} => req'[q] = req[q]
    BY <1>2, <2>1, <2>2, <2>3
  <2> HIDE DEF l
  <2>5. /\ \A u \in User :
             reset'[u].link # Null => reset'[u].link \in sent' /\ used'[reset'[u].link] = 0
        /\ \A u, v \in User : reset'[u].link # Null /\ reset'[u].link = reset'[v].link => u = v
    BY <2>1, <2>2, <2>3 DEF LinksInv
  <2>6. \A k \in Link : used'[k] <= 1 /\ (k \notin sent' => used'[k] = 0)
    BY <2>2 DEF LinksInv, TypeOK
  <2>7. ASSUME NEW q \in Request, req'[q].pc = "sendLink"
        PROVE  /\ req'[q].op = "requestReset" /\ req'[q].link \in sent' \cup {Null}
               /\ \A u \in User : req'[q].user = u /\ reset'[u].link # Null /\ ~reset'[u].expired
                                => reset'[u].link # req'[q].link
    <3>1. req'[q] = req[q] /\ req[q].pc = "sendLink" /\ req[q].user \in User
      BY <1>0, <2>4, <2>7 DEF At
    <3> QED BY <2>2, <2>3, <3>1 DEF LinksInv, Pending
  <2>8. ASSUME NEW q \in Request, req'[q].pc = "writePassword"
        PROVE  /\ req'[q].op = "resetPassword" /\ req'[q].link \in sent'
               /\ \A u \in User : reset'[u].link = req'[q].link => u = req'[q].user
    <3>1. req'[q] = req[q] /\ req[q].pc = "writePassword" /\ req[q].link \in Link
      BY <1>0, <2>4, <2>8 DEF At
    <3>2. /\ req[q].op = "resetPassword" /\ req[q].link \in sent
          /\ \A u \in User : reset[u].link = req[q].link => u = req[q].user
      BY <3>1 DEF LinksInv
    <3>3. req[q].link # Null
      BY <3>1, NullIsNothing
    <3>4. \A u \in User : reset'[u].link = req[q].link => reset'[u] = reset[u]
      BY <2>3, <3>3
    <3> QED BY <2>2, <3>1, <3>2, <3>4
  <2> QED BY <2>5, <2>6, <2>7, <2>8 DEF LinksInv, Pending
<1>5. ASSUME NEW o \in User, reset' = [reset EXCEPT ![o].expired = TRUE],
             UNCHANGED <<sent, used>>
      PROVE  LinksInv'
  <2>1. \A u \in User : reset'[u].link = reset[u].link /\ (Pending(u)' => Pending(u))
    BY <1>5 DEF TypeOK, Pending
  <2>2. ASSUME NEW q \in Request, req'[q].pc = "sendLink", ~UNCHANGED reset
        PROVE  /\ req'[q].op = "requestReset" /\ req'[q].link \in sent' \cup {Null}
               /\ \A u \in User : req'[q].user = u /\ reset'[u].link # Null /\ ~reset'[u].expired
                                => reset'[u].link # req'[q].link
    <3>1. req'[q] = req[q] /\ req[q].pc = "sendLink" /\ req[q].user \in User
      BY <1>0, <1>2, <2>2 DEF At
    <3> QED BY <1>5, <2>1, <3>1 DEF LinksInv, Pending
  <2>3. ASSUME NEW q \in Request, req'[q].pc = "writePassword", ~UNCHANGED reset
        PROVE  /\ req'[q].op = "resetPassword" /\ req'[q].link \in sent'
               /\ \A u \in User : reset'[u].link = req'[q].link => u = req'[q].user
    <3>1. req'[q] = req[q] /\ req[q].pc = "writePassword"
      BY <1>2, <2>3 DEF At
    <3> QED BY <1>5, <2>1, <3>1 DEF LinksInv
  <2>4. CASE UNCHANGED reset
    BY <1>1, <1>5, <2>4
  <2>5. CASE ~UNCHANGED reset
    BY <1>5, <2>1, <2>2, <2>3, <2>5 DEF LinksInv, Pending
  <2> QED BY <2>4, <2>5
<1> QED BY <1>1, <1>3, <1>4, <1>5, ResetStep

LinksCorrect == LinkedInv /\ LinksInv

LEMMA AlwaysLinks == Spec => []LinksCorrect
<1>1. Init => LinksCorrect
  BY InitType, InitLinked
     DEF Init, LinksCorrect, LinkedInv, LinksInv, NoReset, At, Resting
<1>2. LinksCorrect /\ [Next]_vars => LinksCorrect'
  BY NextType, SessionsLinkedStep, LinksInvStep DEF LinksCorrect, LinkedInv
<1> QED BY <1>1, <1>2, PTL DEF Spec

\* A link changes one password, once, whoever opens it and however often; and it stands until
\* it is used or has expired, unless two requests for one overlapped.
THEOREM LinksCorrectly == Spec => LinksHold
<1>1. LinksCorrect => LinkUsedOnce
  BY DEF LinksCorrect, LinksInv, LinkUsedOnce
<1>2. LinksCorrect /\ [Next]_vars =>
        [\A u \in User : Pending(u) /\ reset'[u].link # reset[u].link =>
           \E r \in Request :
             /\ req[r].user = u /\ req'[r] = Resting
             /\ \/ req[r].op = "resetPassword" /\ req[r].link = reset[u].link
                \/ req[r].op = "requestReset" /\ req[r].link # reset[u].link]_vars
  <2> SUFFICES ASSUME LinksCorrect, [Next]_vars, NEW u \in User,
                      Pending(u), reset'[u].link # reset[u].link
               PROVE  \E r \in Request :
                        /\ req[r].user = u /\ req'[r] = Resting
                        /\ \/ req[r].op = "resetPassword" /\ req[r].link = reset[u].link
                           \/ req[r].op = "requestReset" /\ req[r].link # reset[u].link
    OBVIOUS
  <2>1. TypeOK /\ LinksInv
    BY DEF LinksCorrect, LinkedInv
  <2>2. ASSUME NEW o \in User, reset' = [reset EXCEPT ![o].expired = TRUE] PROVE FALSE
    BY <2>1, <2>2 DEF TypeOK
  <2>3. ASSUME NEW r \in Request, Sends(r)
        PROVE  /\ req[r].user = u /\ req'[r] = Resting
               /\ req[r].op = "requestReset" /\ req[r].link # reset[u].link
    BY <2>1, <2>3 DEF Sends, TypeOK, LinksInv, At
  <2>4. ASSUME NEW r \in Request, Redeemed(r)
        PROVE  /\ req[r].user = u /\ req'[r] = Resting
               /\ req[r].op = "resetPassword" /\ req[r].link = reset[u].link
    BY <2>1, <2>4 DEF Redeemed, Redeems, TypeOK, LinksInv, At
  <2> QED BY <2>1, <2>2, <2>3, <2>4, ResetStep
<1>3. Spec => []LinkUsedOnce
  BY <1>1, AlwaysLinks, PTL
<1>4. Spec => PendingLinkStands
  BY <1>2, AlwaysLinks, PTL DEF Spec, PendingLinkStands
<1> QED BY <1>3, <1>4 DEF LinksHold
=============================================================================
