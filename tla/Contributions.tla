---------------------------- MODULE Contributions ----------------------------
(***************************************************************************)
(* Who may write what on a project: the access checks of                    *)
(* ProjectAccessService as the tasks, the documents, their comments and the  *)
(* issues of a project use them, and the role a list of projects shows.  A   *)
(* check takes several reads; the rows it reads change in between.  There is *)
(* one project and one request at a time: what others do is any change.      *)
(***************************************************************************)
EXTENDS Naturals, FiniteSetsExt

CONSTANTS User,
          Row,      \* rows of tables Task, Document, Comment, DocumentComment, ProjectIssue
          Null,
          Changes   \* bound: how many changes happen during a request

VARIABLES live,      \* the project is not in the trash
          owner,     \* Project.ownerId
          role,      \* table ProjectMember: a role, or Null for no row
          admin,     \* users whose global role is ADMIN
          row,       \* what there is on the project
          assigned,  \* table TaskAssignment
          asked,     \* the request
          changes    \* history: changes since the request

people == <<live, owner, role, admin>>
rows == <<people, row, assigned>>
vars == <<rows, asked, changes>>

Role == {"OWNER", "ADMIN", "MEMBER", "VIEWER"}
RankOf(r) == CASE r = "OWNER" -> 4 [] r = "ADMIN" -> 3 [] r = "MEMBER" -> 2
               [] r = "VIEWER" -> 1 [] OTHER -> 0

\* "on" is what is commented or, for an issue, the task it is about, if any.
RowState == [kind : {"none", "task", "document", "taskComment", "documentComment", "issue"},
             author : User \cup {Null}, on : Row \cup {Null}]
NoRow == [kind |-> "none", author |-> Null, on |-> Null]
Rows(kind) == {x \in Row : row[x].kind = kind}

OnTask == {"updateTask", "createComment", "createIssue"}
OnDocument == {"updateDocument", "deleteDocument", "createDocumentComment"}
OnComment == {"deleteComment", "deleteDocumentComment"}
OnProject == {"createDocument", "createIssue", "getMyProjects"}
Op == OnTask \cup OnDocument \cup OnComment \cup OnProject \cup {"removeIssue"}

\* The rows a request may be about: those of the kind its operation looks for.
About(op) ==
  (IF op \in OnTask THEN Rows("task") ELSE {})
  \cup (IF op \in OnDocument THEN Rows("document") ELSE {})
  \cup (IF op = "deleteComment" THEN Rows("taskComment") ELSE {})
  \cup (IF op = "deleteDocumentComment" THEN Rows("documentComment") ELSE {})
  \cup (IF op = "removeIssue" THEN Rows("issue") ELSE {})
  \cup (IF op \in OnProject THEN {Null} ELSE {})

\* What a right may come from, "gone" aside.
Source == {"live", "own", "owner", "admin", "gone"} \cup Role

\* "own": the user is the author, or an assignee of the task; "role" is the row that was
\* read, "first" that another check follows, "todo" the reads that run side by side.
\* History: "held" is what was true at some time since the request, "kept" all the time.
Asking == [pc : {"none", "row", "task", "role", "admin", "list", "roles", "write", "done"},
            op : Op, user : User \cup {Null}, row : Row \cup {Null}, on : Row \cup {Null},
            own : BOOLEAN, first : BOOLEAN, role : Role \cup {Null},
            todo : SUBSET {"memberships", "owned", "admin"},
            answer : {"none", "written", "refused", "missing", "unlisted"} \cup Role,
            held : SUBSET Source, kept : SUBSET Source]
NoRequest == [pc |-> "none", op |-> "getMyProjects", user |-> Null, row |-> Null,
              on |-> Null, own |-> FALSE, first |-> FALSE, role |-> Null, todo |-> {},
              answer |-> "none", held |-> {}, kept |-> {}]

\* Comments are on what they comment and issues on tasks.
RowsOK ==
  /\ row \in [Row -> RowState]
  /\ \A x \in Row :
       LET y == row[x].on IN
       CASE row[x].kind = "taskComment" -> y \in Rows("task")
         [] row[x].kind = "documentComment" -> y \in Rows("document")
         [] row[x].kind = "issue" -> y \in Rows("task") \cup {Null}
         [] OTHER -> y = Null
  /\ \A x \in Row : row[x].author = Null <=> row[x].kind \in {"none", "task"}

Init ==
  /\ row \in [Row -> RowState] /\ RowsOK
  /\ assigned \in SUBSET (Rows("task") \X User)
  /\ live \in BOOLEAN /\ owner \in User
  /\ role \in [User -> Role \cup {Null}]
  /\ admin \in SUBSET User
  /\ asked = NoRequest /\ changes = 0

-----------------------------------------------------------------------------
IsOwn(x, u) == x # Null /\ (row[x].author = u \/ <<x, u>> \in assigned)

\* What the rights of a request would come from, now.
Sources(u, x) ==
  {s \in Source :
     CASE s = "live" -> live
       [] s = "own" -> IsOwn(x, u)
       [] s = "owner" -> u = owner
       [] s = "admin" -> u \in admin
       [] s = "gone" -> x # Null /\ row[x].kind = "none"
       [] OTHER -> RankOf(role[u]) >= RankOf(s)}

Begin ==
  /\ asked.pc \in {"none", "done"}
  /\ \E op \in Op, u \in User : \E x \in About(op) :
       asked' = [NoRequest EXCEPT !.op = op, !.user = u, !.row = x,
         !.pc = CASE op = "getMyProjects" -> "list"
                  [] op \in OnProject \ {"getMyProjects"} -> "role"
                  [] OTHER -> "row",
         !.on = IF op = "createIssue" THEN x ELSE Null,
         !.first = op = "createDocumentComment",
         !.held = Sources(u, x), !.kept = Sources(u, x)]
  /\ changes' = 0
  /\ UNCHANGED rows

At(step) == asked.pc = step
Goto(h, step) == asked' = [h EXCEPT !.pc = step]
Answer(answer) == asked' = [asked EXCEPT !.pc = "done", !.answer = answer]
Reads == UNCHANGED <<rows, changes>>

\* The row, with its author or whether the user is assigned to it.  An issue's author may
\* withdraw it whatever became of the author.  Whatever the response says, a row that is not
\* found is "missing".
ReadRow ==
  LET x == asked.row IN
  /\ At("row")
  /\ IF row[x].kind = "none" THEN Answer("missing")
     ELSE LET own == IsOwn(x, asked.user) IN
          Goto([asked EXCEPT !.own = own, !.on = row[x].on],
               CASE asked.op = "removeIssue" /\ own -> "write"
                 [] asked.op = "deleteComment" -> "task"
                 [] OTHER -> "role")
  /\ Reads

\* The task of a comment, before the roles; that of a new issue, after.
ReadTask ==
  /\ At("task")
  /\ IF row[asked.on].kind = "none" THEN Answer("missing")
     ELSE Goto(asked, IF asked.op = "createIssue" THEN "write" ELSE "role")
  /\ Reads

\* What each operation asks of the role, once it knows whose the row is.
Permits_AuthorEver(op, own, r) ==
  CASE op \in {"updateTask", "updateDocument", "deleteDocument"} ->
         RankOf(r) >= RankOf("ADMIN") \/ own
    [] op \in OnComment -> own /\ RankOf(r) >= RankOf("MEMBER")
    [] op = "removeIssue" -> RankOf(r) >= RankOf("ADMIN")
    [] OTHER -> RankOf(r) >= RankOf("MEMBER")
Permits(op, own, r) ==
  CASE op \in {"updateTask", "updateDocument", "deleteDocument"} ->
         RankOf(r) >= RankOf("ADMIN") \/ (own /\ RankOf(r) >= RankOf("MEMBER"))
    [] op \in OnComment -> own /\ RankOf(r) >= RankOf("MEMBER")
    [] op = "removeIssue" -> RankOf(r) >= RankOf("ADMIN")
    [] OTHER -> RankOf(r) >= RankOf("MEMBER")

\* The roles are known.  A comment on a document takes two checks: who may read it first.
Judge(r) ==
  CASE asked.first /\ RankOf(r) >= RankOf("VIEWER") ->
         Goto([asked EXCEPT !.first = FALSE, !.role = Null], "role")
    [] ~asked.first /\ Permits(asked.op, asked.own, r) ->
         Goto([asked EXCEPT !.role = r],
              IF asked.op = "createIssue" /\ asked.row # Null THEN "task" ELSE "write")
    [] OTHER -> Answer("refused")

\* getEffectiveRole: the project with the user's row, then the user's global role.
ReadRole ==
  /\ At("role")
  /\ IF ~live THEN Answer("refused")
     ELSE IF asked.user = owner \/ role[asked.user] = "OWNER" THEN Judge("OWNER")
     ELSE Goto([asked EXCEPT !.role = role[asked.user]], "admin")
  /\ Reads

ReadAdmin ==
  /\ At("admin")
  /\ Judge(IF asked.user \in admin THEN "OWNER" ELSE asked.role)
  /\ Reads

\* getMyProjects lists the projects of which the user has a row, then getRolesForProjects
\* reads three tables at once.
ReadMyProjects ==
  /\ At("list")
  /\ IF live /\ role[asked.user] # Null
     THEN Goto([asked EXCEPT !.todo = {"memberships", "owned", "admin"}], "roles")
     ELSE Answer("unlisted")
  /\ Reads

\* The owner's role and the administrators' is OWNER, whatever the order of the answers.
ReadRoles(table) ==
  LET u == asked.user
      read == CASE table = "memberships" -> role[u]
                [] table = "owned" -> IF u = owner THEN "OWNER" ELSE Null
                [] table = "admin" -> IF u \in admin THEN "OWNER" ELSE Null
      r == IF RankOf(read) > RankOf(asked.role) THEN read ELSE asked.role
  IN /\ At("roles") /\ table \in asked.todo
     /\ IF asked.todo # {table}
        THEN asked' = [asked EXCEPT !.role = r, !.todo = @ \ {table}]
        ELSE asked' = [asked EXCEPT !.todo = {}, !.pc = "done",
                                    !.answer = IF r = Null THEN "unlisted" ELSE r]
     /\ Reads

-----------------------------------------------------------------------------
\* A deleted row takes its comments with it; issues stay, about nothing.
Without(x) ==
  [y \in Row |-> CASE y = x \/ (row[y].on = x /\ row[y].kind # "issue") -> NoRow
                   [] y # x /\ row[y].on = x /\ row[y].kind = "issue" -> [row[y] EXCEPT !.on = Null]
                   [] OTHER -> row[y]]
Delete(x) ==
  /\ row' = Without(x)
  /\ assigned' = assigned \ ({x} \X User)

Created ==
  [createDocument |-> "document", createIssue |-> "issue", createComment |-> "taskComment",
   createDocumentComment |-> "documentComment"]
Insert(kind) ==
  /\ \E y \in Rows("none") :
       row' = [row EXCEPT ![y] = [kind |-> kind, author |-> asked.user, on |-> asked.row]]
  /\ UNCHANGED assigned

\* The database refuses to change a row that is gone, or one to be put on it.  (What a task
\* or a document holds is not modelled.)
Write ==
  /\ At("write")
  /\ IF asked.row # Null /\ row[asked.row].kind = "none"
     THEN Answer("missing") /\ UNCHANGED <<row, assigned>>
     ELSE /\ Answer("written")
          /\ CASE asked.op \in DOMAIN Created -> Insert(Created[asked.op])
               [] asked.op \in OnComment \cup {"deleteDocument", "removeIssue"} ->
                    Delete(asked.row)
               [] OTHER -> UNCHANGED <<row, assigned>>
  /\ UNCHANGED <<people, changes>>

\* What others write meanwhile; it is news to the request.
Change ==
  /\ asked.pc \notin {"none", "done"} /\ changes < Changes
  /\ changes' = changes + 1
  /\ \E u \in {asked.user}, x \in {asked.row} :
       LET now == Sources(u, x)' IN
       asked' = [asked EXCEPT !.held = @ \cup now, !.kept = @ \cap now]

Transferred == owner' \in User \ {owner} /\ UNCHANGED <<live, role, admin, row, assigned>>
MemberChanged ==
  /\ \E u \in User, r \in (Role \cup {Null}) : r # role[u] /\ role' = [role EXCEPT ![u] = r]
  /\ UNCHANGED <<live, owner, admin, row, assigned>>
AdminChanged ==
  /\ \E u \in User : admin' = IF u \in admin THEN admin \ {u} ELSE admin \cup {u}
  /\ UNCHANGED <<live, owner, role, row, assigned>>
TrashedOrRestored == live' = ~live /\ UNCHANGED <<owner, role, admin, row, assigned>>
AssigneesChanged ==
  /\ \E x \in Rows("task"), u \in User :
       assigned' = IF <<x, u>> \in assigned THEN assigned \ {<<x, u>>}
                   ELSE assigned \cup {<<x, u>>}
  /\ UNCHANGED <<people, row>>
Deleted == (\E x \in Row : row[x].kind # "none" /\ Delete(x)) /\ UNCHANGED people

Others ==
  /\ \/ Transferred \/ MemberChanged \/ AdminChanged \/ TrashedOrRestored
     \/ AssigneesChanged \/ Deleted
  /\ Change

Next ==
  \/ Begin \/ ReadRow \/ ReadTask \/ ReadRole \/ ReadAdmin \/ ReadMyProjects
  \/ \E table \in {"memberships", "owned", "admin"} : ReadRoles(table)
  \/ Write
  \/ Others

Spec == Init /\ [][Next]_vars

-----------------------------------------------------------------------------
\* NULL is no account, row or role.
NullApart == Null \notin User \cup Row \cup Role

\* Types of the tables and of the request.
TypeOK ==
  /\ RowsOK
  /\ assigned \subseteq Rows("task") \X User
  /\ live \in BOOLEAN /\ owner \in User /\ admin \subseteq User
  /\ role \in [User -> Role \cup {Null}]
  /\ asked \in Asking
  /\ asked.row = Null => "gone" \notin asked.held

\* The rank these sources give, and whether they are enough for the request.
Standing(S) ==
  IF S \cap {"owner", "admin"} # {} THEN 4 ELSE Max({RankOf(s) : s \in S} \cup {0})
Entitled(S) ==
  LET own == "own" \in S
      manages == "live" \in S /\ Standing(S) >= RankOf("ADMIN")
      contributes == "live" \in S /\ Standing(S) >= RankOf("MEMBER")
  IN CASE asked.op \in {"updateTask", "updateDocument", "deleteDocument"} ->
            manages \/ (own /\ contributes)
       [] asked.op \in OnComment -> own /\ contributes
       [] asked.op = "removeIssue" -> own \/ manages
       [] OTHER -> contributes

\* Whatever changes during a request, it writes only by rights its user had meanwhile, if
\* not all at the same time; it is refused only to a user who was not entitled, by the
\* same rights, all the time; and the role a list shows is one the user had.
RightsAreThose ==
  At("done") =>
    CASE asked.answer = "written" -> Entitled(asked.held)
      [] asked.answer = "refused" -> ~Entitled(asked.kept)
      [] asked.answer = "missing" -> "gone" \in asked.held
      [] asked.answer = "unlisted" -> ~({"live", "VIEWER"} \subseteq asked.kept)
      [] OTHER -> RankOf(asked.answer) \in Standing(asked.kept)..Standing(asked.held)
=============================================================================
