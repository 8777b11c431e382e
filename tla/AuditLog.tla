------------------------------ MODULE AuditLog ------------------------------
(***************************************************************************)
(* The audit log: AuditInterceptor, which records what routes did, and the   *)
(* queries of AuditService on what it recorded.                              *)
(*                                                                         *)
(* Rows are only ever added, one insert at a time and dated by the database. *)
(* So a row is a position in log, and what a query saw is how long the log   *)
(* was when it ran: the answers below are computed from that length.         *)
(*                                                                         *)
(* Filters tell actions apart by code, category and severity: here an action *)
(* is its category and its severity.  Wording, addresses and targets are     *)
(* left out; they are further demands of the same form as the author's.      *)
(***************************************************************************)
EXTENDS Integers, Sequences, FiniteSetsExt

CONSTANTS Person,        \* accounts
          Request,       \* the audited requests that may come
          Traced,        \* the actions that routes record
          Filter,        \* the filters an administrator sets
          Window,        \* the pages asked for: how many to skip, how many to take
          MaxPageSize, MaxExportSize,
          PerDay,        \* instants in a day
          Week,          \* days of the last indicator
          MaxTime,       \* bound on the clock
          Null

VARIABLES log,       \* rows of table AuditLog
          req,       \* audited requests: those to come, in flight and over
          asked,     \* the question of the administrator
          now

vars == <<log, req, asked, now>>

-----------------------------------------------------------------------------
\* The catalogue: the categories and severities of the actions it describes.
ProjectActions == ({"Projet"} \X {"critical", "warning", "info"})
                     \cup ({"Membres"} \X {"warning", "info"})
WorkActions == {"Taches", "Documents"} \X {"warning", "info"}
PlanningActions == {"Planning"} \X {"warning", "info"}
PeopleActions == ({"Comptes"} \X {"critical", "info"})
                    \cup ({"Suivi", "Agenda"} \X {"warning", "info"})
Catalog == ProjectActions \cup WorkActions \cup PlanningActions \cup PeopleActions

\* Routes also record actions that it does not describe.
RecurrenceAction == <<"none", "recurrence">>
TemplateAction == <<"none", "template">>
Action == Catalog \cup {RecurrenceAction, TemplateAction}

AuditCategories == {"Projet", "Membres", "Taches", "Documents", "Comptes"}
AuditSeverities == {"critical", "warning", "info"}

actionsForCategories(categories) == {a \in Catalog : a[1] \in categories}
actionsForSeverities(severities) == {a \in Catalog : a[2] \in severities}

-----------------------------------------------------------------------------
Entry == [request : Request, action : Action, user : Person, at : Nat]

Audited == [pc : {"new", "running", "failed", "record", "done"},
            action : Action \cup {Null}, user : Person \cup {Null}]
ToCome == [pc |-> "new", action |-> Null, user |-> Null]

\* An empty set of a filter demands nothing; "period" counts days.
FilterRow == [actions : SUBSET Action, categories : SUBSET AuditCategories,
              severities : SUBSET AuditSeverities, users : SUBSET Person,
              period : Nat \cup {Null}, from : Nat \cup {Null}, to : Nat \cup {Null},
              sort : {"asc", "desc"}]

ASSUME AuditAssumption ==
  /\ Traced \subseteq Action /\ Filter \subseteq FilterRow
  /\ Window \subseteq [skip : Nat, take : Nat \ {0}]
  /\ {MaxPageSize, MaxExportSize, PerDay, Week} \subseteq Nat \ {0}
  /\ Null \notin Nat

\* What each question is put together from.
Queries(op) ==
  CASE op \in {"list", "export"} -> {"items", "total"}
    [] op = "options"            -> {"actions", "actors"}
    [] op = "stats"              -> {"total", "overall", "today", "week", "byAction", "authors"}
Query == {"items", "total", "actions", "actors", "overall", "today", "week", "byAction", "authors"}

\* "since" is how long the log was when the question came, "seen" when each query ran.
NoQuestion == [op |-> "none"]
Question == [op : {"list", "export", "options", "stats"}, filter : Filter, window : Window,
             at : Nat, since : Nat, seen : [Query -> Nat \cup {Null}]]

TypeOK ==
  /\ log \in Seq(Entry)
  /\ req \in [Request -> Audited]
  /\ \A r \in Request : req[r].pc # "new" => req[r].action \in Action /\ req[r].user \in Person
  /\ asked \in Question \cup {NoQuestion}
  /\ now \in Nat

Init ==
  /\ log = <<>>
  /\ req = [r \in Request |-> ToCome]
  /\ asked = NoQuestion
  /\ now = 0

-----------------------------------------------------------------------------
(***************************************************************************)
(* Recording.  A request that is refused or fails leaves no trace; the write *)
(* is not waited for, and a failure of it is not told.                       *)
(***************************************************************************)
At(r, step) == req[r].pc = step
Goto(r, step) == req' = [req EXCEPT ![r].pc = step]

Serve(r) ==
  /\ At(r, "new")
  /\ \E a \in Traced, u \in Person :
       req' = [req EXCEPT ![r] = [pc |-> "running", action |-> a, user |-> u]]
  /\ UNCHANGED <<log, asked, now>>

Succeed(r) ==
  /\ At(r, "running")
  /\ Goto(r, "record")
  /\ UNCHANGED <<log, asked, now>>

RowOf(r) == [request |-> r, action |-> req[r].action, user |-> req[r].user, at |-> now]

Fail_Recorded(r) ==
  /\ At(r, "running")
  /\ Goto(r, "failed")
  /\ log' = Append(log, RowOf(r))
  /\ UNCHANGED <<asked, now>>
Fail(r) ==
  /\ At(r, "running")
  /\ Goto(r, "failed")
  /\ UNCHANGED <<log, asked, now>>

Record(r) ==
  /\ At(r, "record")
  /\ Goto(r, "done")
  /\ log' = Append(log, RowOf(r))
  /\ UNCHANGED <<asked, now>>

\* The insert fails, or the process stops before it.
RecordFails(r) ==
  /\ At(r, "record")
  /\ Goto(r, "done")
  /\ UNCHANGED <<log, asked, now>>

Tick ==
  /\ now < MaxTime
  /\ now' = now + 1
  /\ UNCHANGED <<log, req, asked>>

-----------------------------------------------------------------------------
(***************************************************************************)
(* Filters.                                                                 *)
(***************************************************************************)
resolveActionFilter(f) ==
  {a \in Action : /\ f.actions # {} => a \in f.actions
                  /\ f.categories # {} => a \in actionsForCategories(f.categories)
                  /\ f.severities # {} => a \in actionsForSeverities(f.severities)}

\* A date that is given counts, and the period only when there is none.
periodStart(period, at) == IF period = Null THEN Null ELSE at - period * PerDay
buildWhere(f, at) ==
  [actions |-> resolveActionFilter(f),
   users |-> IF f.users = {} THEN Person ELSE f.users,
   from |-> IF f.from # Null THEN f.from ELSE periodStart(f.period, at),
   to |-> f.to]

Matches(e, where) ==
  /\ e.action \in where.actions /\ e.user \in where.users
  /\ where.from # Null => e.at >= where.from
  /\ where.to # Null => e.at <= where.to

\* The rows a query finds among the first n, and those of them on a page.
Found(n, where) == {i \in 1 .. n : Matches(log[i], where)}
Ahead(i, rows, sort) == IF sort = "asc" THEN {j \in rows : j < i} ELSE {j \in rows : j > i}
Page(rows, sort, skip, size) ==
  {i \in rows : Cardinality(Ahead(i, rows, sort)) \in skip .. (skip + size - 1)}


-----------------------------------------------------------------------------
(***************************************************************************)
(* Questions: the queries of each run in any order, and others record in     *)
(* between.                                                                  *)
(***************************************************************************)
Unasked == [q \in Query |-> Null]
Ask(op, f, w) ==
  /\ asked = NoQuestion
  /\ asked' = [op |-> op, filter |-> f, window |-> w, at |-> now,
               since |-> Len(log), seen |-> Unasked]
  /\ UNCHANGED <<log, req, now>>

Run(q) ==
  /\ asked # NoQuestion
  /\ q \in Queries(asked.op) /\ asked.seen[q] = Null
  /\ asked' = [asked EXCEPT !.seen[q] = Len(log)]
  /\ UNCHANGED <<log, req, now>>

Answered == asked # NoQuestion /\ \A q \in Queries(asked.op) : asked.seen[q] # Null

\* The answer is sent, or the connection is lost.
Close ==
  /\ asked # NoQuestion
  /\ asked' = NoQuestion
  /\ UNCHANGED <<log, req, now>>

Next ==
  \/ \E r \in Request :
       Serve(r) \/ Succeed(r) \/ Fail(r) \/ Record(r) \/ RecordFails(r)
  \/ Tick
  \/ \E op \in {"list", "export", "options", "stats"}, f \in Filter, w \in Window : Ask(op, f, w)
  \/ \E q \in Query : Run(q)
  \/ Close

Spec == Init /\ [][Next]_vars

-----------------------------------------------------------------------------
(***************************************************************************)
(* Answers.                                                                 *)
(***************************************************************************)
Where == buildWhere(asked.filter, asked.at)
Rows(q) == Found(asked.seen[q], Where)
Total == Cardinality(Rows("total"))

Least(m, n) == IF m <= n THEN m ELSE n
PageSize == Least(asked.window.take, MaxPageSize)
ListItems == Page(Rows("items"), asked.filter.sort, asked.window.skip, PageSize)

ExportItems == Page(Rows("items"), asked.filter.sort, 0, MaxExportSize)
Truncated_Listed == Cardinality(ExportItems) > MaxExportSize
Truncated == Total > MaxExportSize

OfferedActions == {log[i].action : i \in 1 .. asked.seen["actions"]}
OfferedActors == {log[i].user : i \in 1 .. asked.seen["actors"]}

\* Two indicators put their own dates, the last its own authors, in the place of the filter's.
startOfDay == asked.at - (asked.at % PerDay)
sevenDaysAgo == asked.at - Week * PerDay
From(instant) == [Where EXCEPT !.from = instant, !.to = Null]
Today == Cardinality(Found(asked.seen["today"], From(startOfDay)))
LastSevenDays == Cardinality(Found(asked.seen["week"], From(sevenDaysAgo)))
Overall == asked.seen["overall"]
ByAction_All ==
  [a \in Action |-> Cardinality({i \in 1 .. asked.seen["byAction"] : log[i].action = a})]
ByAction == [a \in Action |-> Cardinality({i \in Rows("byAction") : log[i].action = a})]
DistinctActors ==
  Cardinality({log[i].user : i \in Found(asked.seen["authors"], [Where EXCEPT !.users = Person])})

-----------------------------------------------------------------------------
(***************************************************************************)
(* What the log promises.                                                   *)
(***************************************************************************)
\* AuditInterceptor: a row tells what a request has done, and by whom; none tells it twice,
\* and what was refused is not told at all.
TracesAreTrue ==
  /\ \A i \in 1 .. Len(log) :
       LET r == log[i].request IN
       At(r, "done") /\ log[i].action = req[r].action /\ log[i].user = req[r].user
  /\ \A i, j \in 1 .. Len(log) : log[i].request = log[j].request => i = j

\* What each part of a filter asks of a row, whatever it is translated to.
Demanded(e, f) ==
  /\ f.actions # {} => e.action \in f.actions
  /\ f.categories # {} => e.action \in Catalog /\ e.action[1] \in f.categories
  /\ f.severities # {} => e.action \in Catalog /\ e.action[2] \in f.severities
  /\ f.users # {} => e.user \in f.users
  /\ f.from # Null => e.at >= f.from
  /\ f.from = Null /\ f.period # Null => asked.at - e.at <= f.period * PerDay
  /\ f.to # Null => e.at <= f.to
DemandedAmong(n) == {i \in 1 .. n : Demanded(log[i], asked.filter)}

\* AuditService.list and listForExport: a page holds what was asked for and nothing else,
\* in one piece, as many rows as there are from its beginning up to its size.
PagesFit ==
  Answered /\ asked.op \in {"list", "export"} =>
    LET items == IF asked.op = "list" THEN ListItems ELSE ExportItems
        skip == IF asked.op = "list" THEN asked.window.skip ELSE 0
        size == IF asked.op = "list" THEN PageSize ELSE MaxExportSize
        wanted == DemandedAmong(asked.seen["items"])
    IN /\ items \subseteq wanted
       /\ \A i, k \in items : \A j \in wanted : i < j /\ j < k => j \in items
       /\ IF Cardinality(wanted) <= skip THEN items = {}
          ELSE Cardinality(items) = Least(size, Cardinality(wanted) - skip)

\* AuditService.listForExport: an export that is not marked truncated lacks no more rows than
\* were recorded between its count and its reading; one that is marked does lack some.
ExportsTell ==
  Answered /\ asked.op = "export" =>
    /\ ~Truncated =>
         LET missing == DemandedAmong(asked.since) \ ExportItems
             between == asked.seen["items"] - asked.seen["total"]
         IN missing # {} => Cardinality(missing) <= between
    /\ Truncated => DemandedAmong(Len(log)) # ExportItems

\* AuditService: lists and exports are what was asked for, and say what they leave out.
AnswersFit == TypeOK /\ PagesFit /\ ExportsTell

\* AuditService.getStats: the indicators of one answer agree, up to what was recorded while
\* they were counted, when the filter has no dates and no authors.
FiguresAgree ==
  Answered /\ asked.op = "stats" =>
    LET f == asked.filter
        slack == Len(log) - asked.since
        listed == SumFunction(ByAction)
    IN /\ listed - Total \in -slack .. slack
       /\ Total <= Overall + slack /\ Today <= LastSevenDays + slack
       /\ f.from = Null /\ f.period = Null /\ f.to = Null => LastSevenDays <= Total + slack
       /\ f.users = {} => DistinctActors <= Cardinality(DemandedAmong(Len(log)))

=============================================================================
