# A model of the project-management backend

TLA+ modules for the NestJS backend of this repository, the TLC configurations
that check them on small instances, and theorems about them proved with TLAPS.

## 1. The system

One Node process serves HTTP and WebSocket requests over one PostgreSQL database
through Prisma. There is no queue, no worker and no scheduler: what looks like a
periodic job (expiring calls, purging the trash) runs inside the next request
that needs it. All the concurrency is between request handlers: every `await`
of a Prisma call lets any other handler run. A single Prisma call is atomic. A
`$transaction` commits atomically, but at READ COMMITTED, PostgreSQL's default:
what it reads first may have changed when it writes. There are no row locks
(`FOR UPDATE`), no version columns and no serializable transactions anywhere in
`src/src`. What protects the data is therefore the order of reads and writes in
each handler, unique keys and foreign keys. Three things live outside the
database: the gateway's map of open sockets and its rooms, which a restart
empties; the cookies of browsers; and files and mails, kept by external services.

### Inventory

| Component (under `src/src/`) | State | Operations that change it | What makes it correct |
|---|---|---|---|
| Task status, `tache/tache.service.ts` | status, completedAt, project status | changeTaskStatus, updateTask | the completion date agrees with the status and stays fixed while the task stays done |
| Hierarchy and dependencies, same file | parentId, TaskDependency | createTask, deleteTask, create/deleteTaskDependency | no dangling or cross-project reference, no cycle, blocked tasks do not start |
| Assignees, comments, same file | TaskAssignment, Comment | assignUsersToTask, unassignUserFromTask, createComment, deleteComment | a task is left to those a request names; only entitled people write |
| Recurrence and checklists, `tache/checklist.service.ts` | TaskRecurrence, ChecklistItem | setRecurrence, removeRecurrence, generateNextOccurrence; add, remove | one occurrence per completion; items keep their order |
| Time tracking, `time-entry/` | TimeEntry | startTimer, stopTimer, createManualTimeEntry, deleteTimeEntry | one running timer per user, closed entries do not change |
| Calls, `call/` | Call, notifications | start, answer, reject, end | outcome and dates agree, nobody is rung twice, an abandoned call blocks nobody |
| Gateway, `app.gateway.ts` | sockets per user, rooms | connect, disconnect, presence:list, join, leave, messages | presence is that of the last socket; who came into a room misses no message |
| Projects and members, `project/project.service.ts` | Project, ProjectMember | create, add, join, remove, change role, transfer, delete, restore, purge | the owner keeps control, nobody acts above their rank, a live project is never purged |
| Access, `common/access/` | none | (reads) | rights are those of the roles, however many reads it takes to know them |
| Invitations, `project/invitation.service.ts` | ProjectInvitation | invite, accept, revoke | one valid link per address; revoked links do not admit |
| Templates, `project/template.service.ts` | ProjectTemplate | createFromProject, instantiate | an instance has the shape of the original |
| Accounts, `auth/auth.service.ts` | User, RefreshToken | register, login, refresh, logout, logoutAll, reset, deleteUser | a session goes on by rotation and ends for good; logout everywhere is total; deletion loses no work |
| Scheduling and PERT, `planning/schedule.service.ts`, `pert.service.ts` | task dates, baseline | rescheduleTask, setBaseline | the cascade ends and settles every dependency; floats are exact |
| Sprints, phases, milestones, `planning/` | rows of those names | create, update, remove, assign | one active sprint, periods in order, dates that follow a status |
| Reports, `planning/burndown.service.ts`, `workload.service.ts` | none | (reads) | they tell what happened |
| Absences and agenda, `calendar/` | Absence | create, update, decide, remove | no overlap, a decision is about the dates it was taken on; an agenda is complete and confined |
| Chat and direct messages, `chat/` | Conversation, ChatMessage | openDirectConversation, sendMessage, getMessages | one thread per pair; a conversation can be read whole |
| Documents, `document/` | Document, DocumentVersion | upload, comment, delete | the latest version is the last one begun |
| Notifications, `notification/` | Notification, NotificationSettings | createNotification, settings | whoever is concerned is told once |
| Issues, `project-issue/` | ProjectIssue | create, update, remove | the date of resolution follows the status |
| Audit log, `common/audit/` | AuditLog | what the interceptor records | a row tells what was done, by whom, once; lists, exports and figures are those of the filter |
| Settings, search, AI, mail, storage | single rows or none | inserts, upserts | (no behaviour over several steps) |

How they interact: the task services, time tracking and recurrence write the same
Task rows and the project's status; the planning services read the dependency
graph the task service builds; every service asks the access service for the
caller's role before it acts; the agenda and the reports put together rows of
several services; deleting an account hands over projects and tasks; services
push notifications without waiting for them. The full list of what is hard to
test, line by line, is `hazards` in `PROJECT.json`.

## 2. Conventions of the modules

* **A handler in flight** is a record in a slot of `req`: its operation `op`,
  its program counter `pc` (the awaited call it makes next) and the values it read
  and will use. One action is one awaited Prisma call, or one `$transaction` at its
  commit; an interactive transaction that reads first and writes later is two
  actions, as READ COMMITTED allows. `Request` is the number of handlers at
  once: with one slot, requests are served one at a time (and may still crash).
* **Promise.all** is a set of reads still to do, taken in any order. Where two of
  them are of one table and no third row matters, they are one read and a count.
* **Begin...** actions stand for the checks a handler makes before its first
  decision that depends on mutable state: existence, and the caller's access,
  which is taken as granted (a refused request changes nothing) except in
  the members modules and in `Contributions`, which are about it. A task's
  project never changes, so reading it early or late is the same.
* **Abort** at any point stands for a database error, a dropped connection or a
  restart of the process: commits stay, the rest of the handler is lost.
* **Rows** carry a state ("none", "live", "gone"): identifiers are never reused
  where a reference could outlive a row. Every foreign key that matters is part of
  the action that could break it (cascade, restrict, set null, or a failed insert).
* **Bounds.** Sets of rows (Task, Entry, Call, Token, ...) bound the number of rows ever
  created: when they are used up an insert fails (the ...Fails actions), as an insert
  may. MaxTime and LastDay bound the clock, Changes what others change during a
  request, Restarts the restarts, Horizon the end of a project.
* **History variables** never influence a guard. `raced`, `stale`, `rushed`, `met`: a
  handler wrote, or is about to, from a read that another has overtaken. Where
  the code keeps a promise except in such a race, the property says so
  instead of restricting the model to one handler; what the repository promises
  without that exception is a run that fails. `held`, `kept`, `always`, `ever`:
  what was true at some time, or all the time, of a request that takes
  several reads.

## 3. Modules

| Module | Models | Notes |
|---|---|---|
| `TaskStore` | rows shared by the task services, handlers in flight | `Unfinished`, `ActiveTimers` are the queries several handlers make |
| `TaskWorkflow` | changeTaskStatus, updateTask (status), recurrence, updateProject (status) | `CompletionPatch` is completionPatch |
| `TimeTracking` | startTimer, stopTimer, manual entries, deletion | the transaction of startTimer is one action |
| `TaskGraph` | createTask, deleteTask, dependencies | the breadth-first search is `Reaches`, stated with closed sets |
| `TaskBoard`, `MCTaskBoard` | composition of the four, their properties | `Client` is the set of operations the clients of an instance call |
| `ProjectMembers` | effective roles, members, ownership, trash and purge of one project | one store with the invitations; `EffectiveRole` is getEffectiveRole, `Writable` what keys and foreign keys let a write do |
| `Invitations` | invite, accept, revoke; composition with `ProjectMembers`, the properties of both | `Offered` are the roles requests name |
| `Contributions` | who may write tasks, documents, comments and issues, and the role a list shows | each read of a check is a step; others change any row between two |
| `MCInvitations` | instances of `Invitations`, and `Contributions` | |
| `Sessions`, `Accounts` | accounts, refresh tokens, cookies, password resets; their properties | a response may be lost after the commit |
| `SessionLife` | what a session is to its owner: opened once, for one person, over for good | the abstract specification `Accounts` implements |
| `MCAccounts` | instances of `Accounts` | |
| `Departures` | deleteUser with its replacement; assignment of tasks | the writes other services may commit are single actions |
| `Conversations` | the channel of a project, its room and history; opening a thread | a browser shows history and live messages |
| `MCTeam` | instances of `Conversations` and `Departures` | |
| `Schedule` | rescheduleTask turn by turn, setBaseline | a handler's copy of the dates is in its record |
| `Pert` | expected durations, floats, critical path | maps are functions, loops are folds over the listed order |
| `Planning` | composition of the two, what they promise | reference definitions: delay without moving the end, longest chain |
| `Iterations` | sprints, phases, milestones, issues, the burndown | |
| `Templates` | capture and instantiation | half days, so that rounding shows |
| `Absences` | requests, overlap check, decision | |
| `Agenda` | personal and organisation agendas, query by query | |
| `MCPlanning` | plans to start from; instances of `Planning` and the four after it | |
| `Presence` | sockets, the map of who is online, browsers' views | FIFO delivery per connection, cuts noticed late, restarts |
| `NumberedLists` | numbers of document versions, positions of checklist items | |
| `Notices` | who is told of an event, in real time and by mail | |
| `AuditLog` | the interceptor, the catalogue, filters and questions of an administrator | a row is a position in `log`; what a query saw is how long `log` was |
| `MCOffice` | instances of the four above | |
| `CallLifecycle` | calls between two people | |
| `DirectMessages` | messages of one thread and its pages | |
| `Workload` | the workload report and time statistics | hours are tenths, as the report rounds them |
| `MCExchanges` | instances of the three above | |
| `TaskBoardProofs`, `InvitationsProofs`, `AccountsProofs`, `CallLifecycleProofs`, `TeamProofs`, `PlanningProofs`, `OfficeProofs` | theorems about the module of that name and what the MC module of its run puts beside it | section 5 |
| `SumsProofs` | what sums over finite sets are | used by `OfficeProofs`, `CallLifecycleProofs` and `PlanningProofs` |

State and code. `task`, `dependencies`, `rule`, `entry`, `projectStatus` are the
tables Task, TaskDependency, TaskRecurrence (keyed by its unique taskId),
TimeEntry and the column Project.status; `call` is the table Call and `notices`
counts the CALL_MISSED notifications of each call. `now` and `today` are `new Date()`.
`project`, `member` and `invitation` are the rows of Project, ProjectMember (keyed by
its unique project and user) and ProjectInvitation; `displaced` remembers the owners
whom somebody else's transfer replaced. `token` is RefreshToken, `reset` the three
columns of User about a reset, `jar` the cookie of a device. `onlineUsers` and
`userId` are the gateway's map and `socket.data.userId`; `inbox`, `view` and `shown` are
what is on its way to a browser and what it makes of it. `log` is the table AuditLog
in the order of its rows, `req` there the audited requests. `period` is Sprint and Phase,
`mark` is Milestone and ProjectIssue. `asked` is the one request of a module in which
others only change rows. The module headers give the rest.

What the modules abstract:

* Titles, descriptions, priorities, file contents: no modelled decision reads them.
  Planning dates are in `Schedule` only. The calendar of a recurrence is one bit: a
  rule with an `until` may be found to be over.
* The status ON_HOLD, COMPLETED and ARCHIVED of a project are one value, OTHER:
  the task services only tell PLANNING from the rest.
* `updateTask` is its status field in the task modules, and who may call it in
  `Contributions`. Its other fields are written as given.
* A rule that is removed and set again while an occurrence of the old one is being
  generated is the same row here and another one in the database, where the last
  write of the generation would fail and be logged.
* A tick is at least a minute in the task modules: the duration of an entry is left
  out there, and is all there is of an entry in `Workload`.
* Members and invitations: one project; an address is the account registered under
  it; the holder of a join code or of a shared link is any user; an account's global
  role is a constant there and a variable in `Contributions` and `Agenda`. The access check
  of an operation on members is one read; `Contributions` takes the same check apart.
* Checks made twice with the same outcome (the access check reads the task, then
  the handler reads it again) are one read.
* An action of the audit log is its category and its severity, the two things besides its
  own code that a filter asks of it; addresses, targets and the text searched for are further
  demands of the same form and left out. Routes record two families of actions
  the catalogue does not describe, which are the last two values of `Action`.
* Hours of a workload report are sums of floats in the code and of whole minutes here. The two
  agree but on an edge, where either outcome is possible here: half a tenth that several
  entries add up to is rounded up or down (`Halves`; one entry alone is exact enough to be
  rounded up), and the tenths of three people or more that add up to the capacity of the machine may come
  out above it (`AtCapacity`). The settings of a project are whole hours and days; the schema
  lets hours be fractions, and the threshold is then a fraction too.
* Of several longest paths to a task, the critical path keeps the first in the order in which
  the database returns the `blockedBy` of that task. No `orderBy` sorts it: it is any order,
  task by task (`LongestPaths`), whatever the order tasks are listed in.
* A logout is its commit and its response: the response that clears the cookie may be lost
  (`ClearCookie`), and leaves a cookie that is revoked.
* Days of the agenda are those of a server in UTC: the code computes its windows in
  local time and absences in UTC.
* The browsers are not part of the repository. What they do with what they get is the
  least that a correct one must: take a snapshot and apply the events that follow, show
  history and live messages together, ask for more as long as there is more.

## 4. Runs

| Run | Instance | What it shows |
|---|---|---|
| board_serial | 1 handler; 3 tasks, or 2 tasks and 2 entries | no cycle; guarded routes start only unblocked tasks; closed entries are frozen; occurrences come from done tasks |
| board_concurrent | 2 handlers; 3 tasks in 2 projects, or 1 task and 3 entries | references survive deletions between a check and a write; completion dates, entries and the number of timers |
| second_occurrence | 1 handler | **fails**: two occurrences for one completion |
| membership | 2 handlers; 3 users, or an administrator and 2 users, or 2 invitations; 1 writer | OWNER rows are the owner's or a displaced owner's; nobody is raised or lowered but from above; a live project is purged only over a restore that was not seen; a purge leaves nothing; what an invitation leads to; by what rights people write |
| owner_removed | 2 users, 1 handler | **fails**: an ADMIN removes the owner |
| planning | all acyclic graphs of 4 tasks and one with a cycle; 3 sprints; 2 tasks in a template; 2 absences; 1 dated row and 1 absence in an agenda | cascade, baseline, floats and critical path; sprints, phases, milestones, issues, burndown; templates; absences and agendas |
| pert_walk | a cycle among 4 tasks | **fails**: the walk along the critical path has no end |
| team | 2 people in a room, 2 messages, 3 threads; 3 colleagues | messages reach who came in; threads bounded; deletion leaves no work to the deleted; assignees are those asked for |
| two_threads | 2 handlers | **fails**: two threads for one pair |
| office | 2 users, 4 sockets, 1 restart; 3 rows in lists; 1 event; 2 audited requests, 6 filters, pages and exports of 1 row | presence and its liveness; numbered lists; notices and e-mails; the rows, the answers and the figures of the audit log |
| accounts | 2 users, 2 devices, 3 tokens, 2 links, 2 handlers | rotation implements `SessionLife`; cookies; logout everywhere; links |
| exchanges | 2 people, 2 calls, 2 handlers, 2 instants; 3 messages in pages of 1; 2 entries | calls; pages; reports |

An MC module that stands for several components chooses one of them, or a set of
operations of one, in its initial state (`instance`, `part`, `medium`, `calls`, `client`):
components put together this way share no row, so that a run is the union of their
behaviours. Composition of components that do share rows is in the modules:
`TaskBoard`, `Invitations`, `Planning`, `Accounts`, `Departures`, `Agenda`.

### Properties

*Tasks.* `DependenciesAcyclic`, `StartsOnlyUnblocked`, `ClosedEntryFrozen` and
`OccurrenceOfDoneTask` are about sequences of legal requests. `CompletedIffDone` and
`CompletionDateStable` hold but for tasks whose status was written from a stale read.
`RowsWellFormed` is the type invariant with the integrity of dependencies, of the hierarchy
and of entries; `ActiveTimersBounded` bounds the running timers of a user by the
number of handlers: one, when requests are served one at a time.

*Members.* `SoleOwner`, `RanksRespected`, `NoLivePurge`; `MembershipWellFormed` is the type
invariant with what a purge leaves (`PurgeIsTotal`); `InvitationsHold` joins the number of valid links of an address and what becomes of each.
`RightsAreThose`: whatever others change during a request, it writes only by rights its
user had meanwhile, and is refused only to one who was not entitled all the time. The
rights need not have been held at one moment, and the code gives no more:
someone assigned while a VIEWER, and a MEMBER by the time the assignment is withdrawn,
may edit the task without ever having been entitled to.

*Planning.* `CascadeSettles`: a commit leaves no new conflict, pushes are least, unless the
propagation was cut. That only a cycle is cut is no property: it holds of four tasks, and is
false of nineteen (see "Claims that fail"). The exception of `NoNewConflict` is the header
of the service: what is in conflict before the move and is not reached by it stays, and
the task the user placed stays where it was put. `PertIsExact` compares floats and
critical path with their definitions on every acyclic graph of four tasks.
`PlanningWellFormed`: types, the baseline (`BaselineHonoursDependencies`: as long as no commit
left the plan in conflict, and no reference mixes two plans, which setBaseline writes when two
of its requests overlap a reschedule that plans a task: a task the later one did not find
planned keeps the dates of the other), periods in order, the number of active sprints; the
burndown tells what happened as long as no task of the sprint is reopened, moved or
deleted afterwards (the curve is rebuilt from what there is), and the list of sprints agrees
with it (on top-level tasks; the list counts sub-tasks and the curve does not).
`DatesFollow`: dates of milestones and issues follow their status, those of an
instance the project its template was taken from.

*People.* `NoMessageMissed`: whoever is in the room and was sent the history shows every
message, or is about to (a handler that has written one has still to emit it), as long as there
are no more than the limit and but for those whose handler died before it emitted them.
`WorkInLivingHands`, `AssigneesAsRequested`, `TeamWellFormed` (threads of a pair are no more than
handlers at once). `PresenceWellFormed`: whatever is on its way, a browser with a
snapshot will show exactly the connected users; `GhostsVanish` is the liveness.
`CalendarHolds`: one absence a day, approvals as read, agendas complete and confined.
`ListsWellFormed`: a row asked for after another comes after it.
`NoticesReachAudience`: who is concerned is told once, nobody else is; nobody gets an e-mail
before everybody named has their notice, nor against their settings, and of those named none
is left out but who declines them. E-mails go out one by one, and each may fail.

*The audit log.* `TracesAreTrue`: no row tells what was refused, and none tells it twice (a
request may have no row: the write is not waited for). `AnswersFit` joins the type
invariant with `PagesFit` (a page is what the filter demands, in one piece and full) and
`ExportsTell` (an export not marked as cut lacks at most as many rows as were recorded
between its count and its reading). `FiguresAgree`: the figures of one answer are
consistent up to what was recorded while they were counted.

*Sessions and exchanges.* `SessionsLive` is `SessionLife!Spec` under the refinement
mapping of `Accounts`: a session is named after the token its login issued, open
while it has a valid token or a refresh under way, and over for good after.
`TokensWellFormed` (one valid token per session, but for overlapping refreshes),
`JarUsable` (the cookie is not a revoked token, but for lost responses),
`LogoutAllIsTotal`, `LinksHold`.
`CallRowsWellFormed` (types, dates, counts, and `NoStaleRinging`: when a start looks for a call
in progress, none has rung beyond the timeout); `CallsSettle`;
`MessagesAreFound` (whoever goes back to the end has seen everything, but for as many
messages as came between a page and its count; nothing is said of messages that two pages
show, as pages counted from a moving end do. The date a thread is listed by is not before any
of its messages, but those a handler has in hand, those lost with one, and those the date had
reached when a slower handler, which had read its clock before, put it back);
`WorkloadTellsTime` (hours, overload and capacity are right within what rounding hides, three
minutes a person and period, whichever way floats fall on an edge).

### Why the bounds are enough

The longest cycle that a search by one edge misses needs three tasks, and the third
task is also the occurrence, the subtask or the blocker of the other two. Two
handlers give every race between two requests; a third would only repeat one of
them against the first two, and the statements that count (timers, ringing calls,
threads, active sprints, shared numbers) are stated in the number of handlers. Two
instants separate "before" from "after" a write, which is all that completion
dates, ends of entries and the timeout (0 ticks, so stale one tick later) compare.

Three users are an actor, a target of the rank between and the one who acts on
either; the invitations need an owner and an invited person, and two invitations
beside one about to be created exceed the bound of two handlers when replacement is
broken. Four tasks hold the diamond with a chord, in which one task is pushed twice
and the second push must go on; plans take every acyclic graph for PERT, and three graphs,
one with a cycle, for the cascade. Three tokens are a login, its
rotation, and another session or a second rotation. Two sockets of one user and one
page that watches hold the cases of a late disconnect; four identifiers let each come
back. Pages of one message and three messages hold a page, one behind it and
one that comes between. Durations of 2, 61 and 100 minutes are rounded down, up, and
against a threshold of one hour. Half days round both ways.
Two audited requests are a row that is there and one that comes between two queries, which
is all that pages and exports of one row can lose or show twice; instants 0 to 2, two to
a day, tell apart today, the days before and a bound given by date.

What TLC is spared. Rows and people that nothing tells apart are symmetric
(never in `Office`, whose `GhostsVanish` is liveness), or one is chosen to act (`Actor`,
`Asker`, `FirstPerson`, `FirstEntry`, `InOrder`). A change that others make matters only between
two reads of the request it could disturb: before the first it is another initial state,
after the last it changes nothing (`NoticesInTime`, `AgendaInTime`, `ReportsInTime`,
`WritingInTime`, `AuditInTime`); deletions are kept to the end, since a write may fail on them. In an
agenda one row is there at a time and is not edited in place; windows begin with
the first day (the invariant `WindowsShowTheirDays` looks at all of them). While people
write, the project holds the row asked about and what that is on, and a second change comes
where most is read (updateTask, getMyProjects). Invitations meet the trash and the purge,
and the restore meets transfers and new members in another instance. While the figures
of the audit log are counted, at most one row is there and at most one, of one action,
is added; queries that find as many rows run in order. These reductions are in the MC
modules, not in the models.

Deadlock is checked in the runs of the task board and of accounts. In the other runs
it is not: a purged project, a deleted team, a thread with all its messages or a commit at
the end of a plan is the end of the model.

### Fairness

`Presence` assumes weak fairness of three actions: an open connection delivers what was
sent on it, the server handles a request it has received, and a connection that is cut
is noticed, because Socket.IO pings its clients and disconnects those who do not
answer; the handlers involved await nothing, so that nothing can fail between. Under these
`GhostsVanish` holds: who has no open connection leaves every view that has been
loaded, or comes back. Connecting, opening pages, cuts and restarts are not fair.

Nothing else may be assumed to happen: a handler may abort at any await and nobody
retries it, and no scheduler exists. What must happen in the end is stated as
safety at the moment it matters: an abandoned call may ring forever in the table,
but never at the moment a start looks for a call in progress (`NoStaleRinging`);
messages written but never emitted are remembered as such (`unsaid`, `lost`).

### Claims that fail

The four failing runs check what the repository says of itself; each is listed under
`findings` with the line it quotes.

* `second_occurrence`: lastGeneratedAt is written and never read.
* `owner_removed`: the owner's row is created with the default role MEMBER, and every
  protection of the owner but the access check looks at that row. (A project made from a
  template is not exposed: its owner's row says OWNER, `template.service.ts:173`.)
* `pert_walk`: the walk back along the predecessors is not bounded, where the floats and
  the cascade are; a cycle makes it endless, and it awaits nothing.
* `two_threads`: looking for a thread and creating it are two calls.

Other divergences met while modelling, not runs of their own. The comment at
`tache.service.ts:928` says that reading the status inside the transaction leaves no
window: at READ COMMITTED it does (the exception of `CompletedIffDone`). The comment at
`app.gateway.ts:413` says a call that was hung up is not relayed: an answered one keeps
its status. The gateway sends the *oldest* 100 messages of a room (`orderBy asc`,
`take 100`, lines 306-307), which `chat.service.ts:269-271` explains it must not.
`schema.prisma` says that the approver of an absence is kept when the request is reopened
and that the date of the decision no longer moves; an update clears both, and a second
decision restamps the date. Leaving a page while its join is under
way leaves the socket in the room, and removing a member from a project removes no socket.
Notices that are started with `void` (projects, invitations, chat, absences) have nobody to catch
their failure, unlike those of tasks (`notifySafely`). A notice that fails suppresses all
e-mails of an assignment. An access token outlives its account by up to 15 minutes.
A person who owns only projects in the trash can be deleted without a
replacement. A template drops the lag of dependencies. The comment at `schedule.service.ts:146` bounds the
propagation because of cycles, and the warning at line 169 calls a cycle probable; but a task
is queued again each time it is pushed, and a plan without a cycle may be cut as well, and
committed with a conflict: a task that blocks all of a chain and lists it in the worst order,
19 tasks and 35 dependencies, would take 172 turns and is cut after 169 (18 tasks still fit).
Of two messages sent at once, the one whose handler read its clock first may be the last to
write the date of the thread (`direct-message.service.ts:254`), which then goes back.

Of the audit service: an export is read and counted side by side, so that one that lacks a row
may say it is whole, where `audit.service.ts:255` promises none is incomplete in silence (the
exception of `ExportsTell`). Figures "follow the filter" (`audit.service.ts:332`), but those of
today and of the last seven days replace its dates, and the number of authors its
authors, so that a figure of the day may exceed the total (`FiguresAgree` compares
them only where the filter lacks these). An action added to the catalogue is "immediately
filterable" (`audit-actions.catalog.ts:8`), but `AUDIT_CATEGORIES`, which filters are
validated against, lacks Planning, Suivi and Agenda, and five actions that routes record
(recurrence, templates) are in no category.

## 5. Proofs

What is proved holds for every value of the constants: any number of tasks, users, calls,
messages and handlers in flight, and any set of operations that clients call. A theorem
whose property is one of a run has its name in `PROJECT.json`. Every proof starts from the
type invariant (`TypeCorrect`), which includes what a handler must have read when it reaches
each step: that is what makes it inductive, since a write uses values that only an
earlier step put in the handler. Then one lemma per family of actions shows what it leaves
alone, and one step per action what it does to the invariant.

**`TaskBoardProofs`**, for any number of handlers:

* `CompletionCorrect` and `CompletionDateFixed`. `CompletedIffDone` is inductive together
  with TypeOK: only a write of a status can change the two fields, and if the status it was
  computed from is still the row's, `CompletionPatch` keeps them together; otherwise the
  task enters `raced`, for good.
* `RowsCorrect`: `RowsWellFormed`. References survive a deletion between a check and a write
  because the write names its row in a foreign key; that parents form a forest, because a
  task is created under one that exists and is nobody's parent yet (a set closed under
  parents that contained the new task would have to contain one of its children).
* `TimersBounded`: `ActiveTimersBounded`. The number of running timers is not inductive; what is
  counted is the running timers of a user together with the handlers that are about to start
  one, which found none. These are at most the handlers there are.

and, with at most one handler at a time (assumption `Alone`):

* `Acyclicity`. `DependenciesAcyclic` alone is not inductive: the invariant adds that a
  handler about to insert an edge checked that the blocked task does not reach the
  blocking one *in the present graph*, which holds because no other handler can insert in
  between and deletions only remove paths (`ReachesMonotone`). `SafeEdge` is the graph
  lemma: such an edge closes no cycle. It is why `Reaches` and `AcyclicOn` are stated
  with sets of tasks instead of paths.
* `UnblockedStarts`, `OccurrencesFollow`, `ClosedEntriesKept`: what the one handler has read is
  still so when it writes.

**`InvitationsProofs`**, for any number of users, administrators, invitations and handlers:

* `MembershipCorrect`. TypeOK includes that an existing project has an owner and no member
  before it exists, and that no handler changes another member on behalf of that
  member itself. A commit marks the other handlers as stale; a lemma (`CommitOK`) shows that
  it changes nothing else in them. After a purge every write needs the project to exist,
  except the two that update invitations by a condition or a key and find none.
* `SoleOwnership`. OWNER is written only by a transfer and, for the owner of a project made from
  a template, by its creation (`OwnerRows`). A transfer demotes its actor, who is
  not its target; the owner it replaces, if another, enters `displaced`.
* `PurgesAuthorized`, `RanksHold`. The inductive invariant says of every handler past its
  check, unless it was overtaken, that what it checked still holds of the tables: the
  actor's rank, the target's role, the state of the project, the invitation. A commit
  that would make it false marks the handler.
* `InvitationsSettled`. Valid links of an address are counted together with the handlers that have
  revoked the others and are about to make one.

and, of `Contributions`, for any number of users, rows and changes:

* `RightsHold`: `RightsAreThose`. What a right comes from is a set
  of sources, so that what changes during a request only adds to what was held and takes
  from what was kept. The invariant (`Underway`) puts what the request has read between
  the two: its role ranks no higher than those held and, table by table, no lower than those
  kept. That a comment's row is gone when its task is, and a request about it missing, needs
  that rows are on rows of the right kind (`RowsOK`) through deletions that cascade.

**`AccountsProofs`**, for any number of accounts, devices, tokens, links and handlers:

* `SessionRefinement`: the rotation of tokens implements `SessionLife`, every step of the handlers
  one of the abstract specification or a stutter. The invariant ties a session to the token
  of its login: every token of it has the same user, and a session without a valid token or a
  refresh under way gets none again.
* `OneToken`: a valid token of a session and the refreshes of it that have revoked theirs and not yet
  issued the next are one, unless the session is in `forked`.
* `UsableCookies`: a cookie, the response on its way to it, and the handler that holds a token of
  the device are related at each step of refresh.
* `LogoutAllTotal`, `LinksCorrectly`.

**`CallLifecycleProofs`**, for any number of people, calls and handlers:

* `FreshRinging`: a start that has cleaned up knows that what rings since then began after its
  clean-up or was younger than the timeout.
* `CallsSettled`: each handler past its read knows the status it found, unless it was overtaken.
* `CallRowsCorrect`: dates match the status; ringing calls of a person are counted with the handlers
  about to create one, notices with the handlers about to send one.

and, of the services `MCExchanges` puts beside it:

* `MessagesFound`: `MessagesAreFound`, for any number of messages, readers and pages. A page is
  counted from the newest message, and messages come in between the count and the query. The
  invariant (`ThreadInv`) says what the handler of a page knows of the browser that asked (`Reads`),
  what the handler of a message has written already (`Writes`), and that what is newer than the
  pages a browser has was shown, is in the hands of a handler or was lost with a connection
  (`Caught`); the query of a page takes exactly the next ones below, however many came. Of the
  date of the thread the invariant (`Dated`) says which messages it may be behind: a handler
  that has read its clock writes that instant whatever another wrote meanwhile, and the
  messages it then puts out of date are those in `passed`.
* `WorkloadTold`: `WorkloadTellsTime`, for any entries, people and periods. The invariant
  (`Reported`) says that a report holds entries of its period and of its people only. The rest is
  arithmetic of sums: entries parted by person or by period add up to the same
  (`SumByParts`), and rounding each of `n` figures moves their sum by no more than `n` halves
  (`SumNear`). Both roundings of an exact half are within three minutes, and both verdicts on a
  machine at its capacity are right, so that the choices floats make change none of it.

**`TeamProofs`**, for any number of people, messages, threads and handlers:

* `NothingMissed`: `NoMessageMissed`. The room is joined before the history is read and a message is
  written before it is emitted. The invariant (`RoomInv`) says what a handler between these two has
  in hand: who is in the room and was sent the history shows what was in the table then, and what
  came since was shown, is in the hands of a handler, or is in `unsaid`.
* `ThreadsDoNotPileUp`: `ThreadsBounded`, counted like timers.

and, for any number of colleagues and tasks, from any instance that fits the tables (`PlansFit`,
which `MCTeam` assumes of its own):

* `NoWorkLeft`: `WorkInLivingHands`. deleteUser computes before its transaction what it will
  reassign. The invariant says that what an account has and the handler does not know of
  came since the handler read it, and that who gave it made it `slipped`.
* `AssignedAsAsked`: `AssigneesAsRequested`. Between its deletions and its last insert a request that
  met no other knows which of its people are assigned: those it is done with.
* `TeamCorrect`: `TeamWellFormed`, the types of both and the bound on threads.

**`PlanningProofs`**, about the services of `MCPlanning`. Of a plan, for any number of tasks,
dependencies (cycles included), lags, dates and handlers:

* `CascadeAlwaysSettles`: `CascadeSettles`. The invariant (`CascadeInv`) says of the copy of the dates
  a handler works on, unless another reschedule overtook it, that what it has not touched is as in
  the table; that a task it pushed is later, as long as it was, and no further than one of
  its blockers asks; and that every conflict left has a reason (`Excused`): its blocking task is
  still in the queue, or it was there before and its blocking task stays, or it is into
  the task the user placed. A pushed task enters the queue, and its end only grows, so that
  neither the reasons of others nor the limits of those pushed before are lost
  in a turn. At the commit the queue is empty and only the excuses of the statement are left. A
  propagation that was cut is exempt, and nothing is proved about when that happens.
* `ReferencesHonourDependencies`: `BaselineHonoursDependencies` by a plan that has no conflict
  (`CleanPlan`), copied as a whole.
* `PlanTypeCorrect`: `TypeOK`, with what a walk along a critical path must hold at each turn.
* `PertCorrect`: `PertIsExact`, for any graph without a cycle and any order in which the database lists
  tasks and dependencies. The loops of the service are folds; a fold over a list is seen as the
  values it has after each turn (`Stages`), which takes no induction over data. The queue of Kahn's
  algorithm holds tasks whose predecessors are all out of it already, so that the
  tasks it has settled are closed under predecessors, and without a cycle it settles all. What the
  passes then compute are windows that are `Tight` (a task starts at once or when one before
  it ends) and `Hung` (it finishes with the project or just before one after it). A
  graph without cycles has one of each, because the tasks on which two of them differ would have one
  without predecessors among them. From these two `SlackExact` has both halves of the statement:
  a delay within the slack fits in the same project, and one day more does not. The way the longest
  path is found from its end is an invariant of the walk (`OnPath`): what has been
  collected is a chain, on tasks that cannot be late, and lasts what is missing from the task at
  hand to the end of the project.

Of sprints, phases and their reports, for any number of rows, points, days and handlers:

* `PlanningCorrect`: `PlanningWellFormed`, which joins the two theorems above about a plan with
  those of `Iterations`. A handler that is about to write the dates of a period holds them in order
  (`PeriodInv`), whatever another wrote since it read. The sprints in progress and the
  handlers about to start one are given a handler each (`Assigned`): when a handler has found no sprint in
  progress, all there are to come are those that handlers, itself included, are about to start. A past evening is what the tasks still say of it
  (`Told`), and points left are those of the tasks not done: the sum of all is the sum of what
  is done and what is left.

Of absences and agendas, for any number of people, rows, days and changes:

* `CalendarAlwaysHolds`: `CalendarHolds`, from three parts. `OneAbsence`: a request that is about
  to write and was not overtaken knows that no row the team sees shares a day with it, and a
  write of another that would overtakes it (`AbsenceInv`). `ApprovalsAsRead`: a decision that was not overtaken is of the
  days it has read (`Informed`), and later writes keep approved days (`Agreed`). `AgendasAreHonest`:
  what was to be shown all along is shown already, or a query for it is still to run (`Due`), and
  whoever is shown was met in a project of the reader (`Met`). `WindowsShowTheirDays` is a fact about
  intervals of days.

Of templates and of milestones and issues:

* `DatesAlwaysFollow`: `DatesFollow`. `TemplatesAreFaithful` rests on the arithmetic of half days
  (`HalfDays`: rounding undoes what doubling does) and on the fact that what is captured lasts a day
  or more (`TemplateInv`). For milestones and issues (`MarkInv`): a handler that is not stale
  knows whether its row is reached or resolved, so that it restamps the date only when that changes.

**`OfficeProofs`**, about the services of `MCOffice`, each on its own. Of the audit log, for any
requests, filters, windows and limits:

* `TracesTrue`: a row is of a request that is done, and the one step that writes it ends it.
* `AnswersCorrect`. The invariant (`SeenSince`) is that a query saw a log no shorter than the one
  its question came to and no longer than the one there is. The rest is about sets of rows: that a
  page in an order holds as many rows as there are, up to its size, is counted without
  induction, from the first row that is left out and the last that is shown.
* `FiguresConsistent`: `FiguresAgree`. Two queries differ at most by the rows recorded between
  them; rows parted by action add up to all of them.

Of `NumberedLists`, for any number of handlers, and of `Notices`, for any people and events:

* `ListsNumbered`: `ListsWellFormed`. That rows share a number is counted together with the
  handlers that are about to write it: while they wait they hold it without a row, and whoever
  reads the rows after one of them wrote gets a greater one. That a finite list has a greatest
  number is drawn from the order on numbers, without induction over data.
* `NoticesHold`: `NoticesReachAudience`. The invariant (`Sound`) ties how far an announcement is with
  a person to their rows, their sockets and their e-mails; a person whose settings changed
  is told by those that were read. Of an announcement that is not looked up yet it says that those
  concerned now lie between those who always were and those who ever were. What a
  restart or an error that nobody catches leaves of sound announcements is sound
  (`StopLeaves`).

Of `Presence`, for any number of people, sockets, browsers and events on their way:

* `PresenceHolds`: `PresenceWellFormed`. The invariant (`PresenceInv`) adds to the convergence of
  views that the gateway counts for a user exactly the sockets it takes for connected. What a
  browser will know once its queue is empty depends, person by person, on the last event
  about them only: that is how the queue is reasoned about, instead of applied in turn.

**`SumsProofs`** is what the sums of reports rest on. The induction theorems of the library take an
operator and cannot be used; here induction is over a set of cases (`EveryNumber`, `EverySubset`),
drawn from the fact that a set of numbers has a smallest member. A sum is a fold in an order
nobody knows: `SumWithout` shows that the order is no matter, and the other lemmas that
a sum of parts is the sum of the whole, that equal terms have equal sums, and that
errors add up.

Assumptions, all of them evaluated by TLC in the runs: NULL is none of the
identifiers, dates or roles (`NullAssumption`, `NullIsNothing`, `NullIsNoDay`, `NullIsNoTask`, `WritersAssumption`), the clock is bounded by a number
(`MaxTimeAssumption`, and of calls `TimeAssumption`), administrators are users (`AdminAssumption`), requests never name
OWNER, which the code refuses first (`OfferedAssumption`), accounts begin live or not at all
(`ProfilesAssumption`), filters and limits are what the DTO admits (`AuditAssumption`), days and half
days are integers (`DayAssumption`, `TimeAssumption`, `LastAwayAssumption`, `AgendaAssumption`), plans and
instances are rows of the tables (`PlansAssumption`, `LeaversAssumption`),
browsers watch by a socket (`SocketsAssumption`), pages have a size (`ThreadAssumption`, `LimitAssumption`),
people, entries and periods of a report are finite in number (`ReportAssumption`), as are the
tasks of a burndown, which have points (`StoryAssumption`), a listing of tasks names
none of them twice (`ListingAssumption`), and
there are finitely many tasks in a plan, handlers at once, and rows to number
(`TaskAssumption`, `RequestAssumption`, `ListAssumption`), which the statements that count or list need. `Alone` is a hypothesis of its theorems: they are about requests one at a time.

Only model-checked: `GhostsVanish`, which is liveness and out of the prover's reach. Every other property of the
passing runs is a theorem. The properties of the failing runs (`PertAnswers`, and three more)
are false, and TLC shows it.

## 6. Not modelled

* The other fields of updateTask, updateProject, of a checklist item, of a template, of
  a profile and of the company's settings: each is one write of what the request
  gives, and nothing modelled is decided by it.
* Lists, search, export, status reports, the Gantt chart, the dashboard, the call log:
  they select rows and lay them out; no state of their own, and nothing else depends on
  what they return. One of them, getMyDocuments, also shows documents of
  projects in the trash.
* The AI assistant, mail, file storage: external services. That a mail is sent is
  counted in `Notices`; that an upload takes long is in `NumberedLists`.
* Reading marks of notifications and conversations, notifyApproachingDeadlines
  (called by nothing), the typing indicator, the relay of `call:signal`, join-chat-room:
  they store nothing that another step reads.
* The lifetime of access tokens: an access is granted where a request begins.
* DTO validation, rate limits, HTTP and logging.

## 7. Plan

1. An abstract task board in which every request is one atomic step, and the
   theorem that `TaskBoard` with one slot implements it.
2. Departures together with the members of a project, so that the rank of a replacement
   can be stated.
