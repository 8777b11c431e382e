------------------------------ MODULE MCOffice ------------------------------
(***************************************************************************)
(* The services that share no row and no handler, for TLC: in each behaviour *)
(* the clients call one of them.                                            *)
(***************************************************************************)
EXTENDS AuditLog, TLC

CONSTANTS User, Socket, Watching, Unknown, Restarts,
          Task, Document, Item, Caller,
          Reader, Event,
          Inspected \* a person that filters of the audit log name

VARIABLES part, \* the service that is called
          link, userId, onlineUsers, inbox, listing, view, restarts,
          list, item, listReq,
          audience, exists, setting, event, notices, pushed, mailed

presenceVars == <<link, userId, onlineUsers, inbox, listing, view, restarts>>
listVars == <<list, item, listReq>>
noticeVars == <<audience, exists, setting, event, notices, pushed, mailed>>
officeVars == <<part, vars, presenceVars, listVars, noticeVars>>

Presence == INSTANCE Presence WITH asked <- listing
NumberedLists == INSTANCE NumberedLists WITH Request <- Caller, req <- listReq
Notices == INSTANCE Notices WITH User <- Reader, inbox <- notices

ASSUME SocketsAssumption == Presence!SocketsFit

\* There are finitely many rows to number and handlers that number them.
ASSUME ListAssumption == IsFiniteSet(Item) /\ IsFiniteSet(Caller)

\* An action of a category that filters offer, one of a category they do not, and one of
\* no category; one filter at a time, and two that meet.
SomeTraced == {<<"Projet", "critical">>, <<"Planning", "info">>, RecurrenceAction}
Plain == [actions |-> {}, categories |-> {}, severities |-> {}, users |-> {},
          period |-> Null, from |-> Null, to |-> Null, sort |-> "desc"]
SomeFilters ==
  {Plain,
   [Plain EXCEPT !.actions = {RecurrenceAction, <<"Projet", "critical">>},
                 !.severities = {"critical"}],
   [Plain EXCEPT !.categories = {"Projet"}, !.users = {Inspected}],
   [Plain EXCEPT !.period = 1, !.severities = {"critical", "info"}],
   [Plain EXCEPT !.from = 1, !.period = 1],
   [Plain EXCEPT !.to = 1, !.sort = "asc"]}
SomeWindows == {[skip |-> 0, take |-> 1], [skip |-> 1, take |-> 3]}

\* Requests that are alike come in order, and so do queries that find as many rows.
\* A question is put together from the log alone: of what others do before it and meanwhile,
\* what they record matters.  One that has no pages is asked with one window, one of many
\* queries when little is recorded; one action is always of one person.
Recorded == {log[i].request : i \in 1 .. Len(log)}
Recording == {r \in Request : At(r, "record")}
Order == <<"authors", "byAction", "week", "today", "overall", "total", "items", "actors", "actions">>
AuditInTime ==
  /\ \A r, s \in Request : At(r, "new") /\ req'[r].pc = "running" /\ s < r => ~At(s, "new")
  /\ asked # NoQuestion /\ asked' # NoQuestion =>
       \A i, j \in 1 .. Len(Order) : i < j =>
         /\ asked.seen[Order[i]] # asked'.seen[Order[i]] => asked.seen[Order[j]] # Len(log)
         /\ asked.seen[Order[j]] # asked'.seen[Order[j]] /\ Recording = {}
              /\ Order[i] \in Queries(asked.op) => asked.seen[Order[i]] # Null
  /\ \A r \in Request : req'[r].action = RecurrenceAction => req'[r].user = Inspected
  /\ asked = NoQuestion /\ asked' # NoQuestion =>
       /\ \A r \in Request : At(r, "new") \/ r \in Recorded \cup Recording
       /\ asked'.op # "list" => asked'.window.skip = 0
       /\ asked'.op = "stats" => asked'.since <= 1
       /\ asked'.op \in {"stats", "options"} => \A r \in Recording :
            req[r].user = Inspected /\ req[r].action = <<"Projet", "critical">>
       /\ asked'.op = "options" => asked'.filter = Plain
       /\ asked'.op # "export" => Cardinality(Recording) <= 1
  /\ asked # NoQuestion => asked' # asked \/ log' # log

\* Of users who are alike, one acts.
Actor == CHOOSE u \in Reader : TRUE

\* The people concerned and their settings are any.
NoticesInit ==
  /\ Notices!Init
  /\ \A u \in Reader : setting[u] # Null => setting[u].realtime # setting[u].email
  /\ part # "notices" => /\ audience = [c \in Notices!Circle |-> {}]
                         /\ setting = [u \in Reader |-> Null]

OfficeInit ==
  /\ part \in {"audit", "presence", "lists", "notices"}
  /\ Init /\ Presence!Init /\ NumberedLists!Init
  /\ NoticesInit

\* What changes before anything is announced, or when all of it has been, is no matter:
\* whatever it is, the notices begin with it.  Nor is what they have nothing to do with:
\* other circles, or e-mails when they send none.
NoticesInTime ==
  /\ audience' # audience \/ exists' # exists => \E e \in Event : event[e].pc = "lookup"
  /\ \A u \in Reader : setting'[u] # setting[u] =>
       \E e \in Event : event[e].pc = "sending" /\ event[e].how[u] # "no"
                        /\ u \notin event[e].retuned
  /\ \A e \in Event : event[e].pc = "none" /\ event'[e].pc = "lookup" =>
       /\ event'[e].actor = Actor
       /\ \A c \in Notices!Circle : audience[c] # {} => c = Notices!CircleOf(event'[e].kind)
  /\ \A e \in Event : event'[e].pc # "none" /\ event'[e].kind # "TASK_ASSIGNED" =>
       \A u \in Reader : setting'[u] # Null => setting'[u].email

OfficeNext ==
  \/ /\ part = "audit" /\ Next /\ AuditInTime
     /\ UNCHANGED <<part, presenceVars, listVars, noticeVars>>
  \/ part = "presence" /\ Presence!Next /\ UNCHANGED <<part, vars, listVars, noticeVars>>
  \/ part = "lists" /\ NumberedLists!Next /\ UNCHANGED <<part, vars, presenceVars, noticeVars>>
  \/ /\ part = "notices" /\ Notices!Next /\ NoticesInTime
     /\ UNCHANGED <<part, vars, presenceVars, listVars>>

OfficeSpec == OfficeInit /\ [][OfficeNext]_officeVars /\ Presence!Fairness

\* A service that is not called stays as it began: its invariants are looked at when it is.
\* The gateway: what the server knows of its connections, and what browsers show of it.
PresenceWellFormed == part = "presence" => Presence!TypeOK /\ Presence!ViewsConverge

\* DocumentService and ChecklistService: lists keep the order they were made in.
ListsWellFormed == part = "lists" => NumberedLists!TypeOK /\ NumberedLists!NumberedInOrder

\* As module Notices states it: who is told of an event.
NoticesReachAudience ==
  part = "notices" =>
    Notices!TypeOK /\ Notices!NoticesReachAudience /\ Notices!EmailsFollowNotices

\* As module Presence states it: no connection that was cut keeps its user online.
GhostsVanish == Presence!GhostsVanish
=============================================================================
