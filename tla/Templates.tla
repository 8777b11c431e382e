------------------------------ MODULE Templates ------------------------------
(***************************************************************************)
(* TemplateService: a project is captured as a template, a template becomes *)
(* a project again.  Dates are half days; a task is its place in the order  *)
(* of creation, which is what templates refer to dependencies by.           *)
(***************************************************************************)
EXTENDS Integers, FiniteSetsExt

CONSTANTS Place,  \* bound: the tasks of a project are at places 1..n
          Time,   \* half days a client gives as a date
          Horizon, \* bound: no project is created that ends later
          Null

VARIABLES project,   \* a project: one captured, or one created from a template
          template,  \* the row of table ProjectTemplate captured last
          origin     \* the start of the project, as read by a capture under way

vars == <<project, template, origin>>

PerDay == 2
\* Top-level tasks: start and end when they have one, and the places that block each.
TaskRow == [start : Time \cup {Null}, end : Time \cup {Null}, blockedBy : SUBSET Place]
\* The project has its tasks; each is blocked by earlier ones only.
Project == {p \in [start : Time, end : {Null}, tasks : [Place -> TaskRow]] :
             \A k \in Place : \A q \in p.tasks[k].blockedBy : q < k}
Init ==
  /\ project \in Project
  /\ template = Null
  /\ origin = Null

-----------------------------------------------------------------------------
\* Math.round of a duration in days.
Days(time) == (time + PerDay \div 2) \div PerDay

\* Dates a task does not have default to the start of the project, then to its own start.
StartOf(task, from) == IF task.start = Null THEN from ELSE task.start
EndOf(task, from) == IF task.end = Null THEN StartOf(task, from) ELSE task.end

\* An offset is never negative, a task lasts one day at least.
Captured(task, from) ==
  [offset |-> Max({0, Days(StartOf(task, from) - from)}),
   duration |-> Max({1, Days(EndOf(task, from) - StartOf(task, from))}),
   blockedBy |-> task.blockedBy]
Capture(tasks, from) == [p \in Place |-> Captured(tasks[p], from)]

Begun(t, start) == start + t.offset * PerDay
Ended(t, start) == start + (t.offset + t.duration) * PerDay
\* What instantiate writes in one transaction: the tasks, their dependencies, the project
\* from its start to the end of its last task.
Instance(tasks, start) ==
  [start |-> start,
   end |-> Max({start} \cup {Ended(tasks[p], start) : p \in Place}),
   tasks |-> [p \in Place |-> [start |-> Begun(tasks[p], start),
                               end |-> Ended(tasks[p], start),
                               blockedBy |-> tasks[p].blockedBy]]]

-----------------------------------------------------------------------------
BeginCreateFromProject ==
  /\ origin = Null
  /\ origin' = project.start
  /\ UNCHANGED <<project, template>>

\* The tasks are read after the start of the project, outside any transaction.
CreateFromProject ==
  /\ origin # Null
  /\ template' = Capture(project.tasks, origin)
  /\ origin' = Null
  /\ UNCHANGED project

Instantiate ==
  /\ template # Null /\ origin = Null
  /\ \E start \in Time :
       /\ \A p \in Place : Ended(template[p], start) <= Horizon
       /\ project' = Instance(template, start)
  /\ UNCHANGED <<template, origin>>

\* ProjectService moves the start of the project, also between the two reads.  Tasks are
\* read at once: moving them earlier only makes another project to capture.
MoveProject ==
  /\ \E start \in Time : project' = [project EXCEPT !.start = start]
  /\ UNCHANGED <<template, origin>>

\* The server stops, or a call fails, between the two reads.
Abort ==
  /\ origin # Null
  /\ origin' = Null
  /\ UNCHANGED <<project, template>>

Next ==
  BeginCreateFromProject \/ CreateFromProject \/ Instantiate \/ MoveProject \/ Abort

Spec == Init /\ [][Next]_vars

-----------------------------------------------------------------------------
\* Capturing what a template became gives that template again: instantiate and
\* createFromProject lose nothing to each other, dates or dependencies.
TemplatesRoundTrip ==
  [][CreateFromProject =>
       \A start \in Time : Capture(Instance(template', start).tasks, start) = template']_vars

WholeDays(tasks, from) ==
  \A p \in Place : LET begun == StartOf(tasks[p], from) ended == EndOf(tasks[p], from) IN
    /\ begun >= from /\ ended > begun
    /\ (begun - from) % PerDay = 0 /\ (ended - begun) % PerDay = 0
InOrder(tasks, from) ==
  \A p \in Place : \A q \in tasks[p].blockedBy :
    EndOf(tasks[q], from) <= StartOf(tasks[p], from)

\* A project in whole days, no task of which is empty or starts before it, keeps the
\* order its dependencies ask for in every instance of its template, unless its start
\* moved during the capture.
InstancesKeepOrder ==
  [][CreateFromProject /\ origin = project.start
       /\ WholeDays(project.tasks, origin) /\ InOrder(project.tasks, origin)
     => \A start \in Time : InOrder(Instance(template', start).tasks, start)]_vars
=============================================================================
