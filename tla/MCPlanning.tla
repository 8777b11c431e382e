----------------------------- MODULE MCPlanning -----------------------------
(***************************************************************************)
(* Plans to start from, for TLC: graphs of four tasks; the sprints, phases, *)
(* milestones and issues of a project; its templates; the absences of people *)
(* and their agendas.  These share no row: in each behaviour the clients call *)
(* one of them.                                                             *)
(***************************************************************************)
EXTENDS Planning, TLC

CONSTANTS t1, t2, t3, t4,
          Sprint, Phase, Milestone, Issue, Story, Points, LastDay,
          Applicant, Absence, LastAway, Reader, Shared, Deadline, Leave, LastShown, Changes,
          Place, Time, Horizon

ASSUME StoryAssumption ==
  IsFiniteSet(Story) /\ Points \in [Story -> Nat] /\ LastDay \in Nat /\ IsFiniteSet(Request)
ASSUME LastAwayAssumption == LastAway \in Nat
ASSUME TimeAssumption == Time \subseteq Int
ASSUME AgendaAssumption ==
  LastShown \in Nat /\ Changes \in Nat /\ Deadline \cap Leave = {} /\ Null \notin Shared

VARIABLES part, \* what is called
          period, mark, story, today, evening, work, calls,
          project, template, origin,
          absence, absenceReq,
          admin, member, live, dated, leave, agenda, changes
iteration == <<period, mark, story, today, evening, work, calls>>
templates == <<project, template, origin>>
absences == <<absence, absenceReq>>
agendas == <<admin, member, live, dated, leave, agenda, changes>>

Row(s, e) == [start |-> s, end |-> e]
Order == <<t1, t2, t3, t4>>
Listed ==
  {SelectSeq(l, LAMBDA t : t \in S) : l \in {Order, <<t4, t3, t2, t1>>}, S \in SUBSET Task}

\* Every acyclic graph of four tasks, up to renaming, and two with a cycle.
Dags == SUBSET {<<Order[p[1]], Order[p[2]]>> : p \in {q \in (1..4) \X (1..4) : q[1] < q[2]}}
Twist == {<<t1, t2>>, <<t1, t3>>, <<t2, t3>>, <<t3, t4>>}
Ring == {<<t1, t2>>, <<t2, t3>>, <<t3, t2>>, <<t3, t4>>}
Fan == {<<t1, t2>>, <<t3, t2>>, <<t2, t4>>}

Plan(g, d, e, n, c, b) ==
  [top |-> Task, lag |-> [x \in g |-> n], dates |-> d, estimate |-> e, client |-> c, budget |-> b]
NoEstimate == [t \in Task |-> Null]
NotPlanned == [t \in Task |-> NoDates]

PertPlans ==
  {Plan(g, NotPlanned, e, 0, {"pert"}, 1) :
     g \in Dags \cup {Ring},
     e \in [Task -> {Null, <<1, 2, 5>>}] \cup [Task -> {<<1, 1, 1>>, <<1, 2, 5>>}]}
SubtaskPlans ==
  {[Plan(Twist, NotPlanned, [x \in Task |-> <<1, 2, 5>>], 0, {"pert"}, 1) EXCEPT !.top = Task \ {t}] :
     t \in Task}
CascadePlans ==
  {Plan(g, d, NoEstimate, n, {"reschedule"}, 1) :
     g \in {Twist, Ring, Fan}, n \in {0, 1}, d \in [Task -> {NoDates, Row(0, 1), Row(2, 2)}]}
OverlapPlans ==
  {Plan(Twist, d, NoEstimate, 0, {"reschedule", "baseline"}, 3) :
     d \in {[t \in Task |-> Row(0, 0)], [t \in Task |-> IF t = t1 THEN NoDates ELSE Row(0, 0)]}}
NoPlan == Plan({}, NotPlanned, NoEstimate, 0, {}, 0)
MCPlans == PertPlans \cup SubtaskPlans \cup CascadePlans \cup OverlapPlans \cup {NoPlan}
RingPlans == {Plan(Ring, NotPlanned, [t \in Task |-> <<1, 1, 1>>], 0, {"pert"}, 1)}
Symmetry == Permutations(Request)

\* One story has points, the other none.
SomePoints == [s \in Story |-> IF s = CHOOSE x \in Story : TRUE THEN 2 ELSE 0]
Profile == {{"createPhase", "updatePhase", "removePhase", "move"},
            {"updateMilestone", "updateIssue", "nextDay"},
            {"createSprint", "updateSprint", "removeSprint"},
            {"createSprint", "assignTasks", "removeSprint", "completeTask", "nextDay"}}

Iterations == INSTANCE Iterations WITH Task <- Story, task <- story, req <- work

Templates == INSTANCE Templates

Absences == INSTANCE Absences WITH User <- Applicant, LastDay <- LastAway, req <- absenceReq

Agenda == INSTANCE Agenda WITH User <- Reader, Project <- Shared, Item <- Deadline,
            Absence <- Leave, Day <- 0..LastShown,
            asked <- agenda, item <- dated, absence <- leave

\* Of users who are alike, one asks.
Asker == CHOOSE u \in Reader : TRUE

AgendaInit ==
  IF part = "agenda"
  THEN /\ admin \in SUBSET {Asker}
       /\ Agenda!Init
       /\ \E d \in Deadline, a \in Leave : Null \in {dated[d], leave[a]}
  ELSE /\ admin = {} /\ member = {} /\ live = {}
       /\ dated = [d \in Deadline |-> Null] /\ leave = [a \in Leave |-> Null]
       /\ agenda = Agenda!NoRequest /\ changes = 0

\* A row is made or deleted while an agenda is put together; what it holds does not vary.
\* As there is one row, which of the other kinds is read first is no matter.  Windows begin
\* with the first day: the state invariant looks at the others.
AgendaInTime ==
  /\ agenda' # agenda => agenda'.user = Asker /\ agenda'.from = 0
  /\ "MILESTONE" \in agenda.todo \ agenda'.todo => "TASK" \notin agenda.todo
  /\ "SPRINT" \in agenda.todo \ agenda'.todo => "MILESTONE" \notin agenda.todo
  /\ \A d \in Deadline : dated'[d] # dated[d] => Null \in {dated[d], dated'[d]}
  /\ \A a \in Leave : leave'[a] # leave[a] => Null \in {leave[a], leave'[a]}

MCInit ==
  /\ Init
  /\ part \in IF client # {} THEN {"plan"}
              ELSE {"iterations", "templates", "absences", "agenda"}
  /\ Iterations!InitRows
  /\ calls \in IF part = "iterations" THEN Profile ELSE {{}}
  /\ IF part = "templates" THEN Templates!Init
     ELSE project = Null /\ template = Null /\ origin = Null
  /\ Absences!Init
  /\ AgendaInit
MCNext ==
  /\ UNCHANGED part
  /\ \/ part = "plan" /\ Next /\ UNCHANGED <<iteration, templates, absences, agendas>>
     \/ part = "iterations" /\ Iterations!Next /\ UNCHANGED <<vars, templates, absences, agendas>>
     \/ part = "templates" /\ Templates!Next /\ UNCHANGED <<vars, iteration, absences, agendas>>
     \/ part = "absences" /\ Absences!Next /\ UNCHANGED <<vars, iteration, templates, agendas>>
     \/ /\ part = "agenda" /\ Agenda!Next /\ AgendaInTime
        /\ UNCHANGED <<vars, iteration, templates, absences>>
MCSpec == MCInit /\ [][MCNext]_<<part, vars, iteration, templates, absences, agendas>>

\* rescheduleTask: the cascade solves what it began with, and moves no more.
CascadeSettles == NoNewConflict /\ LeastPush

\* getPertData: slack and critical path are those of the schedule, on every graph.
PertIsExact == SlackIsDelay /\ CriticalPathSpansProject

\* A service that is not called stays as it began: its invariants are looked at when it is.

\* Rows of the plan are dates, its reference has no conflict, sprints and phases are periods, few
\* sprints are active, and the burndown and the list of sprints say what was and is left.
PlanningWellFormed ==
  /\ part = "plan" => TypeOK /\ BaselineHonoursDependencies
  /\ part = "iterations" =>
       /\ Iterations!TypeOK /\ Iterations!PeriodsInOrder /\ Iterations!ActiveSprintsBounded
       /\ Iterations!SummaryIsBurndown /\ Iterations!BurndownTellsHistory

\* AbsenceService: a person is away once a day, and what was approved is what was read.
\* CalendarService: agendas are complete and confined, whatever window is asked for.
CalendarHolds ==
  /\ part = "absences" => Absences!TypeOK /\ Absences!OneAbsenceADay /\ Absences!ApprovedAsRead
  /\ part = "agenda" => Agenda!TypeOK /\ Agenda!WindowsShowTheirDays /\ Agenda!AgendaIsHonest

\* TemplateService: what a template keeps of a project, and what an instance is.
TemplatesFaithful == Templates!TemplatesRoundTrip /\ Templates!InstancesKeepOrder

\* Dates that follow others do: those of an instance of a template, as they were in the
\* project it was taken from; those of milestones and issues, their status.
DatesFollow == TemplatesFaithful /\ Iterations!DatesOfMarksHold
=============================================================================
