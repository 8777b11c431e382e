------------------------------ MODULE Workload ------------------------------
(***************************************************************************)
(* The reports on time spent: WorkloadService with the settings of a        *)
(* project that it reads (ProjectSettingsService), and the statistics of    *)
(* TimeEntryService.  Reports show hours, which are counted here in tenths;  *)
(* the unit they are converted to for display is left out.  The code adds    *)
(* floats: a sum is exact but where rounding or a comparison falls on the     *)
(* very edge, and there it may come out on either side.                      *)
(***************************************************************************)
EXTENDS Integers, FiniteSetsExt

CONSTANTS User,     \* accounts
          Task,     \* tasks of the project
          Entry,    \* rows of table TimeEntry, all of the project
          Minutes,  \* durations entries may have
          Day,      \* days on which an entry may end; day 0 is a Monday
          Setting,  \* rows that table ProjectSettings may hold
          Default,  \* the row that is created when there is none
          Request,  \* slots for handlers in flight
          Null

VARIABLES member,   \* members of the project
          setting,  \* its row of table ProjectSettings, or Null
          entry,    \* finished rows of table TimeEntry, or Null
          req       \* handlers in flight

vars == <<member, setting, entry, req>>

\* In whole hours and days, which the schema does not require of the hours.
SettingRow == [hours : Nat, days : Nat, machine : Nat]
EntryRow == [user : User, task : Task, day : Day, minutes : Nat]

\* What the module that instantiates this one assumes.
ReportsFit ==
  /\ Minutes \subseteq Nat /\ Day \subseteq Int /\ Day # {}
  /\ Setting \cup {Default} \subseteq SettingRow
  /\ IsFiniteSet(User) /\ IsFiniteSet(Entry) /\ IsFiniteSet(Day)

Kept == {e \in Entry : entry[e] # Null}

\* "of" is the project, or everything when no project is given; "who" the people listed,
\* "read" the entries found; "down" and "over" are what floats make of the totals on an edge:
\* the half tenths that are rounded down, the periods at capacity that come out above it.
Handler == [pc : {"idle", "create", "members", "entries", "answer"},
            of : {"project", "everything"}, by : {"day", "week"}, from : Day, to : Day,
            setting : SettingRow \cup {Null}, who : SUBSET User, read : SUBSET Entry,
            down : SUBSET (User \X Int), over : SUBSET Int]
Resting == [pc |-> "idle", of |-> "project", by |-> "day", from |-> Min(Day), to |-> Min(Day),
            setting |-> Null, who |-> {}, read |-> {}, down |-> {}, over |-> {}]

Init ==
  /\ member \in SUBSET User
  /\ setting \in Setting \cup {Null}
  /\ entry \in [Entry -> [user : User, task : Task, day : Day, minutes : Minutes] \cup {Null}]
  /\ req = [r \in Request |-> Resting]

At(r, step) == req[r].pc = step
Finish(r) == req' = [req EXCEPT ![r] = Resting]

-----------------------------------------------------------------------------
\* What getWorkload makes of the entries it has read.

\* getWeekStart: back to Monday, from Sunday too.  0 is Sunday.
Weekday(d) == (d + 1) % 7
WeekStart(d) == d - Weekday(d) + (IF Weekday(d) = 0 THEN -6 ELSE 1)
PeriodOf(h, d) == IF h.by = "week" THEN WeekStart(d) ELSE d
Periods(h) == {PeriodOf(h, entry[e].day) : e \in h.read}

Spent(E) == SumFunction([e \in E |-> entry[e].minutes])
TimeIn(h, u, p) == {e \in h.read : entry[e].user = u /\ PeriodOf(h, entry[e].day) = p}

\* Math.round on a tenth.  A half goes up, unless it is a sum of floats a little below it.
Tenths_Down(minutes) == minutes \div 6
Tenths(minutes) == (minutes + 3) \div 6
Halves(h) == {half \in h.who \X Periods(h) :
                LET E == TimeIn(h, half[1], half[2]) IN
                /\ Spent(E) % 6 = 3
                /\ Cardinality({e \in E : entry[e].minutes > 0}) > 1}
Load(h, u, p) ==
  LET minutes == Spent(TimeIn(h, u, p)) IN
  IF <<u, p>> \in h.down THEN minutes \div 6 ELSE Tenths(minutes)
Hours(h, u) == SumFunction([p \in Periods(h) |-> Load(h, u, p)])
TotalHours(h) == SumFunction([u \in h.who |-> Hours(h, u)])

PerPeriod(h, perDay, days) == 10 * perDay * (IF h.by = "week" THEN days ELSE 1)
Threshold(h) ==
  IF h.setting = Null THEN PerPeriod(h, 8, 5)
  ELSE PerPeriod(h, h.setting.hours, h.setting.days)
Overloaded(h, u) == \E p \in Periods(h) : Load(h, u, p) > Threshold(h)

\* The machine is followed up when the project says what it can do a day.  The tenths of
\* three people or more may add up to a little over a whole number of hours.
Machine(h) == h.setting # Null /\ h.setting.machine > 0
Capacity(h) == PerPeriod(h, h.setting.machine, h.setting.days)
Team(h, p) == SumFunction([u \in h.who |-> Load(h, u, p)])
AtCapacity(h) == {p \in Periods(h) : /\ Machine(h) /\ Team(h, p) = Capacity(h)
                                     /\ Cardinality({u \in h.who : Load(h, u, p) > 0}) > 2}
OverCapacity(h, p) == Team(h, p) > Capacity(h) \/ p \in h.over

-----------------------------------------------------------------------------
\* getWorkload: the settings are created the first time they are looked at; of two
\* creations the unique key refuses one, and the report with it.
BeginGetWorkload(r) ==
  /\ req[r] = Resting
  /\ \E of \in {"project", "everything"}, by \in {"day", "week"}, from \in Day, to \in Day :
       /\ from <= to
       /\ req' = [req EXCEPT ![r] = [Resting EXCEPT
            !.of = of, !.by = by, !.from = from, !.to = to,
            !.setting = IF of = "project" THEN setting ELSE Null,
            !.pc = IF of = "everything" THEN "entries"
                   ELSE IF setting = Null THEN "create" ELSE "members"]]
  /\ UNCHANGED <<member, setting, entry>>

CreateSettings(r) ==
  /\ At(r, "create")
  /\ IF setting = Null
     THEN /\ setting' = Default
          /\ req' = [req EXCEPT ![r].pc = "members", ![r].setting = Default]
     ELSE Finish(r) /\ UNCHANGED setting
  /\ UNCHANGED <<member, entry>>

ReadMembers(r) ==
  /\ At(r, "members")
  /\ req' = [req EXCEPT ![r].pc = "entries", ![r].who = member]
  /\ UNCHANGED <<member, setting, entry>>

\* The last day counts to its end; who has left the project is listed with their time.
Within(d, h) == h.from <= d /\ d <= h.to
ReadEntries(r) ==
  /\ At(r, "entries")
  /\ LET found == {e \in Kept : Within(entry[e].day, req[r])}
         h == [req[r] EXCEPT !.pc = "answer", !.read = found,
                !.who = @ \cup {entry[e].user : e \in {e \in found : entry[e].minutes > 0}}]
     IN \E down \in SUBSET Halves(h) :
        \E over \in SUBSET AtCapacity([h EXCEPT !.down = down]) :
          req' = [req EXCEPT ![r] = [h EXCEPT !.down = down, !.over = over]]
  /\ UNCHANGED <<member, setting, entry>>

Answer(r) ==
  /\ At(r, "answer")
  /\ Finish(r)
  /\ UNCHANGED <<member, setting, entry>>

Abort(r) ==
  /\ req[r] # Resting
  /\ Finish(r)
  /\ UNCHANGED <<member, setting, entry>>

UpdateSettings ==
  /\ setting' \in Setting
  /\ UNCHANGED <<member, entry, req>>

AddMember ==
  /\ \E u \in User \ member : member' = member \cup {u}
  /\ UNCHANGED <<setting, entry, req>>

RemoveMember ==
  /\ \E u \in member : member' = member \ {u}
  /\ UNCHANGED <<setting, entry, req>>

Next ==
  \/ \E r \in Request :
       \/ BeginGetWorkload(r) \/ CreateSettings(r) \/ ReadMembers(r) \/ ReadEntries(r)
       \/ Answer(r) \/ Abort(r)
  \/ UpdateSettings \/ AddMember \/ RemoveMember

Spec == Init /\ [][Next]_vars

-----------------------------------------------------------------------------
\* getMyTimeStats of one project, getProjectTimeStats: floored to whole hours.
MyTimeStats(u) == Spent({e \in Kept : entry[e].user = u})
MyByTask(u) == [t \in {entry[e].task : e \in {e \in Kept : entry[e].user = u}} |->
                  Spent({e \in Kept : entry[e].user = u /\ entry[e].task = t})]
ProjectTimeStats == Spent(Kept)
ByUser == [u \in {entry[e].user : e \in Kept} |-> Spent({e \in Kept : entry[e].user = u})]
ByTask == [t \in {entry[e].task : e \in Kept} |-> Spent({e \in Kept : entry[e].task = t})]

-----------------------------------------------------------------------------
\* Types of the tables and of the handlers.
TypeOK ==
  /\ member \subseteq User
  /\ setting \in SettingRow \cup {Null}
  /\ entry \in [Entry -> EntryRow \cup {Null}]
  /\ req \in [Request -> Handler]

\* What was really spent by people, on the same day or between two Mondays.
Together(h, d1, d2) == IF h.by = "week" THEN d1 \div 7 = d2 \div 7 ELSE d1 = d2
Really(h, people, d) ==
  Spent({e \in h.read : entry[e].user \in people /\ Together(h, entry[e].day, d)})
Asked(h) == {d \in Day : h.from <= d /\ d <= h.to}

\* getWorkload: who is told to be overloaded spent three minutes or more over the threshold
\* in some period, and whoever spent more than three minutes over it is told so.
OverloadIsReal(h) ==
  \A u \in h.who : LET Over(d) == Really(h, {u}, d) - 6 * Threshold(h) IN
    /\ Overloaded(h, u) => \E d \in Asked(h) : Over(d) >= 3
    /\ (\E d \in Asked(h) : Over(d) > 3) => Overloaded(h, u)

\* getWorkload: the capacity of the machine is judged on the time of all, three minutes
\* more or less for each of them.
CapacityIsReal(h) ==
  Machine(h) => \A d \in {entry[e].day : e \in h.read} :
    LET over == Really(h, h.who, d) - 6 * Capacity(h)
        margin == 3 * Cardinality(h.who)
    IN /\ OverCapacity(h, PeriodOf(h, d)) => over >= -margin
       /\ ~OverCapacity(h, PeriodOf(h, d)) => over <= margin

\* The hours of a report are those spent on the days it was asked for, whoever spent
\* them and however they are grouped, three minutes more or less a person and period.
HoursAreThose(h) ==
  LET spent == Spent({e \in h.read : entry[e].day \in Asked(h)})
      shown == 6 * TotalHours(h)
      margin == 3 * Cardinality(h.who) * Cardinality(Periods(h))
  IN spent - margin <= shown /\ shown <= spent + margin

\* The statistics of a project are those of its people, and those of its tasks.
StatsAgree ==
  /\ ProjectTimeStats = SumFunction([u \in User |-> MyTimeStats(u)])
  /\ \A u \in User : MyTimeStats(u) = SumFunction(MyByTask(u))
  /\ ProjectTimeStats = SumFunction(ByUser)
  /\ ProjectTimeStats = SumFunction(ByTask)

WorkloadTellsTime ==
  /\ StatsAgree
  /\ \A r \in Request : At(r, "answer") =>
       OverloadIsReal(req[r]) /\ CapacityIsReal(req[r]) /\ HoursAreThose(req[r])
=============================================================================
