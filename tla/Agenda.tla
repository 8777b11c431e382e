------------------------------- MODULE Agenda -------------------------------
(***************************************************************************)
(* CalendarService: the agenda of one person, or of the projects they are   *)
(* in, over a window of days.  It is put together from several reads, while  *)
(* people join and leave, projects are trashed and dates move.              *)
(***************************************************************************)
EXTENDS Naturals, FiniteSetsExt

CONSTANTS User,     \* accounts
          Project,
          Item,     \* rows of tables Task (its deadline), Milestone and Sprint
          Absence,  \* rows of table Absence
          Day,
          Null,
          Changes   \* bound: how many changes happen while an agenda is put together

VARIABLES admin,    \* administrators of the application
          member,   \* who is in which project
          live,     \* projects that are not in the trash
          item,     \* dated rows, or Null
          absence,  \* table Absence, or Null
          asked,    \* the request
          changes   \* history: changes since the request

rows == <<admin, member, live, item, absence>>
vars == <<rows, asked, changes>>

\* "assigned" are the assignees of a task; of other rows there are none.
ItemRow == [kind : {"TASK", "MILESTONE", "SPRINT"}, project : Project, start : Day, end : Day,
            assigned : SUBSET User]
AbsenceRow == [user : User, start : Day, end : Day, refused : BOOLEAN]

Kinds == {"TASK", "MILESTONE", "SPRINT"}
Events == (Item \X Project) \cup (Absence \X User)

\* "todo" are the queries still to run, "projects" and "people" what was read so far, "shown"
\* the events, each with the project or the person it is of.  History: "always" holds what
\* was to be shown all the time, and why; "mine" the projects of the user and "ever" who was
\* in which project, at some time.
Asking == [pc : {"none", "begin", "reading", "answer"},
            todo : SUBSET (Kinds \cup {"people", "absences"}),
            whose : {"personal", "organisation"}, user : User \cup {Null},
            from : Day, to : Day, projects : SUBSET Project, people : SUBSET User,
            shown : SUBSET Events,
            always : SUBSET (Events \X (Project \cup {Null})),
            mine : SUBSET Project, ever : SUBSET (User \X Project)]

-----------------------------------------------------------------------------
\* windowBounds, overlapsWindow: both ends included; what is on one day starts and ends
\* that day.
InWindow_Starting(row, from, to) == row.start >= from /\ row.start <= to
InWindow(row, from, to) == row.start <= to /\ row.end >= from

MyProjects(u) == {p \in live : <<u, p>> \in member}

Items(projects, from, to) ==
  {i \in Item : item[i] # Null /\ item[i].project \in projects /\ InWindow(item[i], from, to)}
Assigned(u, from, to) ==
  {i \in Items(live, from, to) : item[i].kind = "TASK" /\ u \in item[i].assigned}

\* visibleUserIds: colleagues, or everyone for an administrator.
VisibleUsers(u, projects) ==
  IF u \in admin THEN User
  ELSE IF projects = {} THEN {u} ELSE {v \in User : \E p \in projects : <<v, p>> \in member}

\* listMine shows what was refused, listForUsers does not.
Mine(u, from, to) ==
  {a \in Absence : absence[a] # Null /\ absence[a].user = u /\ InWindow(absence[a], from, to)}
ForUsers(people, from, to) ==
  {a \in UNION {Mine(v, from, to) : v \in people} : ~absence[a].refused}

\* Events, as they are answered.
OfProject(items) == {<<i, item[i].project>> : i \in items}
OfPerson(absences) == {<<a, absence[a].user>> : a \in absences}

\* What the agenda is, read at once.
GetPersonal(u, from, to) == OfProject(Assigned(u, from, to)) \cup OfPerson(Mine(u, from, to))
GetOrganisation(u, from, to) ==
  OfProject(Items(MyProjects(u), from, to))
  \cup OfPerson(ForUsers(VisibleUsers(u, MyProjects(u)), from, to))

\* Why each event is in it: a shared project, or, with Null, the person.
Reasons(h) ==
  IF h.whose = "personal" THEN GetPersonal(h.user, h.from, h.to) \X {Null}
  ELSE {<<e, e[2]>> : e \in OfProject(Items(MyProjects(h.user), h.from, h.to))}
       \cup {x \in OfPerson(ForUsers(User, h.from, h.to)) \X (MyProjects(h.user) \cup {Null}) :
               IF h.user \in admin THEN x[2] = Null ELSE <<x[1][2], x[2]>> \in member}

-----------------------------------------------------------------------------
NoRequest == [pc |-> "none", todo |-> {}, whose |-> "personal", user |-> Null, from |-> 0,
              to |-> 0, projects |-> {}, people |-> {}, shown |-> {}, always |-> {},
              mine |-> {}, ever |-> {}]

ItemRows == {i \in ItemRow : i.start <= i.end /\ (i.kind # "SPRINT" => i.start = i.end)
                             /\ (i.kind # "TASK" => i.assigned = {})}
AbsenceRows == {a \in AbsenceRow : a.start <= a.end}

Init ==
  /\ admin \in SUBSET User
  /\ member \in SUBSET (User \X Project)
  /\ live \in SUBSET Project
  /\ item \in [Item -> ItemRows \cup {Null}]
  /\ absence \in [Absence -> AbsenceRows \cup {Null}]
  /\ asked = NoRequest
  /\ changes = 0

At(step) == asked.pc = step

Begin(whose, u, from, to) ==
  /\ At("none") /\ from <= to
  /\ LET h == [NoRequest EXCEPT !.whose = whose, !.user = u, !.from = from, !.to = to,
                 !.pc = IF whose = "personal" THEN "reading" ELSE "begin",
                 !.todo = IF whose = "personal" THEN {"TASK", "absences"}
                          ELSE Kinds \cup {"people"},
                 !.mine = MyProjects(u), !.ever = member]
     IN asked' = [h EXCEPT !.always = Reasons(h)]
  /\ UNCHANGED <<rows, changes>>

ReadMyProjects ==
  /\ At("begin")
  /\ asked' = [asked EXCEPT !.pc = "reading", !.projects = MyProjects(asked.user)]
  /\ UNCHANGED <<rows, changes>>

\* The queries that run side by side; after those of an organisation's agenda, its absences.
Read(query) ==
  LET left == asked.todo \ {query}
      later == asked.whose = "organisation" /\ query # "absences"
      todo == IF left = {} /\ later THEN {"absences"} ELSE left
      rest == [asked EXCEPT !.todo = todo, !.pc = IF todo = {} THEN "answer" ELSE @]
  IN /\ At("reading") /\ query \in asked.todo
     /\ asked' =
          IF query = "people" THEN [rest EXCEPT !.people = VisibleUsers(asked.user, asked.projects)]
          ELSE [rest EXCEPT !.shown = @ \cup
            IF query = "absences"
            THEN OfPerson(IF asked.whose = "organisation"
                          THEN ForUsers(asked.people, asked.from, asked.to)
                          ELSE Mine(asked.user, asked.from, asked.to))
            ELSE OfProject({i \in IF asked.whose = "organisation"
                                  THEN Items(asked.projects, asked.from, asked.to)
                                  ELSE Assigned(asked.user, asked.from, asked.to) :
                            item[i].kind = query})]
     /\ UNCHANGED <<rows, changes>>

\* Other services change one row, which stays in its table.
Change ==
  /\ asked.pc \in {"begin", "reading"} /\ changes < Changes
  /\ \/ /\ \E x \in User \X Project :
             member' = IF x \in member THEN member \ {x} ELSE member \cup {x}
        /\ UNCHANGED <<live, item, absence>>
     \/ /\ \E p \in Project : live' = IF p \in live THEN live \ {p} ELSE live \cup {p}
        /\ UNCHANGED <<member, item, absence>>
     \/ /\ \E i \in Item, row \in ItemRows \cup {Null} :
             /\ item[i] # Null /\ row # Null => row.kind = item[i].kind
             /\ item' = [item EXCEPT ![i] = row]
        /\ UNCHANGED <<member, live, absence>>
     \/ /\ \E a \in Absence, row \in AbsenceRows \cup {Null} :
             absence' = [absence EXCEPT ![a] = row]
        /\ UNCHANGED <<member, live, item>>
  /\ changes' = changes + 1
  /\ UNCHANGED admin
  /\ \E h \in {asked} :
       asked' = [h EXCEPT !.always = @ \cap Reasons(h)', !.mine = @ \cup MyProjects(h.user)',
                          !.ever = @ \cup member']

Next ==
  \/ \E whose \in {"personal", "organisation"}, u \in User, from \in Day, to \in Day :
       Begin(whose, u, from, to)
  \/ ReadMyProjects
  \/ \E query \in Kinds \cup {"people", "absences"} : Read(query)
  \/ Change

Spec == Init /\ [][Next]_vars

-----------------------------------------------------------------------------
TypeOK ==
  /\ admin \subseteq User /\ member \subseteq User \X Project /\ live \subseteq Project
  /\ item \in [Item -> ItemRows \cup {Null}] /\ absence \in [Absence -> AbsenceRows \cup {Null}]
  /\ asked \in Asking /\ changes \in 0..Changes

Days(e) ==
  IF e[1] \in Item THEN item[e[1]].start..item[e[1]].end ELSE absence[e[1]].start..absence[e[1]].end

\* getPersonal, getOrganisation: whatever window is asked for, the agenda shows what lasts
\* on one of its days, of all there is to show, and nothing else.
WindowsShowTheirDays ==
  At("none") =>
    \A u \in User, from \in Day, to \in Day :
      LET among(events) == {e \in events : Days(e) \cap (from..to) # {}} IN
      from <= to =>
        /\ GetPersonal(u, from, to) = among(GetPersonal(u, Min(Day), Max(Day)))
        /\ GetOrganisation(u, from, to) = among(GetOrganisation(u, Min(Day), Max(Day)))

\* What was to be shown all along is shown, whatever changed between two reads; and
\* nothing is shown of a project that was never the user's meanwhile, nor of a person who
\* was never in one of these.
AgendaIsHonest ==
  At("answer") =>
    /\ \A x \in asked.always : x[1] \in asked.shown
    /\ \A e \in asked.shown :
         asked.whose = "organisation" /\ asked.user \notin admin =>
           \/ e[2] \in asked.mine \cup {asked.user}
           \/ \E p \in asked.mine : <<e[2], p>> \in asked.ever
=============================================================================
