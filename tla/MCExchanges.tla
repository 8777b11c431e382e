----------------------------- MODULE MCExchanges -----------------------------
(***************************************************************************)
(* What people exchange, for TLC: calls, the messages of a thread, and the   *)
(* reports on their time.  The three share no row: in each behaviour one of  *)
(* them happens.                                                             *)
(***************************************************************************)
EXTENDS CallLifecycle, TLC

CONSTANTS Take, LastMessage,
          Person, Work, Reporter,
          Entry, Duration, Ended,  \* rows of the reports, how long and on which days
          Settings, FirstSettings, \* what a project may set, and what it begins with
          FirstPerson, FirstEntry

VARIABLES medium, \* what is used
          sent, touched, passed, browser, lost, threadReq,
          people, setting, entry, reportReq

thread == <<sent, touched, passed, browser, lost, threadReq>>
reportVars == <<people, setting, entry, reportReq>>

Messages == INSTANCE DirectMessages WITH Pair <- User, req <- threadReq
Workload == INSTANCE Workload WITH User <- Person, Task <- Work, Minutes <- Duration,
              Day <- Ended, Setting <- Settings, Default <- FirstSettings, Request <- Reporter,
              member <- people, req <- reportReq

ASSUME ThreadAssumption == Take \in Nat /\ LastMessage \in Nat
ASSUME ReportAssumption == Workload!ReportsFit

SomeSettings == {[hours |-> 1, days |-> 2, machine |-> 2]}
DefaultSettings == [hours |-> 8, days |-> 5, machine |-> 0]

\* People, calls and handlers are interchangeable.
Symmetry == Permutations(User) \cup Permutations(Call) \cup Permutations(Request)

\* Of entries that are alike, one comes first; so do people.
WorkloadInit ==
  /\ Workload!Init
  /\ IF medium = "reports"
     THEN entry[FirstEntry] # Null => /\ entry[FirstEntry].user = FirstPerson
                                      /\ entry[FirstEntry].task = (CHOOSE w \in Work : TRUE)
     ELSE people = {} /\ setting = Null /\ entry = [e \in Entry |-> Null]

\* A change is of matter only while something is put together.
ReportsInTime ==
  /\ people' # people => \E r \in DOMAIN reportReq : reportReq[r].pc = "members"
  /\ setting' # setting => \E r \in DOMAIN reportReq : reportReq[r].pc # "idle"

MCInit ==
  /\ medium \in {"calls", "messages", "reports"}
  /\ Init
  /\ Messages!Init
  /\ WorkloadInit
MCNext ==
  \/ medium = "calls" /\ Next /\ UNCHANGED <<medium, thread, reportVars>>
  \/ medium = "messages" /\ Messages!Next /\ UNCHANGED <<medium, vars, reportVars>>
  \/ /\ medium = "reports" /\ Workload!Next /\ ReportsInTime
     /\ UNCHANGED <<medium, vars, thread>>
MCSpec == MCInit /\ [][MCNext]_<<medium, vars, thread, reportVars>>

\* DirectMessageService and ChatService: a conversation is read whole from its end, and
\* is dated by its last message.
MessagesAreFound ==
  medium = "messages" => Messages!TypeOK /\ Messages!PagesMissNothing /\ Messages!TouchedLast

\* WorkloadService and the statistics of TimeEntryService: reports tell the time spent.
WorkloadTellsTime == medium = "reports" => Workload!TypeOK /\ Workload!WorkloadTellsTime
=============================================================================
