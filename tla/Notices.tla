------------------------------- MODULE Notices -------------------------------
(***************************************************************************)
(* NotificationHelperService, and the notices of chats and absences: once a  *)
(* handler has committed its write and answered, the people concerned are     *)
(* looked up and told one by one, while others are assigned, join, leave or   *)
(* change their settings.                                                     *)
(***************************************************************************)
EXTENDS Naturals, FiniteSets

CONSTANTS User,     \* accounts
          Event,    \* writes that are announced
          Null

VARIABLES audience,  \* assignees of the task, members of the project, who decides on absences
          exists,    \* whether the task and the document do
          setting,   \* table NotificationSettings, or Null
          event,     \* the announcements under way
          inbox,     \* table Notification: how many of an event a user has
          pushed,    \* history: notices sent to the sockets of their user
          mailed     \* history: e-mails sent

vars == <<audience, exists, setting, event, inbox, pushed, mailed>>

Circle == {"assignees", "members", "approvers"}
Settings == [realtime : BOOLEAN, email : BOOLEAN]

\* The kinds of notice, and those they go to: people who are looked up then, or who were
\* named by the write.  A direct message is announced as a CHAT_MENTION of the other one.
OfAssignees == {"TASK_STATUS_CHANGED", "TASK_COMMENT"}
OfMembers == {"DOCUMENT_UPLOADED", "DOCUMENT_COMMENT"}
OfApprovers == {"ABSENCE_REQUESTED"}
Naming == {"TASK_ASSIGNED", "PROJECT_MEMBER_ADDED", "CHAT_MENTION", "DIRECT_MESSAGE",
           "ABSENCE_DECIDED"}
Kind == OfAssignees \cup OfMembers \cup OfApprovers \cup Naming
CircleOf(kind) ==
  CASE kind \in OfAssignees -> "assignees"
    [] kind \in OfMembers \cup {"CHAT_MENTION"} -> "members"
    [] kind \in OfApprovers -> "approvers"
    [] OTHER -> Null

\* Of one person; of a row that may be gone when it is announced; with an e-mail; and with
\* someone to take note when it fails (notifySafely).
Single == {"PROJECT_MEMBER_ADDED", "DIRECT_MESSAGE", "ABSENCE_DECIDED"}
OfRow == OfAssignees \cup OfMembers \cup {"TASK_ASSIGNED", "PROJECT_MEMBER_ADDED"}
Mailing == {"TASK_ASSIGNED", "PROJECT_MEMBER_ADDED"}
Safely == OfAssignees \cup OfMembers \cup {"TASK_ASSIGNED"}

\* "how" is how far each of those told is: "sent" has the notice, "mail" is to get an e-mail
\* too, and "done" is one whose e-mail was sent, or failed.  History: "always" and "ever" are
\* those concerned all the time, or at some time, until they were looked up; "retuned" those
\* whose settings changed since.
How == {"no", "settings", "push", "quiet", "sent", "failed", "mail", "done"}
Announcement == [pc : {"none", "lookup", "sending", "mailing", "lost"}, kind : Kind \cup {Null},
                 actor : User \cup {Null}, named : SUBSET User, how : [User -> How],
                 always : SUBSET User, ever : SUBSET User, retuned : SUBSET User]
NoEvent == [pc |-> "none", kind |-> Null, actor |-> Null, named |-> {},
            how |-> [u \in User |-> "no"], always |-> {}, ever |-> {}, retuned |-> {}]

Init ==
  /\ audience \in [Circle -> SUBSET User]
  /\ exists = TRUE
  /\ setting \in [User -> Settings \cup {Null}]
  /\ event = [e \in Event |-> NoEvent]
  /\ inbox = [u \in User |-> [e \in Event |-> 0]]
  /\ pushed = [u \in User |-> {}]
  /\ mailed = [u \in User |-> {}]

Told(e, how) == {u \in User : event[e].how[u] = how}
Concerned(a) == IF a.kind \in Naming THEN a.named ELSE audience[CircleOf(a.kind)]

-----------------------------------------------------------------------------
\* A handler commits, answers, and leaves the announcement to run on its own.  Of those
\* mentioned in the chat of a project only its members count; nobody decides on their own
\* absence, nor writes to themselves.
Announce(e) ==
  /\ event[e] = NoEvent
  /\ exists
  /\ \E kind \in Kind, actor \in User, named \in SUBSET User :
       LET a == [NoEvent EXCEPT !.pc = "lookup", !.kind = kind, !.actor = actor,
                                !.named = named]
       IN /\ kind \in Naming <=> named # {}
          /\ kind \in Single => Cardinality(named) = 1
          /\ kind = "CHAT_MENTION" => named \subseteq audience["members"]
          /\ kind \in {"DIRECT_MESSAGE", "ABSENCE_DECIDED"} => actor \notin named
          /\ event' = [event EXCEPT ![e] = [a EXCEPT !.always = Concerned(a),
                                                     !.ever = Concerned(a)]]
  /\ UNCHANGED <<audience, exists, setting, inbox, pushed, mailed>>

\* Those told: never the one who acted, except of being a member now.
Recipients_All(a) == Concerned(a)
Recipients(a) == Concerned(a) \ (IF a.kind = "PROJECT_MEMBER_ADDED" THEN {} ELSE {a.actor})

LookUp(e) ==
  LET found == exists \/ event[e].kind \notin OfRow IN
  /\ event[e].pc = "lookup"
  /\ event' = [event EXCEPT
       ![e].pc = IF found THEN "sending" ELSE "lost",
       ![e].how = [u \in User |->
         IF found /\ u \in Recipients(event[e]) THEN "settings" ELSE "no"]]
  /\ UNCHANGED <<audience, exists, setting, inbox, pushed, mailed>>

\* createNotification: someone without settings is told in real time.
InRealTime(u) == setting[u] # Null => setting[u].realtime
ReadSettings(e) ==
  /\ \E u \in Told(e, "settings") :
       event' = [event EXCEPT ![e].how[u] = IF InRealTime(u) THEN "push" ELSE "quiet"]
  /\ UNCHANGED <<audience, exists, setting, inbox, pushed, mailed>>

CreateNotification(e) ==
  /\ \E u \in Told(e, "push") \cup Told(e, "quiet") :
       /\ event' = [event EXCEPT ![e].how[u] = "sent"]
       /\ inbox' = [inbox EXCEPT ![u][e] = @ + 1]
       /\ pushed' = IF event[e].how[u] = "push" THEN [pushed EXCEPT ![u] = @ \cup {e}]
                    ELSE pushed
  /\ UNCHANGED <<audience, exists, setting, mailed>>

\* The server stops: what was to be announced is forgotten.
Got == {"sent", "mail", "done"}
Stopped(announcements) ==
  [e \in Event |-> LET a == announcements[e] IN
    IF a.pc \notin {"lookup", "sending", "mailing"} THEN a
    ELSE [a EXCEPT !.pc = "lost",
                   !.how = [u \in User |-> IF a.how[u] \in Got THEN a.how[u] ELSE "no"]]]

\* One notice fails: the others are on their way already.  But where nobody takes note of
\* it, Node ends the process, unless Sentry is configured.
CreateNotificationFails(e) ==
  /\ \E u \in Told(e, "push") \cup Told(e, "quiet") :
       LET failed == [event EXCEPT ![e].how[u] = "failed"] IN
       \/ event' = failed
       \/ event[e].kind \notin Safely /\ event' = Stopped(failed)
  /\ UNCHANGED <<audience, exists, setting, inbox, pushed, mailed>>

\* sendTaskAssignedEmails: once all notices are made, those told are read again, to find
\* who accepts e-mails.  notifyProjectMemberAdded confirms to the new member, whatever their
\* settings.
ByMail(u) == setting[u] # Null => setting[u].email
ReadRecipients(e) ==
  /\ event[e].pc = "sending" /\ event[e].kind \in Mailing
  /\ Told(e, "sent") # {} /\ \A u \in User : event[e].how[u] \in {"no", "sent"}
  /\ event' = [event EXCEPT
       ![e].pc = "mailing",
       ![e].how = [u \in User |->
         IF u \in Told(e, "sent") /\ (event[e].kind = "TASK_ASSIGNED" => ByMail(u))
         THEN "mail" ELSE event[e].how[u]]]
  /\ UNCHANGED <<audience, exists, setting, inbox, pushed, mailed>>

\* The e-mails are on their way together, and sent in any order.
SendEmail(e) ==
  /\ event[e].pc = "mailing"
  /\ \E u \in Told(e, "mail") :
       /\ event' = [event EXCEPT ![e].how[u] = "done"]
       /\ mailed' = [mailed EXCEPT ![u] = @ \cup {e}]
  /\ UNCHANGED <<audience, exists, setting, inbox, pushed>>

\* One e-mail fails, which is only logged, and the others go on: all of them, when those
\* told or the author of the assignment cannot be read.
SendEmailFails(e) ==
  /\ event[e].pc = "mailing"
  /\ \E u \in Told(e, "mail") : event' = [event EXCEPT ![e].how[u] = "done"]
  /\ UNCHANGED <<audience, exists, setting, inbox, pushed, mailed>>

-----------------------------------------------------------------------------
\* NotificationSettingsService: the row is created, with the default when it is only
\* looked at, or updated; of two creations the unique key on the user refuses one.
ChangeSettings ==
  /\ \E u \in User, to \in Settings :
       /\ setting[u] # to
       /\ setting' = [setting EXCEPT ![u] = to]
       /\ event' = [e \in Event |->
            IF event[e] = NoEvent THEN NoEvent ELSE [event[e] EXCEPT !.retuned = @ \cup {u}]]
  /\ UNCHANGED <<audience, exists, inbox, pushed, mailed>>

\* Other services assign, admit, promote and remove people, or delete the row.
ChangeAudience ==
  /\ \E c \in Circle, u \in User :
       /\ audience' = [audience EXCEPT ![c] = IF u \in @ THEN @ \ {u} ELSE @ \cup {u}]
       /\ event' = [e \in Event |->
            IF event[e].pc = "lookup" /\ event[e].kind \notin Naming
               /\ CircleOf(event[e].kind) = c
            THEN [event[e] EXCEPT !.always = @ \ {u}, !.ever = @ \cup {u}] ELSE event[e]]
  /\ UNCHANGED <<exists, setting, inbox, pushed, mailed>>

Delete ==
  /\ exists
  /\ exists' = FALSE
  /\ UNCHANGED <<audience, setting, event, inbox, pushed, mailed>>

Restart ==
  /\ event' = Stopped(event)
  /\ UNCHANGED <<audience, exists, setting, inbox, pushed, mailed>>

Next ==
  \/ \E e \in Event :
       \/ Announce(e) \/ LookUp(e) \/ ReadSettings(e)
       \/ CreateNotification(e) \/ CreateNotificationFails(e)
       \/ ReadRecipients(e) \/ SendEmail(e) \/ SendEmailFails(e)
  \/ ChangeSettings \/ ChangeAudience \/ Delete \/ Restart

Spec == Init /\ [][Next]_vars

-----------------------------------------------------------------------------
TypeOK ==
  /\ audience \in [Circle -> SUBSET User] /\ exists \in BOOLEAN
  /\ setting \in [User -> Settings \cup {Null}]
  /\ event \in [Event -> Announcement]
  /\ inbox \in [User -> [Event -> Nat]]
  /\ pushed \in [User -> SUBSET Event] /\ mailed \in [User -> SUBSET Event]

\* Whoever is concerned from the write until the people are looked up is told of it
\* once, in real time unless the settings say not to; nobody else is, and nobody of
\* what they did themselves.
NoticesReachAudience ==
  \A e \in Event, u \in User : LET a == event[e] IN
    /\ inbox[u][e] <= (IF u \in a.ever THEN 1 ELSE 0)
    /\ inbox[u][e] > 0 /\ u = a.actor => a.kind = "PROJECT_MEMBER_ADDED"
    /\ inbox[u][e] > 0 /\ u \notin a.retuned => (e \in pushed[u] <=> InRealTime(u))
    /\ a.pc = "sending" /\ a.how[u] = "no" => u \notin a.always \ {a.actor}

\* sendTaskAssignedEmails: nobody gets an e-mail before everybody named has their notice,
\* nor against their settings; and nobody is left out but those who decline e-mails,
\* whatever becomes of the e-mails of the others.
EmailsFollowNotices ==
  \A e \in Event, u \in User : LET a == event[e] IN
    /\ e \in mailed[u] => \A v \in {u} \cup Recipients(a) : inbox[v][e] = 1
    /\ e \in mailed[u] /\ a.kind = "TASK_ASSIGNED" /\ u \notin a.retuned => ByMail(u)
    /\ a.pc = "mailing" /\ u \in Recipients(a) /\ u \notin a.retuned =>
         (a.how[u] = "sent" <=> a.kind = "TASK_ASSIGNED" /\ ~ByMail(u))
=============================================================================
