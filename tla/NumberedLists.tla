---------------------------- MODULE NumberedLists ----------------------------
(***************************************************************************)
(* Rows numbered from the last one read plus one: the versions of a         *)
(* document (DocumentService) and the items of a task's checklist           *)
(* (ChecklistService).  Access has been granted.                            *)
(***************************************************************************)
EXTENDS Naturals, FiniteSetsExt

CONSTANTS Document, Task,  \* whose versions, whose items are numbered
          Item,            \* rows of tables DocumentVersion and ChecklistItem
          Request,         \* slots for handlers in flight
          Null

List == Document \cup Task

VARIABLES list,  \* the documents and tasks that exist
          item,  \* tables DocumentVersion and ChecklistItem
          req    \* handlers in flight

vars == <<list, item, req>>

Number == 0..Cardinality(Item) + 1
\* History: "after" holds the rows that were there before its request began.
ItemRow == [row : {"none", "live", "deleted"}, of : List \cup {Null},
            number : Number, after : SUBSET Item]
Handler == [pc : {"idle", "insert"}, of : List \cup {Null}, number : Number,
            after : SUBSET Item]
Resting == [pc |-> "idle", of |-> Null, number |-> 0, after |-> {}]

NoItem(row) == [row |-> row, of |-> Null, number |-> 0, after |-> {}]

Rows(l) == {i \in Item : item[i].row = "live" /\ item[i].of = l}

Init ==
  /\ list = List
  /\ item = [i \in Item |-> NoItem("none")]
  /\ req = [r \in Request |-> Resting]

Finish(r) == req' = [req EXCEPT ![r] = Resting]
Accept(r, h) == req[r] = Resting /\ req' = [req EXCEPT ![r] = h]

\* Versions are numbered from 1, positions from 0, after the greatest of the list.
First(l) == IF l \in Document THEN 1 ELSE 0
NextNumber_Count(l) == First(l) + Cardinality(Rows(l))
NextNumber(l) ==
  IF Rows(l) = {} THEN First(l) ELSE Max({item[i].number : i \in Rows(l)}) + 1

-----------------------------------------------------------------------------
\* The number is computed from the last row; the upload of a version to the file store,
\* as long as it takes, comes after this read.
BeginInsert(r, l) ==
  /\ l \in list
  /\ Accept(r, [pc |-> "insert", of |-> l, number |-> NextNumber(l), after |-> Rows(l)])
  /\ UNCHANGED <<list, item>>
BeginUploadDocumentVersion(r) == \E d \in Document : BeginInsert(r, d)
BeginAdd(r) == \E t \in Task : BeginInsert(r, t)

\* The foreign key refuses a row of a list deleted meanwhile.
Insert(r) ==
  LET h == req[r] IN
  /\ h.pc = "insert"
  /\ IF h.of \in list
     THEN \E i \in Item :
            /\ item[i].row = "none"
            /\ item' = [item EXCEPT ![i] = [row |-> "live", of |-> h.of,
                                            number |-> h.number, after |-> h.after]]
     ELSE UNCHANGED item
  /\ Finish(r)
  /\ UNCHANGED list

\* Deletions read nothing they use but the row itself: of two, one fails.
Remove ==
  /\ \E t \in Task : \E i \in Rows(t) : item' = [item EXCEPT ![i] = NoItem("deleted")]
  /\ UNCHANGED <<list, req>>

\* Versions go with their document, items with their task.
Delete(l) ==
  /\ l \in list
  /\ list' = list \ {l}
  /\ item' = [i \in Item |-> IF i \in Rows(l) THEN NoItem("deleted") ELSE item[i]]
  /\ UNCHANGED req
DeleteDocument == \E d \in Document : Delete(d)
DeleteTask == \E t \in Task : Delete(t)

Abort(r) ==
  /\ req[r] # Resting
  /\ Finish(r)
  /\ UNCHANGED <<list, item>>

Next ==
  \/ \E r \in Request :
       BeginUploadDocumentVersion(r) \/ BeginAdd(r) \/ Insert(r) \/ Abort(r)
  \/ Remove \/ DeleteDocument \/ DeleteTask

Spec == Init /\ [][Next]_vars

-----------------------------------------------------------------------------
\* Types of the tables and of the handlers.
TypeOK ==
  /\ list \subseteq List
  /\ item \in [Item -> ItemRow]
  /\ req \in [Request -> Handler]

\* A row requested once another of its list was there comes after it, whatever is
\* uploaded at the same time or removed in between: the latest version shown is the last
\* one begun, a checklist keeps its order.  A number is shared by no more rows than
\* handlers run at once.
NumberedInOrder ==
  \A i \in Item : item[i].row = "live" =>
    LET mates == Rows(item[i].of) IN
    /\ \A j \in mates \cap item[i].after : item[j].number < item[i].number
    /\ Cardinality({j \in mates : item[j].number = item[i].number}) <= Cardinality(Request)
=============================================================================
