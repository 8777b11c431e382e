-------------------------------- MODULE Pert --------------------------------
(***************************************************************************)
(* PertService: expected durations, floats of the tasks and the critical    *)
(* path, over the graph of the project.                                     *)
(*                                                                          *)
(* A Map and an array are functions of the tasks, a loop over them is a     *)
(* fold over the order in which the database listed them.  The nodes are the  *)
(* tasks without a parent; dependencies from other tasks are ignored.         *)
(***************************************************************************)
EXTENDS Schedule

\* Math.round((o + 4m + p) / 6); a task without the three estimates has no duration
\* and counts for nothing on a path.
ExpectedDays(t) ==
  IF estimate[t] = Null THEN 0
  ELSE (estimate[t][1] + 4 * estimate[t][2] + estimate[t][3] + 3) \div 6

Before(t) == {b \in top : <<b, t>> \in Edges}
After(t) == {n \in top : <<t, n>> \in Edges}

\* The relaxation of one task in a pass, forward then backward.
Earlier(es, t, days) ==
  [es EXCEPT ![t] = Max({@} \cup {es[b] + days[b] : b \in Before(t)})]
Later(lf, t, days) ==
  [lf EXCEPT ![t] = Min({@} \cup {lf[n] - days[n] : n \in After(t)})]

\* As many passes over the list as there are tasks.  A pass that changes nothing is
\* followed by passes that change nothing: leaving the loop there is the same.
Turns_OnePass(list) == <<list>>
Turns(list) == [pass \in 1..Len(list) |-> list]

ForwardPass(es, list, days) == FoldLeft(LAMBDA x, t : Earlier(x, t, days), es, list)
EarliestStart(list, days) ==
  FoldLeft(LAMBDA es, pass : ForwardPass(es, pass, days), [t \in top |-> 0], Turns(list))

EndOf(es, days) == Max({0} \cup {es[t] + days[t] : t \in top})
End(list, days) == EndOf(EarliestStart(list, days), days)

BackwardPass(lf, list, days) == FoldLeft(LAMBDA x, t : Later(x, t, days), lf, list)
LatestFinish(list, days, end) ==
  FoldLeft(LAMBDA lf, pass : BackwardPass(lf, pass, days), [t \in top |-> end], Turns(list))

Slack(list, days) ==
  LET es == EarliestStart(list, days)
      lf == LatestFinish(list, days, EndOf(es, days))
  IN  [t \in top |-> Max({0, lf[t] - days[t] - es[t]})]

\* The longest length up to each task, and the predecessor it comes from: the first with
\* the greatest length, none if that is 0, in the order in which the database listed the
\* dependencies of that task.
Best(listed, length, t) ==
  FoldLeft(LAMBDA p, b : IF b \in Before(t) /\ length[b] > (IF p = Null THEN 0 ELSE length[p])
                         THEN b ELSE p,
           Null, listed)
Lengthen(paths, t, prev, days) ==
  [length |-> [paths.length EXCEPT
                 ![t] = days[t] + IF prev = Null THEN 0 ELSE paths.length[prev]],
   prev |-> [paths.prev EXCEPT ![t] = prev]]
PathsPass(paths, list, order, days) ==
  FoldLeft(LAMBDA x, t : Lengthen(x, t, Best(order[t], x.length, t), days), paths, list)
LongestPaths(list, order, days) ==
  FoldLeft(LAMBDA paths, pass : PathsPass(paths, pass, order, days),
           [length |-> [t \in top |-> 0], prev |-> [t \in top |-> Null]], Turns(list))

\* The task listed first among those with the greatest length, if any is listed.
LastTask(list, length) ==
  IF list = <<>> THEN Null
  ELSE FoldLeft(LAMBDA t, u : IF length[u] > length[t] THEN u ELSE t, list[1], list)

BeginGetPertData(r) ==
  /\ Serves(r, "pert")
  /\ \E l \in Listing, order \in [top -> {o \in Listing : ToSet(o) = top}] :
       LET paths == LongestPaths(l, order, [t \in top |-> ExpectedDays(t)])
       IN /\ ToSet(l) = top
          /\ Accept(r, [Resting EXCEPT !.op = "pert", !.pc = "walk", !.listing = l,
                                       !.task = LastTask(l, paths.length), !.prev = paths.prev])
  /\ UNCHANGED <<rows, clean>>

\* The walk back along prev; queue holds the path found so far.  It has no end on a
\* cycle: it stops here one task after it has repeated one.
WalkBack(r) ==
  LET h == req[r] IN
  /\ At(r, "pert", "walk")
  /\ h.task # Null
  /\ Len(h.queue) <= Cardinality(Task)
  /\ req' = [req EXCEPT ![r].queue = <<h.task>> \o @, ![r].task = h.prev[h.task]]
  /\ UNCHANGED <<rows, budget, clean>>

GetPertData(r) ==
  /\ At(r, "pert", "walk")
  /\ req[r].task = Null
  /\ Finish(r)
  /\ UNCHANGED <<rows, budget, clean>>
=============================================================================
