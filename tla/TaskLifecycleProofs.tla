------------------------- MODULE TaskLifecycleProofs -------------------------
(***************************************************************************)
(* The invariants of TaskLifecycle, for any number of tasks, folders,      *)
(* checks and requests.                                                    *)
(*                                                                         *)
(* A COMPLETED matching-file task needs a writer that completes it: a      *)
(* check or a file event, each of which knows a folder that held a file    *)
(* (Seen), or a request, which was refused for a matching-file task when   *)
(* it was loaded (ByHand).  The stale copies that checks, mark_overdue and *)
(* requests write back may reopen a task, but never complete one.          *)
(***************************************************************************)
EXTENDS TaskLifecycle, TLAPS

IdleCheck == [pc : {"idle", "list"}, todo : SUBSET Matching, unlisted : SUBSET Folders,
              found : SUBSET Folders, loaded : Row]
ReadCheck == [pc : {"read"}, todo : SUBSET Matching, unlisted : SUBSET Folders,
              found : SUBSET Folders, first : Matching, loaded : Row]
ActType == [t : Tasks, to : Active \cup Resolved, loaded : Row]

\* What checks and requests remember.
Shape == check \in [Checkers -> IdleCheck \cup ReadCheck] /\ act \in [Requests -> ActType \cup {NoAct}]

\* A folder that was seen to hold a file did hold one.
Seen == arrivals \subseteq delivered /\ \A c \in Checkers : check[c].found \subseteq delivered

\* No request completes a matching-file task.
ByHand == \A r \in Requests : act[r] # NoAct /\ act[r].to = "COMPLETED" => act[r].t \notin Matching

Typed == TypeOK /\ Shape
IInv == Typed /\ Seen /\ ByHand /\ CompletedHasDelivery
-----------------------------------------------------------------------------
\* The record of a request in flight is not the empty one.
LEMMA ActIsNotNoAct == NoAct \notin ActType
  BY DEF NoAct, ActType

\* The values of a row and of a check before anything happened.
LEMMA NoRowType == NoRow \in Row /\ NoRow.next = "NULL" /\ NoRow.status = "NONE"
  BY DEF NoRow, Row

\* No check is in flight: nothing is to do, nothing found.
LEMMA NoCheckType ==
  /\ NoCheck \in IdleCheck /\ NoCheck.pc = "idle"
  /\ NoCheck.todo = {} /\ NoCheck.found = {}
  BY NoRowType DEF NoCheck, IdleCheck

\* The invariant holds at first.
LEMMA InitIInv == Init => IInv
  <1> SUFFICES ASSUME Init PROVE IInv
    OBVIOUS
  <1>1. TypeOK
    BY NoRowType, NoCheckType DEF Init, TypeOK
  <1>2. Shape
    BY NoCheckType DEF Init, Shape
  <1>3. Seen /\ ByHand /\ CompletedHasDelivery
    BY NoCheckType, NoRowType, TaskAssumption DEF Init, Seen, ByHand, CompletedHasDelivery
  <1> QED BY <1>1, <1>2, <1>3 DEF IInv, Typed

\* What a session that completes t writes is a row, and has no next check if the
\* session or the row had none.
LEMMA CompletedType ==
  ASSUME NEW loaded \in Row, NEW current \in Row
  PROVE  Completed(loaded, current) \in Row /\ Completed(loaded, current).status = "COMPLETED"
  BY DEF Completed, Column, Row, Resolved

\* A step that writes rows: their types.
LEMMA TaskStep ==
  ASSUME Typed, task' \in [Tasks -> Row], \A t \in Tasks \ Matching : task'[t].next = "NULL",
         UNCHANGED <<late, files, delivered, sweep, act>>, arrivals' \subseteq Folders,
         check' \in [Checkers -> IdleCheck \cup ReadCheck],
         \A c \in Checkers : /\ check'[c].pc = "idle" => check'[c] = NoCheck
                             /\ check'[c].pc = "read" => check'[c].first \in check'[c].todo
  PROVE  Typed'
  <1>1. \A c \in Checkers : check'[c].todo \subseteq Matching
    BY DEF IdleCheck, ReadCheck
  <1> QED BY <1>1 DEF Typed, TypeOK, Shape

\* What the type invariant says of one folder check.
LEMMA CheckFacts ==
  ASSUME Typed, NEW c \in Checkers
  PROVE  /\ check[c] \in IdleCheck \cup ReadCheck
         /\ check[c].pc = "read" => check[c] \in ReadCheck /\ check[c].first \in check[c].todo
         /\ check[c].pc # "read" => check[c] \in IdleCheck
         /\ check[c].pc = "idle" => check[c] = NoCheck
         /\ check[c].todo \subseteq Matching /\ check[c].found \subseteq Folders
         /\ check[c].unlisted \subseteq Folders
  BY DEF Typed, TypeOK, Shape, IdleCheck, ReadCheck

\* A step of one check that only changes what it remembers.
LEMMA CheckStep ==
  ASSUME IInv, NEW c \in Checkers, NEW p, check' = [check EXCEPT ![c] = p],
         UNCHANGED <<task, late, files, delivered, arrivals, sweep, act>>,
         p \in IdleCheck \cup ReadCheck, p.pc = "idle" => p = NoCheck, p.pc = "read" => p.first \in p.todo,
         p.found \subseteq delivered
  PROVE  IInv'
  <1>1. /\ check' \in [Checkers -> IdleCheck \cup ReadCheck] /\ check'[c] = p
        /\ \A x \in Checkers \ {c} : check'[x] = check[x]
    BY DEF IInv, Typed, Shape
  <1>2. Typed'
    BY <1>1, TaskStep DEF IInv, Typed, TypeOK
  <1>3. Seen' /\ ByHand' /\ CompletedHasDelivery'
    BY <1>1 DEF IInv, Seen, ByHand, CompletedHasDelivery
  <1> QED BY <1>2, <1>3 DEF IInv

\* A step that writes rows and completes a matching-file task only if its folder
\* held a file; a check may end with it.
LEMMA RowStep ==
  ASSUME IInv, task' \in [Tasks -> Row], \A t \in Tasks \ Matching : task'[t].next = "NULL",
         UNCHANGED <<late, files, delivered, sweep, act>>, arrivals' \subseteq arrivals,
         \A t \in Matching : task'[t].status = "COMPLETED" =>
           task[t].status = "COMPLETED" \/ FolderOf[t] \in delivered,
         \A c \in Checkers : check'[c] = check[c] \/ check'[c] = NoCheck, DOMAIN check' = Checkers,
         check' = [c \in Checkers |-> check'[c]]
  PROVE  IInv'
  <1>1. /\ check' \in [Checkers -> IdleCheck \cup ReadCheck]
        /\ \A c \in Checkers : /\ check'[c].pc = "idle" => check'[c] = NoCheck
                               /\ check'[c].pc = "read" => check'[c].first \in check'[c].todo
                               /\ check'[c].found \subseteq delivered
    BY CheckFacts, NoCheckType DEF IInv, Seen
  <1>2. Typed'
    BY <1>1, TaskStep DEF IInv, Typed, TypeOK
  <1>3. Seen' /\ ByHand' /\ CompletedHasDelivery'
    BY <1>1 DEF IInv, Seen, ByHand, CompletedHasDelivery
  <1> QED BY <1>2, <1>3 DEF IInv
-----------------------------------------------------------------------------
\* The world.
LEMMA WorldStep ==
  ASSUME IInv, NEW t \in Tasks,
         Materialize(t) \/ DeleteTask(t) \/ BecomeLate(t) \/ IntervalPasses(t)
  PROVE  IInv'
  <1>1. ASSUME NEW x \in Row, task' = [task EXCEPT ![t] = x], t \notin Matching => x.next = "NULL",
               x.status = "COMPLETED" => task[t].status = "COMPLETED",
               UNCHANGED <<late, files, delivered, arrivals, check, sweep, act>>
        PROVE  IInv'
    <2>1. task' \in [Tasks -> Row] /\ \A y \in Tasks : task'[y] = IF y = t THEN x ELSE task[y]
      BY <1>1 DEF IInv, Typed, TypeOK
    <2>2. check' = [c \in Checkers |-> check'[c]] /\ DOMAIN check' = Checkers
      BY <1>1 DEF IInv, Typed, Shape
    <2>3. /\ \A y \in Tasks \ Matching : task'[y].next = "NULL"
          /\ \A y \in Matching : task'[y].status = "COMPLETED" => task[y].status = "COMPLETED"
      BY <1>1, <2>1, TaskAssumption DEF IInv, Typed, TypeOK
    <2> QED BY <1>1, <2>1, <2>2, <2>3, RowStep
  <1>2. CASE Materialize(t)
    <2> DEFINE x == [status |-> IF t \in late THEN "OVERDUE" ELSE "PENDING",
                     next |-> IF t \in Matching THEN "due" ELSE "NULL"]
    <2>1. x \in Row /\ (t \notin Matching => x.next = "NULL") /\ x.status # "COMPLETED"
      BY DEF Row, Open, Active
    <2>2. task' = [task EXCEPT ![t] = x] /\ UNCHANGED <<late, files, delivered, arrivals, check, sweep, act>>
      BY <1>2 DEF Materialize
    <2> HIDE DEF x
    <2> QED BY <1>1, <2>1, <2>2
  <1>3. CASE DeleteTask(t)
    <2> DEFINE x == [status |-> "DELETED", next |-> "NULL"]
    <2>1. x \in Row /\ x.next = "NULL" /\ x.status # "COMPLETED"
      BY DEF Row
    <2>2. task' = [task EXCEPT ![t] = x] /\ UNCHANGED <<late, files, delivered, arrivals, check, sweep, act>>
      BY <1>3 DEF DeleteTask
    <2> HIDE DEF x
    <2> QED BY <1>1, <2>1, <2>2
  <1>4. CASE BecomeLate(t)
    BY <1>4 DEF BecomeLate, IInv, Typed, TypeOK, Shape, Seen, ByHand, CompletedHasDelivery
  <1>5. CASE IntervalPasses(t)
    <2> DEFINE x == [task[t] EXCEPT !.next = "due"]
    <2>1. x \in Row /\ t \in Matching /\ x.status = task[t].status
      BY <1>5 DEF IntervalPasses, IInv, Typed, TypeOK, Row
    <2>2. task' = [task EXCEPT ![t] = x] /\ UNCHANGED <<late, files, delivered, arrivals, check, sweep, act>>
      BY <1>5 DEF IntervalPasses
    <2> HIDE DEF x
    <2> QED BY <1>1, <2>1, <2>2
  <1> QED BY <1>2, <1>3, <1>4, <1>5

\* Files come and go; a folder that held one stays in the history.
LEMMA FileStep ==
  ASSUME IInv, NEW f \in Folders, (\E portal \in BOOLEAN : Deliver(f, portal)) \/ RemoveFile(f)
  PROVE  IInv'
  <1>1. /\ UNCHANGED <<task, late, check, sweep, act>>
        /\ files' \subseteq delivered' /\ delivered \subseteq delivered' /\ delivered' \subseteq Folders
        /\ arrivals' \subseteq delivered'
    BY DEF Deliver, RemoveFile, IInv, Typed, TypeOK, Seen
  <1>2. Typed'
    BY <1>1 DEF IInv, Typed, TypeOK, Shape
  <1>3. Seen' /\ ByHand' /\ CompletedHasDelivery'
    BY <1>1 DEF IInv, Seen, ByHand, CompletedHasDelivery
  <1> QED BY <1>2, <1>3 DEF IInv

\* A file event completes tasks of a folder that held the file.
LEMMA FileEventStep ==
  ASSUME IInv, NEW f \in Folders, FileEvent(f)
  PROVE  IInv'
  <1>1. task' = [t \in Tasks |-> IF t \in Matching /\ FolderOf[t] = f /\ Unresolved(t)
                                 THEN Completed(task[t], task[t]) ELSE task[t]]
        /\ arrivals' = arrivals \ {f} /\ UNCHANGED <<late, files, delivered, check, sweep, act>>
    BY DEF FileEvent
  <1>2. f \in delivered
    BY DEF FileEvent, IInv, Seen
  <1>3. \A t \in Tasks : task[t] \in Row /\ Completed(task[t], task[t]) \in Row
    BY CompletedType DEF IInv, Typed, TypeOK
  <1>4. task' \in [Tasks -> Row] /\ \A t \in Tasks \ Matching : task'[t].next = "NULL"
    BY <1>1, <1>3 DEF IInv, Typed, TypeOK
  <1>5. \A t \in Matching : task'[t].status = "COMPLETED" =>
          task[t].status = "COMPLETED" \/ FolderOf[t] \in delivered
    BY <1>1, <1>2, TaskAssumption
  <1>6. check' = [c \in Checkers |-> check'[c]] /\ DOMAIN check' = Checkers
    BY <1>1 DEF IInv, Typed, Shape
  <1> QED BY <1>1, <1>4, <1>5, <1>6, RowStep
-----------------------------------------------------------------------------
\* A check is started on matching-file tasks, and has seen nothing.
LEMMA StartStep ==
  ASSUME IInv, NEW c \in Checkers, NEW todo \in SUBSET Matching, StartCheck(c, todo)
  PROVE  IInv'
  <1> DEFINE p == [NoCheck EXCEPT !.pc = "list", !.todo = todo, !.unlisted = {FolderOf[t] : t \in todo}]
  <1>1. {FolderOf[t] : t \in todo} \subseteq Folders
    BY TaskAssumption
  <1>2. p \in IdleCheck /\ p.pc = "list" /\ p.found = {}
    BY <1>1, NoRowType DEF NoCheck, IdleCheck
  <1>3. check' = [check EXCEPT ![c] = p] /\ UNCHANGED <<task, late, files, delivered, arrivals, sweep, act>>
    BY DEF StartCheck
  <1> HIDE DEF p
  <1> QED BY <1>2, <1>3, CheckStep

\* A listing sees a file only in a folder that holds it.
LEMMA ListStep ==
  ASSUME IInv, NEW c \in Checkers, NEW f \in Folders, ListFolder(c, f) \/ ListFails(c, f)
  PROVE  IInv'
  <1>1. PICK found \in SUBSET delivered : List(c, f, found)
    BY DEF ListFolder, ListFails, IInv, Typed, TypeOK
  <1> DEFINE p == [check[c] EXCEPT !.unlisted = @ \ {f}, !.found = @ \cup found]
  <1>2. check' = [check EXCEPT ![c] = p] /\ UNCHANGED <<task, late, files, delivered, arrivals, sweep, act>>
    BY <1>1 DEF List
  <1>3. check[c].pc # "idle"
    BY <1>1, CheckFacts DEF List, NoCheck, IInv
  <1>4. delivered \subseteq Folders /\ check[c].found \subseteq delivered
    BY DEF IInv, Typed, TypeOK, Seen
  <1>5. /\ p \in IdleCheck \cup ReadCheck /\ p.pc = check[c].pc /\ p.found \subseteq delivered
        /\ p.pc = "read" => p.first \in p.todo
    <2>1. found \subseteq Folders
      BY <1>4
    <2>2. CASE check[c] \in IdleCheck
      BY <1>4, <2>1, <2>2 DEF IdleCheck
    <2>3. CASE check[c] \in ReadCheck
      <3>1. check[c].first \in check[c].todo
        BY <2>3, CheckFacts DEF ReadCheck, IInv
      <3> QED BY <1>4, <2>1, <2>3, <3>1 DEF ReadCheck
    <2> QED BY <2>2, <2>3, CheckFacts DEF IInv
  <1> HIDE DEF p
  <1> QED BY <1>2, <1>3, <1>5, CheckStep

\* Reading a task changes nothing of what was seen.
LEMMA ReadStep ==
  ASSUME IInv, NEW c \in Checkers, ReadTask(c)
  PROVE  IInv'
  <1> DEFINE p == check[c]
  <1>1. p \in IdleCheck /\ p.found \subseteq delivered /\ p.pc = "list"
    BY CheckFacts DEF ReadTask, IInv, Seen
  <1>2. PICK t \in p.todo :
          check' = [check EXCEPT ![c] = IF Unresolved(t)
                      THEN [pc |-> "read", todo |-> p.todo, unlisted |-> {},
                            found |-> p.found, first |-> t, loaded |-> task[t]]
                      ELSE IF p.todo = {t} THEN NoCheck ELSE [p EXCEPT !.todo = p.todo \ {t}]]
    BY DEF ReadTask
  <1>3. t \in Matching /\ task[t] \in Row
    BY <1>1, TaskAssumption DEF IdleCheck, IInv, Typed, TypeOK
  <1>4. UNCHANGED <<task, late, files, delivered, arrivals, sweep, act>>
    BY DEF ReadTask
  <1>5. CASE Unresolved(t)
    <2> DEFINE n == [pc |-> "read", todo |-> p.todo, unlisted |-> {},
                     found |-> p.found, first |-> t, loaded |-> task[t]]
    <2>1. /\ n \in ReadCheck /\ n.pc = "read" /\ n.first \in n.todo
          /\ n.found \subseteq delivered
      BY <1>1, <1>3 DEF IdleCheck, ReadCheck
    <2>2. check' = [check EXCEPT ![c] = n]
      BY <1>2, <1>5
    <2> HIDE DEF n
    <2> QED BY <1>4, <2>1, <2>2, CheckStep
  <1>6. CASE ~Unresolved(t) /\ p.todo = {t}
    <2>1. check' = [check EXCEPT ![c] = NoCheck]
      BY <1>2, <1>6
    <2> QED BY <1>4, <2>1, NoCheckType, CheckStep
  <1>7. CASE ~Unresolved(t) /\ p.todo # {t}
    <2> DEFINE n == [p EXCEPT !.todo = p.todo \ {t}]
    <2>1. n \in IdleCheck /\ n.pc = "list" /\ n.found \subseteq delivered
      BY <1>1 DEF IdleCheck
    <2>2. check' = [check EXCEPT ![c] = n]
      BY <1>2, <1>7
    <2> HIDE DEF n
    <2> QED BY <1>4, <2>1, <2>2, CheckStep
  <1> QED BY <1>5, <1>6, <1>7

\* A check completes tasks whose folder it saw with a file, and postpones others.
LEMMA WriteStep ==
  ASSUME IInv, NEW c \in Checkers, WriteChecks(c)
  PROVE  IInv'
  <1> DEFINE p == check[c]
  <1>1. p \in ReadCheck /\ p.first \in Matching /\ p.todo \subseteq Matching /\ p.found \subseteq delivered
    BY CheckFacts DEF WriteChecks, IInv, Seen, ReadCheck
  <1>2. /\ check' = [check EXCEPT ![c] = NoCheck] /\ UNCHANGED <<late, files, delivered, arrivals, sweep, act>>
    BY DEF WriteChecks
  <1>3. check' = [x \in Checkers |-> check'[x]] /\ DOMAIN check' = Checkers
        /\ \A x \in Checkers : check'[x] = check[x] \/ check'[x] = NoCheck
    BY <1>2 DEF IInv, Typed, Shape
  <1>4. ASSUME NEW t \in Matching, NEW loaded \in Row
        PROVE  /\ Checked(c, t, loaded) \in Row
               /\ Checked(c, t, loaded).status = "COMPLETED" =>
                    task[t].status = "COMPLETED" \/ FolderOf[t] \in delivered
    <2>1. task[t] \in Row
      BY TaskAssumption DEF IInv, Typed, TypeOK
    <2>2. [task[t] EXCEPT !.next = "later"] \in Row
      BY <2>1 DEF Row
    <2> QED BY <1>1, <2>1, <2>2, CompletedType DEF Checked
  <1>5. \A t \in Tasks : \/ task'[t] = task[t]
                         \/ t \in Matching /\ \E loaded \in Row : task'[t] = Checked(c, t, loaded)
    <2> SUFFICES ASSUME NEW t \in Tasks, task'[t] # task[t]
                 PROVE  t \in Matching /\ \E loaded \in Row : task'[t] = Checked(c, t, loaded)
      OBVIOUS
    <2>1. task' = [x \in Tasks |-> CASE x = p.first -> Checked(c, x, p.loaded)
                                     [] x \in p.todo \ {p.first} /\ Unresolved(x) -> Checked(c, x, task[x])
                                     [] OTHER -> task[x]]
      BY DEF WriteChecks
    <2>2. CASE t = p.first
      BY <1>1, <2>1, <2>2 DEF ReadCheck
    <2>3. CASE t # p.first /\ t \in p.todo /\ Unresolved(t)
      BY <1>1, <2>1, <2>3 DEF IInv, Typed, TypeOK
    <2>4. CASE t # p.first /\ ~(t \in p.todo /\ Unresolved(t))
      BY <2>1, <2>4
    <2> QED BY <2>2, <2>3, <2>4
  <1>6. DOMAIN task' = Tasks /\ task' = [t \in Tasks |-> task'[t]]
    BY DEF WriteChecks, IInv, Typed, TypeOK
  <1>7. \A t \in Tasks : task'[t] \in Row
    BY <1>4, <1>5 DEF IInv, Typed, TypeOK
  <1>8. task' \in [Tasks -> Row] /\ \A t \in Tasks \ Matching : task'[t].next = "NULL"
    BY <1>5, <1>6, <1>7 DEF IInv, Typed, TypeOK
  <1>9. \A t \in Matching : task'[t].status = "COMPLETED" =>
          task[t].status = "COMPLETED" \/ FolderOf[t] \in delivered
    BY <1>4, <1>5, TaskAssumption
  <1> QED BY <1>2, <1>3, <1>8, <1>9, RowStep
-----------------------------------------------------------------------------
\* mark_overdue completes nothing.
LEMMA SweepStep ==
  ASSUME IInv, MarkOverdue
  PROVE  IInv'
  <1>1. CASE SelectOverdue
    <2>1. sweep' \subseteq Tasks /\ UNCHANGED <<task, late, files, delivered, arrivals, check, act>>
      BY <1>1 DEF SelectOverdue, IInv, Typed, TypeOK
    <2> QED BY <2>1 DEF IInv, Typed, TypeOK, Shape, Seen, ByHand, CompletedHasDelivery
  <1>2. CASE WriteOverdue
    <2>1. \A t \in Tasks : task[t] \in Row /\ [task[t] EXCEPT !.status = "OVERDUE"] \in Row
      BY DEF IInv, Typed, TypeOK, Row, Open
    <2>2. /\ task' \in [Tasks -> Row]
          /\ \A t \in Tasks : /\ task'[t].next = task[t].next
                              /\ task'[t].status = "COMPLETED" => task[t].status = "COMPLETED"
      <3>1. CASE UNCHANGED task
        BY <3>1 DEF IInv, Typed, TypeOK
      <3>2. CASE task' = [t \in Tasks |-> IF t \in sweep THEN [task[t] EXCEPT !.status = "OVERDUE"] ELSE task[t]]
        BY <2>1, <3>2 DEF Row
      <3> QED BY <1>2, <3>1, <3>2 DEF WriteOverdue
    <2>3. sweep' = {} /\ UNCHANGED <<late, files, delivered, arrivals, check, act>>
      BY <1>2 DEF WriteOverdue
    <2>4. Typed'
      BY <2>2, <2>3 DEF IInv, Typed, TypeOK, Shape
    <2>5. Seen' /\ ByHand' /\ CompletedHasDelivery'
      BY <2>2, <2>3, TaskAssumption DEF IInv, Seen, ByHand, CompletedHasDelivery
    <2> QED BY <2>4, <2>5 DEF IInv
  <1> QED BY <1>1, <1>2 DEF MarkOverdue

\* A request is refused if it would complete a matching-file task.
LEMMA LoadStep ==
  ASSUME IInv, NEW r \in Requests, NEW t \in Tasks, NEW to \in Active \cup Resolved, LoadTask(r, t, to)
  PROVE  IInv'
  <1> DEFINE a == [t |-> t, to |-> to, loaded |-> task[t]]
  <1>1. a \in ActType /\ a.loaded.status # a.to
    BY DEF LoadTask, Allowed, Transitions, ActType, Active, Resolved, IInv, Typed, TypeOK
  <1>2. a.to = "COMPLETED" => a.t \notin Matching
    BY DEF LoadTask, Allowed
  <1>3. act' = [act EXCEPT ![r] = a] /\ UNCHANGED <<task, late, files, delivered, arrivals, check, sweep>>
    BY DEF LoadTask
  <1> HIDE DEF a
  <1>4. /\ act' \in [Requests -> ActType \cup {NoAct}]
        /\ \A x \in Requests : act'[x] = IF x = r THEN a ELSE act[x]
    BY <1>1, <1>3 DEF IInv, Typed, Shape
  <1>5. Typed'
    BY <1>1, <1>3, <1>4 DEF IInv, Typed, TypeOK, Shape, ActType
  <1>6. Seen' /\ ByHand' /\ CompletedHasDelivery'
    BY <1>2, <1>3, <1>4 DEF IInv, Seen, ByHand, CompletedHasDelivery
  <1> QED BY <1>5, <1>6 DEF IInv

\* A request that commits leaves a row.
LEMMA NextCheckType ==
  ASSUME IInv, NEW r \in Requests, act[r] # NoAct
  PROVE  /\ NextCheck(r) \in {"NULL", "due", "later"}
         /\ act[r].t \notin Matching => NextCheck(r) = "NULL"
  <1>1. act[r] \in ActType
    BY DEF IInv, Typed, Shape
  <1>2. act[r].t \in Tasks /\ task[act[r].t] \in Row /\ act[r].loaded \in Row
    BY <1>1 DEF IInv, Typed, TypeOK, ActType
  <1>3. act[r].t \notin Matching => task[act[r].t].next = "NULL"
    BY <1>2 DEF IInv, Typed, TypeOK
  <1>4. Column(act[r].loaded.next, "NULL", task[act[r].t].next) \in {"NULL", task[act[r].t].next}
    BY DEF Column
  <1> QED BY <1>2, <1>3, <1>4 DEF NextCheck, Row

\* A task action writes the row its request has loaded.
LEMMA CommitStep ==
  ASSUME IInv, NEW r \in Requests, CommitAction(r)
  PROVE  IInv'
  <1> DEFINE t == act[r].t
             x == [status |-> act[r].to, next |-> NextCheck(r)]
  <1>1. act[r] # NoAct /\ act[r] \in ActType
    BY DEF CommitAction, IInv, Typed, Shape
  <1>2. t \in Tasks /\ x \in Row /\ (t \notin Matching => x.next = "NULL")
        /\ (t \in Matching => x.status # "COMPLETED")
    BY <1>1, NextCheckType DEF ActType, Row, Open, Active, Resolved, IInv, ByHand
  <1>3. act' = [act EXCEPT ![r] = NoAct] /\ UNCHANGED <<late, files, delivered, arrivals, check, sweep>>
        /\ (UNCHANGED task \/ task' = [task EXCEPT ![t] = x])
    BY DEF CommitAction
  <1> HIDE DEF t, x
  <1>4. /\ task' \in [Tasks -> Row] /\ \A y \in Tasks \ Matching : task'[y].next = "NULL"
        /\ \A y \in Matching : task'[y].status = "COMPLETED" => task[y].status = "COMPLETED"
    BY <1>2, <1>3, TaskAssumption DEF IInv, Typed, TypeOK
  <1>5. /\ act' \in [Requests -> ActType \cup {NoAct}]
        /\ \A y \in Requests : act'[y] = NoAct \/ act'[y] = act[y]
    BY <1>3 DEF IInv, Typed, Shape
  <1>6. Typed'
    BY <1>3, <1>4, <1>5 DEF IInv, Typed, TypeOK, Shape
  <1>7. Seen' /\ ByHand' /\ CompletedHasDelivery'
    BY <1>3, <1>4, <1>5 DEF IInv, Seen, ByHand, CompletedHasDelivery
  <1> QED BY <1>6, <1>7 DEF IInv

\* A restart takes what jobs and requests remember.
LEMMA CrashStep ==
  ASSUME IInv, Crash
  PROVE  IInv'
  <1>1. /\ \A c \in Checkers : check'[c] = NoCheck
        /\ \A r \in Requests : act'[r] = NoAct
        /\ sweep' = {} /\ arrivals' = {} /\ UNCHANGED <<task, late, files, delivered>>
    BY DEF Crash
  <1>2. Shape'
    BY NoCheckType DEF Crash, Shape
  <1>3. TypeOK'
    BY <1>1, NoCheckType DEF IInv, Typed, TypeOK
  <1>4. Seen' /\ ByHand' /\ CompletedHasDelivery'
    BY <1>1, NoCheckType DEF IInv, Seen, ByHand, CompletedHasDelivery
  <1> QED BY <1>2, <1>3, <1>4 DEF IInv, Typed
-----------------------------------------------------------------------------
\* The inductive invariant, over every step.
LEMMA NextIInv == IInv /\ [Next]_vars => IInv'
  <1> SUFFICES ASSUME IInv, [Next]_vars PROVE IInv'
    OBVIOUS
  <1>1. ASSUME NEW t \in Tasks, Materialize(t) \/ DeleteTask(t) \/ BecomeLate(t) \/ IntervalPasses(t)
        PROVE  IInv'
    BY <1>1, WorldStep
  <1>2. ASSUME NEW f \in Folders,
               (\E portal \in BOOLEAN : Deliver(f, portal)) \/ RemoveFile(f) \/ FileEvent(f)
        PROVE  IInv'
    BY <1>2, FileStep, FileEventStep
  <1>3. CASE SelectDue
    <2>1. Due \in SUBSET Matching /\ Scheduled \in Checkers
      BY DEF Due, Checkers
    <2> QED BY <1>3, <2>1, StartStep DEF SelectDue
  <1>4. ASSUME NEW c \in Manual, NEW t \in Tasks, CheckNow(c, t) PROVE IInv'
    <2>1. c \in Checkers /\ {t} \in SUBSET Matching
      BY <1>4 DEF CheckNow, Checkers
    <2> QED BY <1>4, <2>1, StartStep DEF CheckNow
  <1>5. ASSUME NEW c \in Checkers, RunCheck(c) PROVE IInv'
    BY <1>5, ListStep, ReadStep, WriteStep DEF RunCheck
  <1>6. CASE MarkOverdue
    BY <1>6, SweepStep
  <1>7. ASSUME NEW r \in Requests,
               (\E t \in Tasks, to \in Active \cup Resolved : LoadTask(r, t, to)) \/ CommitAction(r)
        PROVE  IInv'
    BY <1>7, LoadStep, CommitStep
  <1>8. CASE Crash
    BY <1>8, CrashStep
  <1>9. CASE UNCHANGED vars
    BY <1>9 DEF vars, IInv, Typed, TypeOK, Shape, Seen, ByHand, CompletedHasDelivery
  <1> QED BY <1>1, <1>2, <1>3, <1>4, <1>5, <1>6, <1>7, <1>8, <1>9 DEF Next

\* IInv is an invariant.
LEMMA Invariance == Spec => []IInv
  BY InitIInv, NextIInv, PTL DEF Spec

\* The types hold for any number of tasks, checks and requests.
THEOREM LifecycleTypeOK == Spec => []TypeOK
  <1>1. IInv => TypeOK
    BY DEF IInv, Typed
  <1> QED BY Invariance, <1>1, PTL

\* A matching-file task is COMPLETED only if its folder held a matching file, whichever
\* stale rows the jobs and requests write back (check_matching_task_files, task_action).
THEOREM LifecycleCompletedHasDelivery == Spec => []CompletedHasDelivery
  <1>1. IInv => CompletedHasDelivery
    BY DEF IInv
  <1> QED BY Invariance, <1>1, PTL
=============================================================================
