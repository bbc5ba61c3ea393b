---------------------------- MODULE TaskLifecycle ----------------------------
(***************************************************************************)
(* The life of a generated task: task_action, check_matching_task_files,   *)
(* mark_overdue, complete_matching_tasks_for_file_event and                *)
(* check_task_file in backend/app/main.py.                                 *)
(*                                                                         *)
(* Three jobs and any number of requests work on the same rows.  Each      *)
(* reads a row, and writes it in a later statement without looking at it   *)
(* again: the ORM writes the columns whose value differs from the one it   *)
(* loaded, and no version is compared.  From its first write to its commit *)
(* a session holds the write lock of SQLite, so what it reads then is not  *)
(* stale and the rest of its work is one action.                           *)
(*                                                                         *)
(* Time is abstract: next_check_at is NULL, due or later, and a task is    *)
(* late once due_at has passed.  Who may act on a task is left out         *)
(* (a refused request changes nothing), and so are the audit events.       *)
(***************************************************************************)
EXTENDS Naturals, FiniteSets

CONSTANTS Tasks,       \* occurrences
          Matching,    \* those whose completion_mode is MATCHING_UPLOAD
          Folders,     \* target folders
          FolderOf,    \* target_path of each task
          Scheduled,   \* the task-file-check job
          Manual,      \* "Check folder" requests
          Requests,    \* start, complete, dismiss and reopen requests
          MaxCrashes   \* bound: restarts of the backend

ASSUME TaskAssumption == Matching \subseteq Tasks /\ FolderOf \in [Tasks -> Folders]
ASSUME CheckerAssumption == Scheduled \notin Manual

VARIABLES task,      \* committed columns status and next_check_at
          late,      \* tasks whose due_at has passed
          files,     \* folders that hold a file satisfying the glob of their tasks
          delivered, \* history: folders that ever held one
          arrivals,  \* portal uploads and moves whose request has still to complete tasks
          check,     \* runs of check_matching_task_files
          sweep,     \* tasks loaded by mark_overdue
          act,       \* task_action requests
          crashes

vars == <<task, late, files, delivered, arrivals, check, sweep, act, crashes>>
-----------------------------------------------------------------------------
Checkers == Manual \cup {Scheduled}
Active == {"PENDING", "IN_PROGRESS"}
Open == Active \cup {"OVERDUE"}
Resolved == {"COMPLETED", "DISMISSED"}
Row == [status : Open \cup Resolved \cup {"NONE", "DELETED"}, next : {"NULL", "due", "later"}]

NoRow == [status |-> "NONE", next |-> "NULL"]
NoCheck == [pc |-> "idle", todo |-> {}, unlisted |-> {}, found |-> {}, loaded |-> NoRow]
NoAct == [to |-> "none"]

Unresolved(t) == task[t].status \in Open
Deleted(t) == task[t].status = "DELETED"

TypeOK ==
  /\ task \in [Tasks -> Row]
  /\ \A t \in Tasks \ Matching : task[t].next = "NULL"
  /\ late \subseteq Tasks /\ sweep \subseteq Tasks
  /\ files \subseteq delivered /\ delivered \subseteq Folders /\ arrivals \subseteq Folders
  /\ \A c \in Checkers : /\ check[c].todo \subseteq Matching
                         /\ check[c].pc = "idle" => check[c] = NoCheck
                         /\ check[c].pc = "read" => check[c].first \in check[c].todo
  /\ \A r \in Requests : act[r] # NoAct => act[r].t \in Tasks /\ act[r].loaded.status # act[r].to

Init ==
  /\ task = [t \in Tasks |-> NoRow]
  /\ late = {} /\ files = {} /\ delivered = {} /\ arrivals = {}
  /\ check = [c \in Checkers |-> NoCheck]
  /\ sweep = {}
  /\ act = [r \in Requests |-> NoAct]
  /\ crashes = 0

\* The ORM writes a column only if its value is not the one it loaded.  (A time is
\* always written: SQLite returns times without a zone.)
Column(loaded, new, current) == IF new # loaded THEN new ELSE current

\* What completing t writes to its row, by a session that loaded it.
Completed(loaded, current) ==
  [status |-> "COMPLETED", next |-> Column(loaded.next, "NULL", current.next)]
-----------------------------------------------------------------------------
(* The world *)

\* materialize_task_occurrence
Materialize(t) ==
  /\ task[t].status = "NONE"
  /\ task' = [task EXCEPT ![t] = [status |-> IF t \in late THEN "OVERDUE" ELSE "PENDING",
                                  next |-> IF t \in Matching THEN "due" ELSE "NULL"]]
  /\ UNCHANGED <<late, files, delivered, arrivals, check, sweep, act, crashes>>

\* The definition is deleted, or a server or group it belongs to.
DeleteTask(t) ==
  /\ task[t].status \in Open \cup Resolved
  /\ task' = [task EXCEPT ![t] = [status |-> "DELETED", next |-> "NULL"]]
  /\ UNCHANGED <<late, files, delivered, arrivals, check, sweep, act, crashes>>

BecomeLate(t) ==
  /\ t \notin late
  /\ late' = late \cup {t}
  /\ UNCHANGED <<task, files, delivered, arrivals, check, sweep, act, crashes>>

IntervalPasses(t) ==
  /\ task[t].next = "later"
  /\ task' = [task EXCEPT ![t].next = "due"]
  /\ UNCHANGED <<late, files, delivered, arrivals, check, sweep, act, crashes>>

\* A file arrives, through the portal (its request goes on) or from another client.
Deliver(f, portal) ==
  /\ f \notin files
  /\ files' = files \cup {f}
  /\ delivered' = delivered \cup {f}
  /\ arrivals' = IF portal THEN arrivals \cup {f} ELSE arrivals
  /\ UNCHANGED <<task, late, check, sweep, act, crashes>>

RemoveFile(f) ==
  /\ f \in files
  /\ files' = files \ {f}
  /\ UNCHANGED <<task, late, delivered, arrivals, check, sweep, act, crashes>>

\* complete_matching_tasks_for_file_event.  Its SELECT flushes the pending row of
\* the upload or the move first, so it reads under the write lock.
FileEvent(f) ==
  /\ f \in arrivals
  /\ arrivals' = arrivals \ {f}
  /\ task' = [t \in Tasks |-> IF t \in Matching /\ FolderOf[t] = f /\ Unresolved(t)
                              THEN Completed(task[t], task[t]) ELSE task[t]]
  /\ UNCHANGED <<late, files, delivered, check, sweep, act, crashes>>
-----------------------------------------------------------------------------
(* check_matching_task_files *)

\* Mutant: a scheduled run looks at PENDING and IN_PROGRESS tasks only.
DueActive == {t \in Matching : task[t].status \in Active /\ task[t].next = "due"}

\* The tasks of a scheduled run, and of one forced by check_task_file.
Due == {t \in Matching : Unresolved(t) /\ task[t].next = "due"}

StartCheck(c, todo) ==
  /\ check[c].pc = "idle"
  /\ todo # {}
  /\ check' = [check EXCEPT ![c] = [NoCheck EXCEPT !.pc = "list", !.todo = todo,
                                      !.unlisted = {FolderOf[t] : t \in todo}]]
  /\ UNCHANGED <<task, late, files, delivered, arrivals, sweep, act, crashes>>

SelectDue == StartCheck(Scheduled, Due)
CheckNow(c, t) == t \in Matching /\ Unresolved(t) /\ StartCheck(c, {t})

\* One listing per folder; one that fails counts as one that shows no file.
List(c, f, found) ==
  /\ f \in check[c].unlisted
  /\ check' = [check EXCEPT ![c].unlisted = @ \ {f}, ![c].found = @ \cup found]
  /\ UNCHANGED <<task, late, files, delivered, arrivals, sweep, act, crashes>>

ListFolder(c, f) == List(c, f, files \cap {f})
ListFails(c, f) == List(c, f, {})

\* The second session reads the tasks one by one.  Until it has one to write it holds no lock.
ReadTask(c) ==
  LET p == check[c]
  IN /\ p.pc = "list" /\ p.unlisted = {}
     /\ \E t \in p.todo :
          IF Unresolved(t)
          THEN check' = [check EXCEPT ![c] = [pc |-> "read", todo |-> p.todo, unlisted |-> {},
                                              found |-> p.found, first |-> t, loaded |-> task[t]]]
          ELSE check' = [check EXCEPT ![c] = IF p.todo = {t} THEN NoCheck
                                             ELSE [p EXCEPT !.todo = p.todo \ {t}]]
     /\ UNCHANGED <<task, late, files, delivered, arrivals, sweep, act, crashes>>

\* A check of t writes this to its row.
Checked(c, t, loaded) ==
  IF FolderOf[t] \in check[c].found THEN Completed(loaded, task[t])
  ELSE [task[t] EXCEPT !.next = "later"]

\* If the row is gone the flush fails and the run is rolled back.
WriteChecks(c) ==
  LET p == check[c]
  IN /\ p.pc = "read"
     /\ task' = IF Deleted(p.first) THEN task
                ELSE [t \in Tasks |-> CASE t = p.first -> Checked(c, t, p.loaded)
                                        [] t \in p.todo \ {p.first} /\ Unresolved(t) -> Checked(c, t, task[t])
                                        [] OTHER -> task[t]]
     /\ check' = [check EXCEPT ![c] = NoCheck]
     /\ UNCHANGED <<late, files, delivered, arrivals, sweep, act, crashes>>
-----------------------------------------------------------------------------
(* mark_overdue *)

\* Mutant: only PENDING tasks are marked.
SelectPending ==
  /\ sweep = {}
  /\ sweep' = {t \in late : task[t].status = "PENDING"}
  /\ sweep' # {}
  /\ UNCHANGED <<task, late, files, delivered, arrivals, check, act, crashes>>

SelectOverdue ==
  /\ sweep = {}
  /\ sweep' = {t \in late : task[t].status \in Active}
  /\ sweep' # {}
  /\ UNCHANGED <<task, late, files, delivered, arrivals, check, act, crashes>>

\* The status of every task it loaded, whatever it is by now.
WriteOverdue ==
  /\ sweep # {}
  /\ task' = IF \E t \in sweep : Deleted(t) THEN task
             ELSE [t \in Tasks |-> IF t \in sweep THEN [task[t] EXCEPT !.status = "OVERDUE"] ELSE task[t]]
  /\ sweep' = {}
  /\ UNCHANGED <<late, files, delivered, arrivals, check, act, crashes>>
-----------------------------------------------------------------------------
(* task_action *)

\* Mutant: any change of status is accepted.
AnyTransition(status) == IF status \in Open \cup Resolved THEN Active \cup Resolved ELSE {}

Transitions(status) ==
  CASE status = "PENDING" -> {"IN_PROGRESS", "COMPLETED", "DISMISSED"}
    [] status = "IN_PROGRESS" -> {"COMPLETED", "DISMISSED"}
    [] status = "OVERDUE" -> {"IN_PROGRESS", "COMPLETED", "DISMISSED"}
    [] status \in Resolved -> {"PENDING"}
    [] OTHER -> {}

\* Mutant: a matching-file task can be completed by hand.
AllowedByTable(t, to) == to \in Transitions(task[t].status)

Allowed(t, to) ==
  /\ to \in Transitions(task[t].status)
  /\ ~(to = "COMPLETED" /\ t \in Matching)

LoadTask(r, t, to) ==
  /\ act[r] = NoAct
  /\ Allowed(t, to)
  /\ act' = [act EXCEPT ![r] = [t |-> t, to |-> to, loaded |-> task[t]]]
  /\ UNCHANGED <<task, late, files, delivered, arrivals, check, sweep, crashes>>

NextCheck(r) ==
  LET current == task[act[r].t].next
  IN CASE act[r].to \in Resolved -> Column(act[r].loaded.next, "NULL", current)
       [] act[r].to = "PENDING" /\ act[r].t \in Matching -> "due"
       [] OTHER -> current

CommitAction(r) ==
  /\ act[r] # NoAct
  /\ task' = IF Deleted(act[r].t) THEN task
             ELSE [task EXCEPT ![act[r].t] = [status |-> act[r].to, next |-> NextCheck(r)]]
  /\ act' = [act EXCEPT ![r] = NoAct]
  /\ UNCHANGED <<late, files, delivered, arrivals, check, sweep, crashes>>
-----------------------------------------------------------------------------
\* The backend restarts: jobs and requests in flight are lost.
Crash ==
  /\ crashes < MaxCrashes
  /\ crashes' = crashes + 1
  /\ check' = [c \in Checkers |-> NoCheck]
  /\ act' = [r \in Requests |-> NoAct]
  /\ sweep' = {} /\ arrivals' = {}
  /\ UNCHANGED <<task, late, files, delivered>>

RunCheck(c) == (\E f \in Folders : ListFolder(c, f) \/ ListFails(c, f)) \/ ReadTask(c) \/ WriteChecks(c)
MarkOverdue == SelectOverdue \/ WriteOverdue

Next ==
  \/ \E t \in Tasks : Materialize(t) \/ DeleteTask(t) \/ BecomeLate(t) \/ IntervalPasses(t)
  \/ \E f \in Folders : (\E portal \in BOOLEAN : Deliver(f, portal)) \/ RemoveFile(f) \/ FileEvent(f)
  \/ SelectDue
  \/ \E c \in Manual, t \in Tasks : CheckNow(c, t)
  \/ \E c \in Checkers : RunCheck(c)
  \/ MarkOverdue
  \/ \E r \in Requests : \/ \E t \in Tasks, to \in Active \cup Resolved : LoadTask(r, t, to)
                         \/ CommitAction(r)
  \/ Crash

Spec == Init /\ [][Next]_vars

\* The scheduler starts its jobs again and again, their statements return, and time
\* passes.  An outage of the server ends: not every listing of a folder fails.
Fairness ==
  /\ WF_vars(MarkOverdue) /\ WF_vars(SelectDue) /\ WF_vars(RunCheck(Scheduled))
  /\ \A c \in Checkers, f \in Folders : SF_vars(ListFolder(c, f))
  /\ \A r \in Requests : WF_vars(CommitAction(r))
  /\ \A t \in Tasks : WF_vars(IntervalPasses(t))
FairSpec == Spec /\ Fairness
-----------------------------------------------------------------------------
(* Properties *)

\* A matching-file task is COMPLETED only if a matching file was in its folder,
\* whichever reads of the jobs and the requests were stale: "Matching-file tasks
\* complete only after the required file is found" (task_action).
CompletedHasDelivery ==
  \A t \in Matching : task[t].status = "COMPLETED" => FolderOf[t] \in delivered

\* A task whose due time has passed does not stay PENDING or IN_PROGRESS
\* (mark_overdue), although requests move it back and deletions roll the job back.
LateIsMarked ==
  \A t \in Tasks : t \in late /\ task[t].status \in Active ~> task[t].status \notin Active

\* A file that stays in the folder of an open task with a next check completes
\* it, whatever listings fail and whoever postpones the check (check_matching_task_files).
Waiting(t) == Unresolved(t) /\ FolderOf[t] \in files
ScheduledFileCompletes ==
  \A t \in Matching : ~<>[](Waiting(t) /\ task[t].next # "NULL")

\* "Complete active matching-file tasks from SFTP directory state" (the docstring of
\* check_matching_task_files): a file that stays in the folder of an open matching-file
\* task completes it.  A job or request that loaded the row before it was resolved
\* opens it again without a next check, and no scheduled run looks at it from then on.
DeliveredFileCompletes == \A t \in Matching : ~<>[]Waiting(t)
=============================================================================
