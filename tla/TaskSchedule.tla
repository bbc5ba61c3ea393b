---------------------------- MODULE TaskSchedule ----------------------------
(***************************************************************************)
(* Task definitions and the generation of their occurrences                *)
(* (generate_due_task_instances, materialize_task_occurrence and the       *)
(* create, update, disable and delete handlers of task definitions in      *)
(* backend/app/main.py).                                                   *)
(*                                                                         *)
(* A generation pass runs every 15 seconds and at the end of every create  *)
(* and update request, so passes overlap with each other and with edits.   *)
(* A pass loads the due definitions, looks for the occurrence key, and     *)
(* then writes.  From its first INSERT or UPDATE to its commit it holds    *)
(* the write lock of SQLite, so that part is one action; what it loaded    *)
(* before is stale by then.  The ORM writes only the columns whose value   *)
(* differs from the one loaded.                                            *)
(*                                                                         *)
(* Time is counted in steps of the schedule; the calendar is the subject   *)
(* of Recurrence.                                                          *)
(***************************************************************************)
EXTENDS Integers, FiniteSets, FiniteSetsExt

CONSTANTS Defs,        \* definition identifiers (uuid4, never reused)
          Passes,      \* generation passes: the scheduler job and those inside requests
          Editors,     \* concurrent update, disable and delete requests
          MaxTime,     \* bound: the clock
          Period,      \* distance of two occurrences of a repeating schedule
          BatchLimit,  \* occurrences of one definition per pass (100 in the code)
          MaxEdits,    \* bound: edits that are committed
          MaxCrashes,  \* bound: restarts of the backend
          None         \* NULL

ASSUME TimeAssumption == MaxTime \in Nat /\ Period \in Nat \ {0} /\ BatchLimit \in Nat \ {0}
ASSUME NoneAssumption == None \notin Int

VARIABLES now,       \* utc_now()
          defs,      \* committed TaskDefinition rows
          tasks,     \* occurrence keys <<definition, time>> of the committed Task rows
          events,    \* committed TASK_INSTANCE_GENERATE events per occurrence key
          pass,      \* generation passes in flight
          edit,      \* requests in flight
          overlap,   \* history: an edit was committed under a pass that had loaded the row
          edits, crashes

vars == <<now, defs, tasks, events, pass, edit, overlap, edits, crashes>>
-----------------------------------------------------------------------------
Clock == 0 .. MaxTime
Times == 0 .. MaxTime + Period
Row == [state : {"new", "live", "deleted"}, kind : {"ONCE", "REPEAT"}, enabled : BOOLEAN,
        start : Clock, next_run_at : Times \cup {None}]

NoRow == [state |-> "new", kind |-> "ONCE", enabled |-> FALSE, start |-> 0, next_run_at |-> None]
NoPass == [pc |-> "idle", time |-> 0, rows |-> [d \in {} |-> NoRow], first |-> None, found |-> FALSE]
NoEdit == [op |-> "none", d |-> None, row |-> NoRow]

Live(d) == defs[d].state = "live"
Loaded(g) == DOMAIN pass[g].rows

TypeOK ==
  /\ now \in Clock
  /\ defs \in [Defs -> Row]
  /\ tasks \subseteq Defs \X Times
  /\ events \in [Defs \X Times -> Nat]
  /\ \A g \in Passes : /\ pass[g].pc \in {"idle", "loaded", "probed"}
                       /\ Loaded(g) \subseteq Defs
                       /\ \A d \in Loaded(g) : pass[g].rows[d] \in Row
                       /\ pass[g].pc = "probed" => pass[g].first \in Loaded(g)
  /\ \A e \in Editors : edit[e].op # "none" => edit[e].d \in Defs /\ edit[e].row \in Row
  /\ overlap \in [Defs -> BOOLEAN]

Init ==
  /\ now = 0
  /\ defs = [d \in Defs |-> NoRow]
  /\ tasks = {}
  /\ events = [k \in Defs \X Times |-> 0]
  /\ pass = [g \in Passes |-> NoPass]
  /\ edit = [e \in Editors |-> NoEdit]
  /\ overlap = [d \in Defs |-> FALSE]
  /\ edits = 0
  /\ crashes = 0
-----------------------------------------------------------------------------
(* Schedules *)

\* next_schedule_occurrence: after t, by the columns of row.
NextOccurrence(row, t) == IF row.kind = "ONCE" THEN None ELSE t + Period

\* The loop of a pass over one definition: the occurrences it emits ...
Emitted(row, time) ==
  IF row.kind = "ONCE" THEN {row.next_run_at}
  ELSE {t \in {row.next_run_at + k * Period : k \in 0 .. BatchLimit - 1} : t <= time}

\* Mutants: next_run_at moves by the whole batch; it skips what the batch left out.
ContinuedByBatch(row, time) ==
  IF row.kind = "ONCE" THEN None ELSE row.next_run_at + BatchLimit * Period
ContinuedPastNow(row, time) ==
  IF row.kind = "ONCE" THEN None
  ELSE row.next_run_at + Period * ((time - row.next_run_at) \div Period + 1)

\* ... and where it leaves next_run_at.
Continued(row, time) == NextOccurrence(row, Max(Emitted(row, time)))

\* t is an occurrence of the schedule of d.
OnSchedule(d, t) ==
  /\ Live(d)
  /\ t >= defs[d].start
  /\ IF defs[d].kind = "ONCE" THEN t = defs[d].start ELSE (t - defs[d].start) % Period = 0
-----------------------------------------------------------------------------
(* generate_due_task_instances *)

\* Mutant: a definition is due only in the step of its occurrence.
DueNowOnly(d) == Live(d) /\ defs[d].enabled /\ defs[d].next_run_at = now

Due(d) == /\ Live(d) /\ defs[d].enabled
          /\ defs[d].next_run_at # None /\ defs[d].next_run_at <= now

\* The SELECT of the due definitions.
LoadDefinitions(g) ==
  /\ pass[g].pc = "idle"
  /\ \E d \in Defs : Due(d)
  /\ pass' = [pass EXCEPT ![g] = [NoPass EXCEPT !.pc = "loaded", !.time = now,
                                    !.rows = [d \in {x \in Defs : Due(x)} |-> defs[d]]]]
  /\ UNCHANGED <<now, defs, tasks, events, edit, overlap, edits, crashes>>

\* materialize_task_occurrence: the SELECT of the first occurrence key.
ProbeOccurrence(g) ==
  /\ pass[g].pc = "loaded"
  /\ \E d \in Loaded(g) :
       /\ \A x \in Loaded(g) : pass[g].rows[d].next_run_at <= pass[g].rows[x].next_run_at
       /\ pass' = [pass EXCEPT ![g].pc = "probed", ![g].first = d,
                     ![g].found = <<d, pass[g].rows[d].next_run_at>> \in tasks]
  /\ UNCHANGED <<now, defs, tasks, events, edit, overlap, edits, crashes>>

\* Mutant: no unique constraint on the occurrence key.
DefinitionGone(g) == \E d \in Loaded(g) : ~Live(d)

\* The unique key was taken since the probe, or a definition is gone: the
\* flush raises and the whole pass is rolled back.
WriteConflicts(g) ==
  LET p == pass[g]
  IN \/ ~p.found /\ <<p.first, p.rows[p.first].next_run_at>> \in tasks
     \/ \E d \in Loaded(g) : ~Live(d)

\* Mutant of WrittenBack: the whole row is written.
WrittenWhole(current, n) == [current EXCEPT !.next_run_at = n, !.enabled = n # None]

\* The columns a pass writes: `enabled` only when the schedule has ended, else it
\* equals the value loaded.
WrittenBack(current, n) == [current EXCEPT !.next_run_at = n, !.enabled = @ /\ n # None]

\* What the pass adds (the first occurrence by its probe, the others by probes
\* made under the lock), and where it leaves the definitions.
WriteOccurrences(g) ==
  LET p == pass[g]
      probed == {<<p.first, p.rows[p.first].next_run_at>>}
      emitted == UNION {{d} \X Emitted(p.rows[d], p.time) : d \in Loaded(g)}
      added == (IF p.found THEN {} ELSE probed) \cup (emitted \ (tasks \cup probed))
  IN /\ p.pc = "probed"
     /\ ~WriteConflicts(g)
     /\ tasks' = tasks \cup added
     /\ events' = [k \in DOMAIN events |-> IF k \in added THEN events[k] + 1 ELSE events[k]]
     /\ defs' = [d \in Defs |->
          IF d \notin Loaded(g) THEN defs[d]
          ELSE WrittenBack(defs[d], Continued(p.rows[d], p.time))]
     /\ pass' = [pass EXCEPT ![g] = NoPass]
     /\ UNCHANGED <<now, edit, overlap, edits, crashes>>

RollBack(g) ==
  /\ pass[g].pc = "probed"
  /\ WriteConflicts(g)
  /\ pass' = [pass EXCEPT ![g] = NoPass]
  /\ UNCHANGED <<now, defs, tasks, events, edit, overlap, edits, crashes>>
-----------------------------------------------------------------------------
(* The handlers.  Each loads the row, awaits (permissions, the folder on the *)
(* server) and then writes.                                                  *)

\* create_task_definition
Create(d, kind, start) ==
  /\ defs[d].state = "new"
  /\ defs' = [defs EXCEPT ![d] = [state |-> "live", kind |-> kind, enabled |-> TRUE,
                                  start |-> start, next_run_at |-> start]]
  /\ UNCHANGED <<now, tasks, events, pass, edit, overlap, edits, crashes>>

LoadRow(e, op, d) ==
  /\ edit[e].op = "none"
  /\ edits < MaxEdits
  /\ Live(d)
  /\ edit' = [edit EXCEPT ![e] = [op |-> op, d |-> d, row |-> defs[d]]]
  /\ edits' = edits + 1
  /\ UNCHANGED <<now, defs, tasks, events, pass, overlap, crashes>>

\* The request of e ends; passes that have loaded its row are now stale.
Edited(e) ==
  /\ edit' = [edit EXCEPT ![e] = NoEdit]
  /\ overlap' = [overlap EXCEPT ![edit[e].d] = @ \/ \E g \in Passes : edit[e].d \in Loaded(g)]
  /\ UNCHANGED <<now, events, pass, edits, crashes>>

\* The ORM writes a column only if its value is not the one it loaded.
Column(loaded, new, current) == IF new # loaded THEN new ELSE current

\* update_task_definition: a fresh schedule.  Times are always written (SQLite
\* returns them without a zone, so they never equal the new ones).  An UPDATE of
\* a deleted row fails and changes nothing.
Update(e, kind, start) ==
  LET d == edit[e].d
      row == edit[e].row
  IN /\ edit[e].op = "update"
     /\ defs' = [defs EXCEPT ![d] =
          IF Live(d) THEN [defs[d] EXCEPT !.kind = Column(row.kind, kind, defs[d].kind),
                                          !.start = start, !.next_run_at = start,
                                          !.enabled = Column(row.enabled, TRUE, defs[d].enabled)]
          ELSE defs[d]]
     /\ UNCHANGED tasks
     /\ Edited(e)

\* disable_task_definition: columns that already had the value are not written.
Disable(e) ==
  LET d == edit[e].d
      row == edit[e].row
  IN /\ edit[e].op = "disable"
     /\ defs' = [defs EXCEPT ![d] =
          [defs[d] EXCEPT !.enabled = Column(row.enabled, FALSE, defs[d].enabled),
                          !.next_run_at = Column(row.next_run_at, None, defs[d].next_run_at)]]
     /\ UNCHANGED tasks
     /\ Edited(e)

\* delete_task_definition: the tasks of the definition go with it.
Delete(e) ==
  LET d == edit[e].d
  IN /\ edit[e].op = "delete"
     /\ defs' = [defs EXCEPT ![d] = [NoRow EXCEPT !.state = "deleted"]]
     /\ tasks' = {k \in tasks : k[1] # d}
     /\ Edited(e)

Tick ==
  /\ now < MaxTime
  /\ now' = now + 1
  /\ UNCHANGED <<defs, tasks, events, pass, edit, overlap, edits, crashes>>

\* The process dies: passes and requests are lost, uncommitted work with them.
Crash ==
  /\ crashes < MaxCrashes
  /\ crashes' = crashes + 1
  /\ pass' = [g \in Passes |-> NoPass]
  /\ edit' = [e \in Editors |-> NoEdit]
  /\ UNCHANGED <<now, defs, tasks, events, overlap, edits>>

Generate(g) == LoadDefinitions(g) \/ ProbeOccurrence(g) \/ WriteOccurrences(g) \/ RollBack(g)

Next ==
  \/ \E g \in Passes : Generate(g)
  \/ \E d \in Defs, kind \in {"ONCE", "REPEAT"}, start \in Clock : Create(d, kind, start)
  \/ \E e \in Editors, op \in {"update", "disable", "delete"}, d \in Defs : LoadRow(e, op, d)
  \/ \E e \in Editors : \/ \E kind \in {"ONCE", "REPEAT"}, start \in Clock : Update(e, kind, start)
                        \/ Disable(e)
                        \/ Delete(e)
  \/ Tick
  \/ Crash

Spec == Init /\ [][Next]_vars

\* The scheduler keeps starting passes and every database call returns.
Fairness == \A g \in Passes : WF_vars(Generate(g))
FairSpec == Spec /\ Fairness
-----------------------------------------------------------------------------
(* Properties *)

\* "Materialize every due schedule occurrence exactly once": overlapping passes,
\* restarts and edits that rewind next_run_at never generate an occurrence a
\* second time, a task that exists was generated by a recorded event, and no
\* task is there before its time (materialize_task_occurrence).
ExactlyOnce ==
  /\ \A k \in Defs \X Times : events[k] <= 1
  /\ \A k \in tasks : events[k] = 1 /\ k[2] <= now /\ Live(k[1])

\* A pass never moves next_run_at over an occurrence that was not generated,
\* although a pass that loaded an older row may write it after a later one.
\* Only an edit under a running pass can break this (see overlap).
NothingSkipped ==
  \A d \in Defs, t \in Times :
    /\ ~overlap[d] /\ OnSchedule(d, t)
    /\ defs[d].next_run_at # None /\ t < defs[d].next_run_at
    => <<d, t>> \in tasks

\* Every occurrence that is due on an enabled definition is generated in the
\* end, however many passes roll each other back and however much they have to
\* catch up, unless the definition is edited first.
Missing(d, t) == OnSchedule(d, t) /\ defs[d].enabled /\ ~overlap[d] /\ t <= now /\ <<d, t>> \notin tasks
DueIsGenerated == \A d \in Defs, t \in Clock : Missing(d, t) ~> ~Missing(d, t)

\* "Disabling a definition stops future generation" (spec/05-tasks-and-scheduling.md:113):
\* a pass that loaded the row before may still add its tasks, but whatever such a
\* pass, or another request on a stale row, writes back, the definition is enabled
\* again only by an update of it.
DisabledStaysDisabled ==
  [][\A d \in Defs : Live(d) /\ ~defs[d].enabled /\ defs'[d].enabled =>
       \E e \in Editors : edit[e].op = "update" /\ edit[e].d = d /\ edit'[e] = NoEdit]_vars
=============================================================================
