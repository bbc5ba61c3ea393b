------------------------- MODULE TaskScheduleProofs -------------------------
(***************************************************************************)
(* The invariants of TaskSchedule and DisabledStaysDisabled, for any       *)
(* number of definitions, passes and requests, any clock, period and batch *)
(* limit; then the properties of Recurrence, the calendar behind it, for   *)
(* any calendar, any zone whose clocks go forward once and back once, any  *)
(* schedule and any start.                                                 *)
(*                                                                         *)
(* No occurrence is generated twice because one that was generated is      *)
(* still in the table as long as its definition is (NoneLost), and a pass  *)
(* adds only what is not there at its commit (AddedNew).  None is skipped  *)
(* because the row of an unedited definition, and every copy of it that a  *)
(* pass holds, however old, has nothing ungenerated before it (InStep):    *)
(* the loop of a pass leaves no gap between the row it loaded and the one  *)
(* it leaves (NoGap), wherever the batch limit cuts it off.                *)
(***************************************************************************)
EXTENDS TaskSchedule, Recurrence, WellFoundedInduction, TLAPS

PassType == [pc : {"idle", "loaded", "probed"}, time : Clock,
             rows : UNION {[S -> Row] : S \in SUBSET Defs},
             first : Defs \cup {None}, found : BOOLEAN]
EditType == [op : {"none", "update", "disable", "delete"}, d : Defs \cup {None}, row : Row]
Shape == pass \in [Passes -> PassType] /\ edit \in [Editors -> EditType]

\* Whatever a pass or a request has loaded was created.
AllKnown ==
  /\ \A g \in Passes : \A d \in Loaded(g) : defs[d].state # "new"
  /\ \A e \in Editors : edit[e].op # "none" => defs[edit[e].d].state # "new"

\* A pass works on rows that were due when it began.
AllDue ==
  \A g \in Passes :
    /\ pass[g].time <= now
    /\ \A d \in Loaded(g) :
         pass[g].rows[d].next_run_at # None /\ pass[g].rows[d].next_run_at <= pass[g].time

\* Only with its definition does a generated task go.
NoneLost == \A k \in Defs \X Times : events[k] = 1 => k \in tasks \/ defs[k[1]].state = "deleted"

\* row stands on the schedule of d, and everything before it was generated.
NothingBefore(d, row) ==
  /\ OnSchedule(d, row.next_run_at)
  /\ \A t \in Times : OnSchedule(d, t) /\ t < row.next_run_at => <<d, t>> \in tasks

RowInStep ==
  \A d \in Defs : Live(d) /\ ~overlap[d] /\ defs[d].next_run_at # None => NothingBefore(d, defs[d])

PassInStep ==
  \A g \in Passes : \A d \in Loaded(g) :
    Live(d) /\ ~overlap[d] =>
      /\ pass[g].rows[d].kind = defs[d].kind /\ pass[g].rows[d].start = defs[d].start
      /\ NothingBefore(d, pass[g].rows[d])

FoundStays ==
  \A g \in Passes :
    pass[g].pc = "probed" /\ pass[g].found /\ Live(pass[g].first) =>
      <<pass[g].first, pass[g].rows[pass[g].first].next_run_at>> \in tasks

Typed == TypeOK /\ Shape /\ AllKnown /\ AllDue
InStep == RowInStep /\ PassInStep /\ FoundStays
IInv == Typed /\ ExactlyOnce /\ NoneLost /\ InStep
-----------------------------------------------------------------------------
Below == {p \in Nat \X Nat : p[1] < p[2]}

\* A set of numbers has a least element ...
LEMMA Least ==
  ASSUME NEW T, T \subseteq Nat, T # {}
  PROVE  \E m \in T : \A n \in T : m <= n
  <1>1. IsWellFoundedOn(Below, Nat)
    BY NatLessThanWellFounded DEF OpToRel, Below
  <1>2. PICK m \in T : \A n \in T : ~ (<<n, m>> \in Below)
    BY <1>1, WFMin
  <1>3. \A n \in T : n < m => <<n, m>> \in Below
    BY DEF Below
  <1>4. ASSUME NEW n \in T PROVE m <= n
    <2>1. m \in Nat /\ n \in Nat
      OBVIOUS
    <2>2. ~(n < m)
      BY <1>2, <1>3
    <2> QED BY <2>1, <2>2
  <1> QED BY <1>4

\* ... and a bounded one a greatest, which is what Max chooses.
LEMMA MaxIsGreatest ==
  ASSUME NEW b \in Nat, NEW S, S \subseteq 0 .. b, S # {}
  PROVE  Max(S) \in S /\ \A n \in S : Max(S) >= n
  <1> DEFINE T == {b - x : x \in S}
  <1>1. S \subseteq Int /\ \A x \in S : x <= b
    OBVIOUS
  <1>2. T \subseteq Nat
    BY <1>1
  <1>3. T # {}
    OBVIOUS
  <1>4. PICK m \in T : \A n \in T : m <= n
    BY <1>2, <1>3, Least
  <1>5. b - m \in S /\ \A x \in S : b - x \in T
    BY <1>4
  <1>6. \A x \in S : b - m >= x
    BY <1>1, <1>2, <1>4, <1>5
  <1> QED BY <1>5, <1>6 DEF Max

\* What is left without rest by p is a multiple of p ...
LEMMA Multiple ==
  ASSUME NEW a \in Nat, NEW p \in Nat \ {0}, a % p = 0
  PROVE  \E k \in Nat : a = k * p
  <1>1. a \div p \in Nat /\ a = (a \div p) * p
    OBVIOUS
  <1> QED BY <1>1

\* ... and a multiple leaves none.
LEMMA MultipleMod ==
  ASSUME NEW p \in Nat \ {0}, NEW k \in Nat
  PROVE  (k * p) % p = 0
  OBVIOUS

\* The occurrences of a schedule from one of them on.
LEMMA StepsOn ==
  ASSUME NEW start \in Nat, NEW n \in Nat, NEW t \in Nat, start <= n, n <= t,
         (n - start) % Period = 0, (t - start) % Period = 0
  PROVE  \E k \in Nat : t = n + k * Period
  <1>1. Period \in Nat \ {0}
    BY TimeAssumption
  <1>. n - start \in Nat /\ t - start \in Nat
    OBVIOUS
  <1>2. PICK a \in Nat : n - start = a * Period
    BY <1>1, Multiple
  <1>3. PICK b \in Nat : t - start = b * Period
    BY <1>1, Multiple
  <1>4. a <= b
    BY <1>1, <1>2, <1>3
  <1>5. t = n + (b - a) * Period
    BY <1>1, <1>2, <1>3
  <1> QED BY <1>4, <1>5

\* A number of periods after an occurrence there is an occurrence.
LEMMA StepOn ==
  ASSUME NEW start \in Nat, NEW n \in Nat, start <= n, (n - start) % Period = 0,
         NEW k \in Nat, NEW t \in Nat, t = n + k * Period
  PROVE  start <= t /\ (t - start) % Period = 0
  <1>1. Period \in Nat \ {0}
    BY TimeAssumption
  <1>2. n - start \in Nat
    OBVIOUS
  <1>3. PICK a \in Nat : n - start = a * Period
    BY <1>1, <1>2, Multiple
  <1>4. t - start = (a + k) * Period
    BY <1>1, <1>3
  <1>5. a + k \in Nat /\ ((a + k) * Period) % Period = 0
    BY <1>1, MultipleMod
  <1>6. k * Period \in Nat
    BY <1>1
  <1> QED BY <1>4, <1>5, <1>6

-----------------------------------------------------------------------------
\* The loop of a pass over one due row: what it emits lies between the row and the
\* time of the pass, contains the row, and has a last element.
LEMMA EmittedDue ==
  ASSUME NEW row \in Row, NEW time \in Clock,
         row.next_run_at # None, row.next_run_at <= time
  PROVE  /\ row.next_run_at \in Emitted(row, time)
         /\ \A t \in Emitted(row, time) : t \in Clock /\ t <= time
         /\ Max(Emitted(row, time)) \in Emitted(row, time)
         /\ \A t \in Emitted(row, time) : t <= Max(Emitted(row, time))
         /\ Continued(row, time) \in Times \cup {None}
  <1> DEFINE n == row.next_run_at
             S == Emitted(row, time)
  <1>1. n \in Nat /\ time \in Nat /\ time <= MaxTime /\ MaxTime \in Nat /\ Period \in Nat /\ BatchLimit \in Nat \ {0}
    BY TimeAssumption DEF Row, Times, Clock
  <1>2. n \in S
    <2>1. n = n + 0 * Period /\ 0 \in 0 .. BatchLimit - 1
      BY <1>1
    <2> QED BY <2>1 DEF Emitted
  <1>3. \A t \in S : t \in Nat /\ t <= time
    <2>1. \A k \in 0 .. BatchLimit - 1 : n + k * Period \in Nat
      BY <1>1
    <2> QED BY <2>1, <1>1 DEF Emitted
  <1>4. S \subseteq 0 .. time
    BY <1>1, <1>3
  <1>5. Max(S) \in S /\ \A t \in S : Max(S) >= t
    BY <1>1, <1>2, <1>4, MaxIsGreatest
  <1>6. Max(S) \in Nat /\ Max(S) <= MaxTime
    BY <1>1, <1>3, <1>5
  <1>7. Continued(row, time) \in Times \cup {None}
    BY <1>1, <1>6 DEF Continued, NextOccurrence, Times
  <1>8. \A t \in S : t \in Clock /\ t <= Max(S)
    BY <1>1, <1>3, <1>5, <1>6 DEF Clock
  <1> QED BY <1>2, <1>3, <1>5, <1>7, <1>8

\* A pass leaves no occurrence out between the row it loaded and the one it leaves.
LEMMA NoGap ==
  ASSUME NEW row \in Row, NEW time \in Clock,
         row.kind = "REPEAT", row.next_run_at # None, row.next_run_at <= time,
         row.start <= row.next_run_at, (row.next_run_at - row.start) % Period = 0,
         NEW t \in Nat, (t - row.start) % Period = 0,
         row.next_run_at <= t, t < Continued(row, time)
  PROVE  t \in Emitted(row, time)
  <1> DEFINE n == row.next_run_at
             S == Emitted(row, time)
  <1>1. n \in Nat /\ row.start \in Nat /\ time \in Nat /\ Period \in Nat \ {0} /\ BatchLimit \in Nat \ {0}
    BY TimeAssumption DEF Row, Times, Clock
  <1>2. S = {x \in {n + k * Period : k \in 0 .. BatchLimit - 1} : x <= time}
    BY DEF Emitted
  <1>3. Max(S) \in S /\ Continued(row, time) = Max(S) + Period
    BY EmittedDue DEF Continued, NextOccurrence
  <1>4. PICK m \in 0 .. BatchLimit - 1 : Max(S) = n + m * Period
    BY <1>2, <1>3
  <1>5. PICK k \in Nat : t = n + k * Period
    <2> DEFINE s == row.start
    <2>1. s \in Nat /\ n \in Nat /\ s <= n /\ n <= t /\ (n - s) % Period = 0 /\ (t - s) % Period = 0
      BY <1>1
    <2> HIDE DEF s, n
    <2> QED BY ONLY <2>1, t \in Nat, StepsOn
  <1>6. k <= m
    <2>1. n + k * Period < n + m * Period + Period
      BY <1>3, <1>4, <1>5
    <2> HIDE DEF n
    <2>2. k * Period < (m + 1) * Period
      BY <1>1, <2>1
    <2> QED BY <1>1, <2>2
  <1>7. k \in 0 .. BatchLimit - 1
    BY <1>1, <1>6
  <1>8. t <= Max(S)
    <2>1. k * Period <= m * Period
      BY <1>1, <1>6
    <2> QED BY <1>1, <2>1, <1>4, <1>5
  <1>9. Max(S) <= time
    BY <1>2, <1>3
  <1>10. Max(S) \in Nat
    BY <1>1, <1>4
  <1> QED BY <1>1, <1>2, <1>5, <1>7, <1>8, <1>9, <1>10

\* Where it leaves the row is again on the schedule.
LEMMA ContinuedOnSchedule ==
  ASSUME NEW row \in Row, NEW time \in Clock,
         row.next_run_at # None, row.next_run_at <= time,
         row.start <= row.next_run_at, (row.next_run_at - row.start) % Period = 0,
         Continued(row, time) # None
  PROVE  /\ row.kind = "REPEAT" /\ row.start <= Continued(row, time)
         /\ (Continued(row, time) - row.start) % Period = 0
  <1> DEFINE n == row.next_run_at
             S == Emitted(row, time)
  <1>1. n \in Nat /\ row.start \in Nat /\ time \in Nat /\ Period \in Nat \ {0} /\ BatchLimit \in Nat \ {0}
    BY TimeAssumption DEF Row, Times, Clock
  <1>2. row.kind = "REPEAT" /\ Continued(row, time) = Max(S) + Period
    BY DEF Continued, NextOccurrence, Row
  <1>3. PICK m \in 0 .. BatchLimit - 1 : Max(S) = n + m * Period
    BY <1>2, EmittedDue DEF Emitted
  <1>4. Continued(row, time) = n + (m + 1) * Period
    BY <1>1, <1>2, <1>3
  <1>5. m + 1 \in Nat
    BY <1>1
  <1> DEFINE s == row.start
             c == Continued(row, time)
  <1>6. s \in Nat /\ n \in Nat /\ s <= n /\ (n - s) % Period = 0
    BY <1>1
  <1>7. c = n + (m + 1) * Period /\ c \in Nat
    BY <1>1, <1>4, <1>5
  <1> HIDE DEF s, n, c
  <1>8. s <= c /\ (c - s) % Period = 0
    BY <1>5, <1>6, <1>7, StepOn
  <1> QED BY <1>2, <1>8 DEF s, c
-----------------------------------------------------------------------------
\* The rows a pass may hold: those of any set of definitions.
LEMMA Rows ==
  ASSUME NEW S \in SUBSET Defs, NEW f \in [S -> Row]
  PROVE  f \in UNION {[T -> Row] : T \in SUBSET Defs}
  OBVIOUS

\* The values of a row, a pass and a request before anything happened.
LEMMA NoRowType == NoRow \in Row
  BY TimeAssumption DEF NoRow, Row, Clock

\* No pass has loaded nothing.
LEMMA NoPassType == NoPass \in PassType /\ DOMAIN NoPass.rows = {} /\ NoPass.pc = "idle" /\ NoPass.time = 0
  <1>1. [d \in {} |-> NoRow] \in [{} -> Row]
    OBVIOUS
  <1>2. [d \in {} |-> NoRow] \in UNION {[T -> Row] : T \in SUBSET Defs}
    BY <1>1, Rows
  <1>3. 0 \in Clock
    BY TimeAssumption DEF Clock
  <1> QED BY <1>2, <1>3 DEF NoPass, PassType

\* No edit is an edit of its type.
LEMMA NoEditType == NoEdit \in EditType /\ NoEdit.op = "none"
  BY NoRowType DEF NoEdit, EditType

\* What a pass holds, whatever it is doing.
LEMMA PassFacts ==
  ASSUME Typed, NEW g \in Passes
  PROVE  /\ pass[g] \in PassType
         /\ Loaded(g) \subseteq Defs
         /\ pass[g].rows \in [Loaded(g) -> Row]
         /\ \A d \in Loaded(g) : pass[g].rows[d] \in Row
  <1>1. pass[g] \in PassType
    BY DEF Typed, Shape
  <1>2. PICK S \in SUBSET Defs : pass[g].rows \in [S -> Row]
    BY <1>1 DEF PassType
  <1> QED BY <1>1, <1>2 DEF Loaded

\* Before the first definition nothing is loaded.
LEMMA InitTyped == Init => Typed
  <1> SUFFICES ASSUME Init PROVE Typed
    OBVIOUS
  <1> USE DEF Init
  <1>1. 0 \in Clock
    BY TimeAssumption DEF Clock
  <1>2. \A g \in Passes : Loaded(g) = {} /\ pass[g] = NoPass
    BY NoPassType DEF Loaded
  <1>3. TypeOK
    BY <1>1, <1>2, NoPassType, NoRowType, NoEditType DEF TypeOK
  <1>4. Shape
    BY NoPassType, NoEditType DEF Shape
  <1>5. AllKnown
    BY <1>2, NoEditType DEF AllKnown
  <1>6. AllDue
    BY <1>2, NoPassType DEF AllDue
  <1> QED BY <1>3, <1>4, <1>5, <1>6 DEF Typed

\* A step that gives pass g a new local state, and leaves the rest alone.
LEMMA PassStep ==
  ASSUME Typed, NEW g \in Passes, NEW p \in PassType, pass' = [pass EXCEPT ![g] = p],
         UNCHANGED <<now, edit, overlap>>, defs' \in [Defs -> Row],
         \A d \in Defs : defs'[d].state = defs[d].state,
         tasks' \subseteq Defs \X Times, events' \in [Defs \X Times -> Nat],
         p.time <= now,
         \A d \in DOMAIN p.rows : /\ d \in Defs /\ p.rows[d] \in Row /\ defs[d].state # "new"
                                  /\ p.rows[d].next_run_at # None /\ p.rows[d].next_run_at <= p.time,
         p.pc = "probed" => p.first \in DOMAIN p.rows
  PROVE  Typed'
  <1>1. /\ pass' \in [Passes -> PassType] /\ pass'[g] = p
        /\ \A h \in Passes \ {g} : pass'[h] = pass[h]
    BY DEF Typed, Shape
  <1>2. TypeOK'
    <2>1. \A h \in Passes : /\ pass'[h].pc \in {"idle", "loaded", "probed"}
                            /\ Loaded(h)' \subseteq Defs
                            /\ \A d \in Loaded(h)' : pass'[h].rows[d] \in Row
                            /\ pass'[h].pc = "probed" => pass'[h].first \in Loaded(h)'
      BY <1>1 DEF Typed, TypeOK, Loaded, PassType
    <2> QED BY <2>1 DEF Typed, TypeOK
  <1>3. Shape'
    BY <1>1 DEF Typed, Shape
  <1>4. AllKnown'
    <2>1. \A e \in Editors : edit[e].op # "none" => edit[e].d \in Defs
      BY DEF Typed, TypeOK
    <2>2. \A h \in Passes : \A d \in Loaded(h)' : d \in Defs /\ defs[d].state # "new"
      BY <1>1, PassFacts DEF Typed, AllKnown, Loaded
    <2> QED BY <2>1, <2>2 DEF Typed, AllKnown
  <1>5. AllDue'
    BY <1>1 DEF Typed, AllDue, Loaded
  <1> QED BY <1>2, <1>3, <1>4, <1>5 DEF Typed

\* The SELECT of a pass loads rows that are due.
LEMMA LoadTyped ==
  ASSUME Typed, NEW g \in Passes, LoadDefinitions(g)
  PROVE  Typed'
  <1> DEFINE p == [NoPass EXCEPT !.pc = "loaded", !.time = now,
                                 !.rows = [d \in {x \in Defs : Due(x)} |-> defs[d]]]
  <1>1. p.rows = [d \in {x \in Defs : Due(x)} |-> defs[d]] /\ p.time = now /\ p.pc = "loaded"
    BY DEF NoPass
  <1>2. now \in Clock /\ defs \in [Defs -> Row] /\ now <= now
    BY TimeAssumption DEF Typed, TypeOK, Clock
  <1>3. p.rows \in UNION {[T -> Row] : T \in SUBSET Defs}
    <2>1. p.rows \in [{x \in Defs : Due(x)} -> Row]
      BY <1>1, <1>2
    <2> QED BY <2>1, Rows
  <1>4. p \in PassType
    BY <1>2, <1>3, NoPassType DEF PassType, NoPass
  <1>5. \A d \in DOMAIN p.rows : /\ d \in Defs /\ p.rows[d] \in Row /\ defs[d].state # "new"
                                 /\ p.rows[d].next_run_at # None /\ p.rows[d].next_run_at <= p.time
    BY <1>1, <1>2 DEF Due, Live
  <1>6. tasks' \subseteq Defs \X Times /\ events' \in [Defs \X Times -> Nat]
    BY DEF LoadDefinitions, Typed, TypeOK
  <1>7. pass' = [pass EXCEPT ![g] = p] /\ UNCHANGED <<now, defs, edit, overlap>>
    BY DEF LoadDefinitions
  <1>8. defs' \in [Defs -> Row] /\ \A d \in Defs : defs'[d].state = defs[d].state
    BY <1>2, <1>7
  <1> HIDE DEF p
  <1> QED BY <1>1, <1>2, <1>4, <1>5, <1>6, <1>7, <1>8, PassStep

\* The probe of a pass changes neither its rows nor its time.
LEMMA ProbeTyped ==
  ASSUME Typed, NEW g \in Passes, ProbeOccurrence(g)
  PROVE  Typed'
  <1>1. PICK d \in Loaded(g) :
          pass' = [pass EXCEPT ![g].pc = "probed", ![g].first = d,
                     ![g].found = <<d, pass[g].rows[d].next_run_at>> \in tasks]
    BY DEF ProbeOccurrence
  <1> DEFINE b == <<d, pass[g].rows[d].next_run_at>> \in tasks
             p == [pass[g] EXCEPT !.pc = "probed", !.first = d, !.found = b]
  <1>2. pass' = [pass EXCEPT ![g] = p]
    BY <1>1
  <1>3. /\ p \in PassType /\ p.pc = "probed" /\ p.first = d
        /\ p.rows = pass[g].rows /\ p.time = pass[g].time
    <2>1. b \in BOOLEAN
      OBVIOUS
    <2> HIDE DEF b
    <2> QED BY <2>1, PassFacts DEF PassType
  <1>4. p.time <= now /\ p.first \in DOMAIN p.rows
    BY <1>3 DEF Typed, AllDue, Loaded
  <1>5. \A x \in DOMAIN p.rows : /\ x \in Defs /\ p.rows[x] \in Row /\ defs[x].state # "new"
                                 /\ p.rows[x].next_run_at # None /\ p.rows[x].next_run_at <= p.time
    BY <1>3, PassFacts DEF Typed, AllDue, AllKnown, Loaded
  <1>6. tasks' \subseteq Defs \X Times /\ events' \in [Defs \X Times -> Nat]
    BY DEF ProbeOccurrence, Typed, TypeOK
  <1>7. UNCHANGED <<now, defs, edit, overlap>>
    BY DEF ProbeOccurrence
  <1>8. defs' \in [Defs -> Row] /\ \A x \in Defs : defs'[x].state = defs[x].state
    BY <1>7 DEF Typed, TypeOK
  <1> HIDE DEF p
  <1> QED BY <1>2, <1>3, <1>4, <1>5, <1>6, <1>7, <1>8, PassStep

\* A pass that is rolled back leaves nothing.
LEMMA RollBackTyped ==
  ASSUME Typed, NEW g \in Passes, RollBack(g)
  PROVE  Typed'
  <1>1. tasks' \subseteq Defs \X Times /\ events' \in [Defs \X Times -> Nat]
    BY DEF RollBack, Typed, TypeOK
  <1>2. pass' = [pass EXCEPT ![g] = NoPass] /\ UNCHANGED <<now, defs, edit, overlap>>
    BY DEF RollBack
  <1>3. NoPass.time <= now
    BY NoPassType, TimeAssumption DEF Typed, TypeOK, Clock
  <1>4. defs' \in [Defs -> Row] /\ \A d \in Defs : defs'[d].state = defs[d].state
    BY <1>2 DEF Typed, TypeOK
  <1> QED BY <1>1, <1>2, <1>3, <1>4, NoPassType, PassStep

\* What a pass writes.
Probed(g) == {<<pass[g].first, pass[g].rows[pass[g].first].next_run_at>>}
EmittedBy(g) == UNION {{d} \X Emitted(pass[g].rows[d], pass[g].time) : d \in Loaded(g)}
Added(g) == (IF pass[g].found THEN {} ELSE Probed(g)) \cup (EmittedBy(g) \ (tasks \cup Probed(g)))

\* The step that writes, in those terms.
LEMMA Write ==
  ASSUME NEW g \in Passes, WriteOccurrences(g)
  PROVE  /\ pass[g].pc = "probed" /\ ~WriteConflicts(g)
         /\ tasks' = tasks \cup Added(g)
         /\ events' = [k \in DOMAIN events |-> IF k \in Added(g) THEN events[k] + 1 ELSE events[k]]
         /\ defs' = [d \in Defs |-> IF d \notin Loaded(g) THEN defs[d]
                       ELSE WrittenBack(defs[d], Continued(pass[g].rows[d], pass[g].time))]
         /\ pass' = [pass EXCEPT ![g] = NoPass]
         /\ UNCHANGED <<now, edit, overlap, edits, crashes>>
  BY DEF WriteOccurrences, Added, Probed, EmittedBy

\* It adds occurrences of definitions that are still there, not before their time,
\* and none that is there already.
LEMMA AddedNew ==
  ASSUME Typed, NEW g \in Passes, pass[g].pc = "probed", ~WriteConflicts(g), NEW k \in Added(g)
  PROVE  /\ k \in Defs \X Times /\ k[2] <= now
         /\ k[1] \in Loaded(g) /\ Live(k[1])
         /\ k \notin tasks
  <1>1. pass[g].first \in Loaded(g) /\ pass[g].time \in Clock /\ now \in Clock
    BY PassFacts DEF Typed, TypeOK, PassType
  <1>2. \A d \in Loaded(g) :
          /\ d \in Defs /\ pass[g].rows[d] \in Row
          /\ pass[g].rows[d].next_run_at # None /\ pass[g].rows[d].next_run_at <= pass[g].time
          /\ pass[g].rows[d].next_run_at \in Emitted(pass[g].rows[d], pass[g].time)
          /\ \A t \in Emitted(pass[g].rows[d], pass[g].time) : t \in Clock /\ t <= pass[g].time
    BY <1>1, PassFacts, EmittedDue DEF Typed, AllDue
  <1>3. EmittedBy(g) \subseteq {<<d, t>> : d \in Loaded(g), t \in Clock}
    BY <1>2 DEF EmittedBy
  <1>4. \A x \in EmittedBy(g) : x[1] \in Loaded(g) /\ x[2] \in Clock /\ x[2] <= pass[g].time
    BY <1>2 DEF EmittedBy
  <1>5. Probed(g) \subseteq EmittedBy(g)
    BY <1>1, <1>2 DEF Probed, EmittedBy
  <1>6. k \in EmittedBy(g)
    BY <1>5 DEF Added
  <1>7. \A t \in Clock : t \in Times /\ (t <= pass[g].time => t <= now)
    BY <1>1, TimeAssumption DEF Typed, AllDue, Times, Clock
  <1>8. k \notin tasks
    BY DEF Added, Probed, WriteConflicts
  <1>9. Live(k[1])
    BY <1>4, <1>6 DEF WriteConflicts
  <1>10. k \in Defs \X Times
    BY <1>2, <1>3, <1>6, <1>7
  <1> QED BY <1>4, <1>6, <1>7, <1>8, <1>9, <1>10

\* What it writes to a definition: next_run_at, and enabled only to clear it.
LEMMA WriteEffect ==
  ASSUME Typed, NEW g \in Passes, WriteOccurrences(g), NEW d \in Defs
  PROVE  /\ defs'[d] \in Row
         /\ defs'[d].state = defs[d].state /\ defs'[d].kind = defs[d].kind /\ defs'[d].start = defs[d].start
         /\ defs'[d].enabled => defs[d].enabled
         /\ d \notin Loaded(g) => defs'[d] = defs[d]
         /\ d \in Loaded(g) => defs'[d].next_run_at = Continued(pass[g].rows[d], pass[g].time)
  <1>1. defs[d] \in Row
    BY DEF Typed, TypeOK
  <1>2. CASE d \notin Loaded(g)
    BY <1>1, <1>2, Write
  <1>3. CASE d \in Loaded(g)
    <2> DEFINE n == Continued(pass[g].rows[d], pass[g].time)
               b == defs[d].enabled /\ n # None
    <2>1. defs'[d] = [defs[d] EXCEPT !.next_run_at = n, !.enabled = b]
      <3>1. defs'[d] = WrittenBack(defs[d], n)
        BY <1>3, Write
      <3> QED BY <3>1, Zenon DEF WrittenBack
    <2>2. n \in Times \cup {None}
      BY <1>3, PassFacts, EmittedDue DEF Typed, AllDue, PassType
    <2>3. b \in BOOLEAN /\ (b => defs[d].enabled)
      OBVIOUS
    <2> HIDE DEF b, n
    <2>4. /\ defs'[d] \in Row
          /\ defs'[d].state = defs[d].state /\ defs'[d].kind = defs[d].kind /\ defs'[d].start = defs[d].start
          /\ defs'[d].enabled = b /\ defs'[d].next_run_at = n
      BY <1>1, <2>1, <2>2, <2>3 DEF Row
    <2> QED BY <1>3, <2>3, <2>4 DEF n
  <1> QED BY <1>2, <1>3

\* Its rows and keys have their types.
LEMMA WriteTyped ==
  ASSUME Typed, NEW g \in Passes, WriteOccurrences(g)
  PROVE  Typed'
  <1>1. defs' \in [Defs -> Row] /\ \A d \in Defs : defs'[d].state = defs[d].state
    BY Write, WriteEffect
  <1>2. tasks' \subseteq Defs \X Times
    BY Write, AddedNew DEF Typed, TypeOK
  <1>3. events' \in [Defs \X Times -> Nat]
    BY Write DEF Typed, TypeOK
  <1>4. NoPass.time <= now
    BY NoPassType, TimeAssumption DEF Typed, TypeOK, Clock
  <1> QED BY <1>1, <1>2, <1>3, <1>4, Write, NoPassType, PassStep

\* A step of a request: passes stay, and no definition becomes new again.
LEMMA EditStep ==
  ASSUME Typed, UNCHANGED <<now, pass>>,
         defs' \in [Defs -> Row], edit' \in [Editors -> EditType], overlap' \in [Defs -> BOOLEAN],
         tasks' \subseteq Defs \X Times, events' \in [Defs \X Times -> Nat],
         \A d \in Defs : defs[d].state # "new" => defs'[d].state # "new",
         \A e \in Editors : edit'[e].op # "none" =>
           edit'[e].d \in Defs /\ edit'[e].row \in Row /\ defs'[edit'[e].d].state # "new"
  PROVE  Typed'
  <1>1. \A g \in Passes : Loaded(g)' = Loaded(g) /\ Loaded(g) \subseteq Defs
    BY PassFacts DEF Loaded
  <1>2. TypeOK'
    BY <1>1 DEF Typed, TypeOK
  <1>3. Shape'
    BY DEF Typed, Shape
  <1>4. AllKnown'
    BY <1>1 DEF Typed, AllKnown
  <1>5. AllDue'
    BY <1>1 DEF Typed, AllDue
  <1> QED BY <1>2, <1>3, <1>4, <1>5 DEF Typed

\* A request in flight knows a definition that was created.
LEMMA EditFacts ==
  ASSUME Typed, NEW e \in Editors
  PROVE  /\ edit[e] \in EditType
         /\ edit[e].op # "none" =>
              edit[e].d \in Defs /\ edit[e].row \in Row /\ defs[edit[e].d].state # "new"
  BY DEF Typed, TypeOK, Shape, AllKnown

\* A new definition has a row.
LEMMA CreateTyped ==
  ASSUME Typed, NEW d \in Defs, NEW kind \in {"ONCE", "REPEAT"}, NEW start \in Clock, Create(d, kind, start)
  PROVE  Typed'
  <1>1. start \in Times
    BY TimeAssumption DEF Clock, Times
  <1>2. defs' \in [Defs -> Row] /\ \A x \in Defs : defs[x].state # "new" => defs'[x].state # "new"
    BY <1>1 DEF Create, Typed, TypeOK, Row
  <1>3. UNCHANGED <<now, pass, edit, overlap, tasks, events>>
    BY DEF Create
  <1> QED BY <1>2, <1>3, EditFacts, EditStep DEF Typed, TypeOK, Shape

\* A request loads the row of a definition that is there.
LEMMA LoadRowTyped ==
  ASSUME Typed, NEW e \in Editors, NEW op \in {"update", "disable", "delete"}, NEW d \in Defs, LoadRow(e, op, d)
  PROVE  Typed'
  <1> DEFINE x == [op |-> op, d |-> d, row |-> defs[d]]
  <1>1. edit' = [edit EXCEPT ![e] = x] /\ UNCHANGED <<now, pass, defs, overlap, tasks, events>>
    BY DEF LoadRow
  <1>2. x \in EditType /\ x.d \in Defs /\ x.row \in Row /\ defs[x.d].state # "new"
    BY DEF Typed, TypeOK, LoadRow, Live, EditType
  <1> HIDE DEF x
  <1>3. edit' \in [Editors -> EditType] /\ edit'[e] = x /\ \A y \in Editors \ {e} : edit'[y] = edit[y]
    BY <1>1, <1>2 DEF Typed, Shape
  <1> QED BY <1>1, <1>2, <1>3, EditFacts, EditStep DEF Typed, TypeOK

\* The end of a request of e about definition d.

\* The end of a request of e that has written a row.
LEMMA EditedTyped ==
  ASSUME Typed, NEW e \in Editors, edit[e].op # "none", Edited(e),
         tasks' \subseteq tasks, defs' \in [Defs -> Row],
         \A d \in Defs : defs[d].state # "new" => defs'[d].state # "new"
  PROVE  Typed'
  <1>1. edit' = [edit EXCEPT ![e] = NoEdit] /\ UNCHANGED <<now, events, pass>>
    BY DEF Edited
  <1>2. edit' \in [Editors -> EditType] /\ edit'[e] = NoEdit /\ \A y \in Editors \ {e} : edit'[y] = edit[y]
    BY <1>1, NoEditType DEF Typed, Shape
  <1>3. overlap' \in [Defs -> BOOLEAN]
    <2> DEFINE b == overlap[edit[e].d] \/ \E g \in Passes : edit[e].d \in Loaded(g)
    <2>1. overlap' = [overlap EXCEPT ![edit[e].d] = b]
      BY Zenon DEF Edited
    <2>2. b \in BOOLEAN
      OBVIOUS
    <2> HIDE DEF b
    <2> QED BY <2>1, <2>2 DEF Typed, TypeOK
  <1> QED BY <1>1, <1>2, <1>3, NoEditType, EditFacts, EditStep DEF Typed, TypeOK

\* A definition that is not marked was not, and no pass has loaded the one edited.
LEMMA Unmarked ==
  ASSUME Typed, NEW e \in Editors, edit[e].op # "none", Edited(e)
  PROVE  /\ \A x \in Defs : ~overlap'[x] => ~overlap[x]
         /\ ~overlap'[edit[e].d] => \A g \in Passes : edit[e].d \notin Loaded(g)
  <1> DEFINE some == \E g \in Passes : edit[e].d \in Loaded(g)
             b == overlap[edit[e].d] \/ some
  <1>1. overlap' = [overlap EXCEPT ![edit[e].d] = b]
    BY Zenon DEF Edited
  <1>2. ~b => ~overlap[edit[e].d] /\ ~some
    OBVIOUS
  <1> HIDE DEF b
  <1>3. overlap \in [Defs -> BOOLEAN] /\ edit[e].d \in Defs
    BY EditFacts DEF Typed, TypeOK
  <1>4. overlap'[edit[e].d] = b /\ \A x \in Defs \ {edit[e].d} : overlap'[x] = overlap[x]
    BY <1>1, <1>3
  <1> QED BY <1>2, <1>4

\* What an update and a disable write.
LEMMA UpdateEffect ==
  ASSUME Typed, NEW e \in Editors, NEW kind \in {"ONCE", "REPEAT"}, NEW start \in Clock, Update(e, kind, start)
  PROVE  /\ edit[e].op # "none" /\ edit[e].d \in Defs
         /\ defs' \in [Defs -> Row]
         /\ \A x \in Defs : defs'[x].state = defs[x].state
         /\ \A x \in Defs \ {edit[e].d} : defs'[x] = defs[x]
         /\ Live(edit[e].d) => defs'[edit[e].d].start = start /\ defs'[edit[e].d].next_run_at = start
         /\ ~Live(edit[e].d) => defs'[edit[e].d] = defs[edit[e].d]
  <1> DEFINE d == edit[e].d
             row == edit[e].row
  <1>1. d \in Defs /\ row \in Row /\ edit[e].op # "none" /\ start \in Times /\ defs[d] \in Row
    BY EditFacts, TimeAssumption DEF Update, Clock, Times, Typed, TypeOK
  <1> DEFINE new == IF Live(d) THEN [defs[d] EXCEPT !.kind = Column(row.kind, kind, defs[d].kind),
                                          !.start = start, !.next_run_at = start,
                                          !.enabled = Column(row.enabled, TRUE, defs[d].enabled)]
                    ELSE defs[d]
  <1>2. defs' = [defs EXCEPT ![d] = new]
    BY Zenon DEF Update
  <1>3. /\ Column(row.kind, kind, defs[d].kind) \in {"ONCE", "REPEAT"}
        /\ Column(row.enabled, TRUE, defs[d].enabled) \in BOOLEAN
    BY <1>1 DEF Column, Row
  <1>4. /\ new \in Row /\ new.state = defs[d].state
        /\ Live(d) => new.start = start /\ new.next_run_at = start
        /\ ~Live(d) => new = defs[d]
    BY <1>1, <1>3 DEF Row
  <1> HIDE DEF new
  <1> QED BY <1>1, <1>2, <1>4 DEF Typed, TypeOK

\* An update leaves a row.
LEMMA UpdateTyped ==
  ASSUME Typed, NEW e \in Editors, NEW kind \in {"ONCE", "REPEAT"}, NEW start \in Clock, Update(e, kind, start)
  PROVE  Typed'
  <1>1. tasks' \subseteq tasks /\ Edited(e)
    BY DEF Update
  <1> QED BY <1>1, UpdateEffect, EditedTyped

\* A disable writes enabled and next_run_at, and only to clear them.
LEMMA DisableEffect ==
  ASSUME Typed, NEW e \in Editors, Disable(e)
  PROVE  /\ edit[e].op # "none" /\ edit[e].d \in Defs
         /\ defs' \in [Defs -> Row]
         /\ \A x \in Defs : /\ defs'[x].state = defs[x].state
                            /\ defs'[x].kind = defs[x].kind /\ defs'[x].start = defs[x].start
                            /\ defs'[x].next_run_at \in {None, defs[x].next_run_at}
                            /\ defs'[x].enabled => defs[x].enabled
  <1> DEFINE d == edit[e].d
             row == edit[e].row
  <1>1. d \in Defs /\ row \in Row /\ edit[e].op # "none" /\ defs[d] \in Row
    BY EditFacts DEF Disable, Typed, TypeOK
  <1> DEFINE new == [defs[d] EXCEPT !.enabled = Column(row.enabled, FALSE, defs[d].enabled),
                          !.next_run_at = Column(row.next_run_at, None, defs[d].next_run_at)]
  <1>2. defs' = [defs EXCEPT ![d] = new]
    BY Zenon DEF Disable
  <1>3. /\ Column(row.next_run_at, None, defs[d].next_run_at) \in {None, defs[d].next_run_at}
        /\ Column(row.enabled, FALSE, defs[d].enabled) \in BOOLEAN
        /\ Column(row.enabled, FALSE, defs[d].enabled) => defs[d].enabled
    BY <1>1 DEF Column, Row
  <1>4. /\ new \in Row /\ new.state = defs[d].state
        /\ new.kind = defs[d].kind /\ new.start = defs[d].start
        /\ new.next_run_at \in {None, defs[d].next_run_at}
        /\ new.enabled => defs[d].enabled
    BY <1>1, <1>3 DEF Row
  <1> HIDE DEF new
  <1> QED BY <1>1, <1>2, <1>4 DEF Typed, TypeOK

\* A disable leaves a row.
LEMMA DisableTyped ==
  ASSUME Typed, NEW e \in Editors, Disable(e)
  PROVE  Typed'
  <1>1. tasks' \subseteq tasks /\ Edited(e)
    BY DEF Disable
  <1> QED BY <1>1, DisableEffect, EditedTyped

\* A deleted definition keeps a place, and is not new again.
LEMMA DeleteTyped ==
  ASSUME Typed, NEW e \in Editors, Delete(e)
  PROVE  Typed'
  <1>1. edit[e].d \in Defs /\ edit[e].op # "none"
    BY EditFacts DEF Delete
  <1>2. [NoRow EXCEPT !.state = "deleted"] \in Row
    BY NoRowType DEF Row, NoRow
  <1>3. defs' \in [Defs -> Row] /\ \A x \in Defs : defs[x].state # "new" => defs'[x].state # "new"
    BY <1>1, <1>2 DEF Delete, Typed, TypeOK, NoRow
  <1> QED BY <1>1, <1>3, EditedTyped DEF Delete

\* Passes stay due as time goes on.
LEMMA TickTyped ==
  ASSUME Typed, Tick
  PROVE  Typed'
  <1>1. now' \in Clock /\ now \in Nat /\ now' = now + 1
    BY TimeAssumption DEF Tick, Typed, TypeOK, Clock
  <1>2. \A g \in Passes : Loaded(g)' = Loaded(g) /\ pass[g].time \in Nat
    BY PassFacts DEF Loaded, Tick, PassType, Clock
  <1>3. TypeOK'
    BY <1>1, <1>2 DEF Tick, Typed, TypeOK
  <1>4. Shape' /\ AllKnown'
    BY <1>2 DEF Tick, Typed, Shape, AllKnown
  <1>5. AllDue'
    BY <1>1, <1>2 DEF Tick, Typed, AllDue
  <1> QED BY <1>3, <1>4, <1>5 DEF Typed

\* A restart takes passes and requests.
LEMMA CrashTyped ==
  ASSUME Typed, Crash
  PROVE  Typed'
  <1>1. /\ \A g \in Passes : pass'[g] = NoPass /\ Loaded(g)' = {}
        /\ \A e \in Editors : edit'[e] = NoEdit
        /\ pass' \in [Passes -> PassType] /\ edit' \in [Editors -> EditType]
    BY NoPassType, NoEditType DEF Crash, Loaded
  <1>2. UNCHANGED <<now, defs, tasks, events, overlap>>
    BY DEF Crash
  <1>3. TypeOK'
    BY <1>1, <1>2, NoPassType, NoEditType DEF Typed, TypeOK
  <1>4. Shape' /\ AllKnown'
    BY <1>1, NoEditType DEF Typed, Shape, AllKnown
  <1>5. AllDue'
    BY <1>1, <1>2, NoPassType, TimeAssumption DEF Typed, TypeOK, AllDue, Clock
  <1> QED BY <1>3, <1>4, <1>5 DEF Typed

\* The types and what the local copies are about, over every step.
LEMMA NextTyped == Typed /\ [Next]_vars => Typed'
  <1> SUFFICES ASSUME Typed, [Next]_vars PROVE Typed'
    OBVIOUS
  <1>1. ASSUME NEW g \in Passes, Generate(g) PROVE Typed'
    BY <1>1, LoadTyped, ProbeTyped, WriteTyped, RollBackTyped DEF Generate
  <1>2. ASSUME NEW d \in Defs, NEW kind \in {"ONCE", "REPEAT"}, NEW start \in Clock, Create(d, kind, start)
        PROVE  Typed'
    BY <1>2, CreateTyped
  <1>3. ASSUME NEW e \in Editors, NEW op \in {"update", "disable", "delete"}, NEW d \in Defs, LoadRow(e, op, d)
        PROVE  Typed'
    BY <1>3, LoadRowTyped
  <1>4. ASSUME NEW e \in Editors, NEW kind \in {"ONCE", "REPEAT"}, NEW start \in Clock, Update(e, kind, start)
        PROVE  Typed'
    BY <1>4, UpdateTyped
  <1>5. ASSUME NEW e \in Editors, Disable(e) \/ Delete(e) PROVE Typed'
    BY <1>5, DisableTyped, DeleteTyped
  <1>6. CASE Tick
    BY <1>6, TickTyped
  <1>7. CASE Crash
    BY <1>7, CrashTyped
  <1>8. CASE UNCHANGED vars
    BY <1>8 DEF vars, Typed, TypeOK, Shape, AllKnown, AllDue, Loaded
  <1> QED BY <1>1, <1>2, <1>3, <1>4, <1>5, <1>6, <1>7, <1>8 DEF Next
-----------------------------------------------------------------------------
\* A step that adds no occurrence and keeps live definitions live.
LEMMA OnceKept ==
  ASSUME Typed, Typed', ExactlyOnce, NoneLost, UNCHANGED <<tasks, events>>, now <= now',
         \A d \in Defs : defs[d].state # "new" => defs'[d].state = defs[d].state
  PROVE  ExactlyOnce' /\ NoneLost'
  <1>1. \A k \in tasks : k \in Defs \X Times /\ k[1] \in Defs /\ k[2] \in Times
    BY DEF Typed, TypeOK
  <1>2. now \in Nat /\ now' \in Nat /\ \A t \in Times : t \in Nat
    BY TimeAssumption DEF Typed, TypeOK, Clock, Times
  <1>3. ExactlyOnce'
    BY <1>1, <1>2 DEF ExactlyOnce, Live
  <1>4. NoneLost'
    BY DEF NoneLost
  <1> QED BY <1>3, <1>4

\* A pass adds keys that were never generated: their definition is live and they are not there.
LEMMA OnceWritten ==
  ASSUME Typed, ExactlyOnce, NoneLost, NEW g \in Passes, WriteOccurrences(g)
  PROVE  ExactlyOnce' /\ NoneLost'
  <1>1. \A k \in Added(g) : /\ k \in Defs \X Times /\ k[1] \in Defs /\ k[2] <= now
                            /\ Live(k[1]) /\ k \notin tasks /\ events[k] = 0
    <2> TAKE k \in Added(g)
    <2>1. k \in Defs \X Times /\ k[2] <= now /\ Live(k[1]) /\ k \notin tasks
      BY AddedNew, Write
    <2>2. events[k] \in Nat /\ events[k] <= 1 /\ events[k] # 1
      BY <2>1 DEF Typed, TypeOK, ExactlyOnce, NoneLost, Live
    <2> QED BY <2>1, <2>2
  <1>2. /\ tasks' = tasks \cup Added(g) /\ UNCHANGED now
        /\ \A k \in Defs \X Times : events'[k] = IF k \in Added(g) THEN events[k] + 1 ELSE events[k]
    BY Write DEF Typed, TypeOK
  <1>3. \A d \in Defs : defs'[d].state = defs[d].state
    BY WriteEffect
  <1>4. ExactlyOnce'
    <2>1. \A k \in Defs \X Times : events'[k] <= 1
      BY <1>1, <1>2 DEF ExactlyOnce
    <2>2. ASSUME NEW k \in tasks' PROVE events'[k] = 1 /\ k[2] <= now' /\ Live(k[1])'
      <3>1. CASE k \in Added(g)
        BY <1>1, <1>2, <1>3, <3>1 DEF Live
      <3>2. CASE k \notin Added(g)
        <4>1. k \in tasks /\ k \in Defs \X Times /\ k[1] \in Defs
          BY <1>2, <3>2 DEF Typed, TypeOK
        <4> QED BY <1>2, <1>3, <3>2, <4>1 DEF ExactlyOnce, Live
      <3> QED BY <3>1, <3>2
    <2> QED BY <2>1, <2>2 DEF ExactlyOnce
  <1>5. NoneLost'
    BY <1>1, <1>2, <1>3 DEF NoneLost
  <1> QED BY <1>4, <1>5

\* With a definition go its tasks, never to come back.
LEMMA OnceDeleted ==
  ASSUME Typed, ExactlyOnce, NoneLost, NEW e \in Editors, Delete(e)
  PROVE  ExactlyOnce' /\ NoneLost'
  <1>1. edit[e].d \in Defs
    BY EditFacts DEF Delete
  <1>2. \A k \in tasks : k \in Defs \X Times /\ k[1] \in Defs
    BY DEF Typed, TypeOK
  <1>3. /\ tasks' = {k \in tasks : k[1] # edit[e].d} /\ UNCHANGED <<events, now>>
        /\ \A d \in Defs \ {edit[e].d} : defs'[d] = defs[d]
        /\ defs'[edit[e].d].state = "deleted"
    BY <1>1 DEF Delete, Edited, Typed, TypeOK, NoRow
  <1>4. ExactlyOnce'
    BY <1>2, <1>3 DEF ExactlyOnce, Live
  <1>5. NoneLost'
    BY <1>1, <1>3 DEF NoneLost
  <1> QED BY <1>4, <1>5

\* Once is once, over every step.
LEMMA NextOnce == Typed /\ ExactlyOnce /\ NoneLost /\ [Next]_vars => ExactlyOnce' /\ NoneLost'
  <1> SUFFICES ASSUME Typed, ExactlyOnce, NoneLost, [Next]_vars PROVE ExactlyOnce' /\ NoneLost'
    OBVIOUS
  <1>0. Typed'
    BY NextTyped
  <1>a. now <= now
    BY TimeAssumption DEF Typed, TypeOK, Clock
  <1>1. ASSUME NEW g \in Passes, Generate(g) PROVE ExactlyOnce' /\ NoneLost'
    <2>1. CASE WriteOccurrences(g)
      BY <2>1, OnceWritten
    <2>2. CASE LoadDefinitions(g) \/ ProbeOccurrence(g) \/ RollBack(g)
      <3>1. UNCHANGED <<tasks, events, now, defs>>
        BY <2>2 DEF LoadDefinitions, ProbeOccurrence, RollBack
      <3> QED BY <1>0, <1>a, <3>1, OnceKept
    <2> QED BY <1>1, <2>1, <2>2 DEF Generate
  <1>2. ASSUME NEW d \in Defs, NEW kind \in {"ONCE", "REPEAT"}, NEW start \in Clock, Create(d, kind, start)
        PROVE  ExactlyOnce' /\ NoneLost'
    <2>1. UNCHANGED <<tasks, events, now>> /\ \A x \in Defs : defs[x].state # "new" => defs'[x].state = defs[x].state
      BY <1>2 DEF Create, Typed, TypeOK
    <2> QED BY <1>0, <1>a, <2>1, OnceKept
  <1>3. ASSUME NEW e \in Editors, NEW op \in {"update", "disable", "delete"}, NEW d \in Defs, LoadRow(e, op, d)
        PROVE  ExactlyOnce' /\ NoneLost'
    <2>1. UNCHANGED <<tasks, events, now, defs>>
      BY <1>3 DEF LoadRow
    <2> QED BY <1>0, <1>a, <2>1, OnceKept
  <1>4. ASSUME NEW e \in Editors, NEW kind \in {"ONCE", "REPEAT"}, NEW start \in Clock, Update(e, kind, start)
        PROVE  ExactlyOnce' /\ NoneLost'
    <2>1. UNCHANGED <<tasks, events, now>>
      BY <1>4 DEF Update, Edited
    <2>2. \A x \in Defs : defs'[x].state = defs[x].state
      BY <1>4, UpdateEffect
    <2> QED BY <1>0, <1>a, <2>1, <2>2, OnceKept
  <1>5. ASSUME NEW e \in Editors, Disable(e) PROVE ExactlyOnce' /\ NoneLost'
    <2>1. UNCHANGED <<tasks, events, now>>
      BY <1>5 DEF Disable, Edited
    <2>2. \A x \in Defs : defs'[x].state = defs[x].state
      BY <1>5, DisableEffect
    <2> QED BY <1>0, <1>a, <2>1, <2>2, OnceKept
  <1>6. ASSUME NEW e \in Editors, Delete(e) PROVE ExactlyOnce' /\ NoneLost'
    BY <1>6, OnceDeleted
  <1>7. CASE Tick
    <2>1. UNCHANGED <<tasks, events, defs>> /\ now <= now'
      BY <1>7, TimeAssumption DEF Tick, Typed, TypeOK, Clock
    <2> QED BY <1>0, <2>1, OnceKept
  <1>8. CASE Crash
    <2>1. UNCHANGED <<tasks, events, now, defs>>
      BY <1>8 DEF Crash
    <2> QED BY <1>0, <1>a, <2>1, OnceKept
  <1>9. CASE UNCHANGED vars
    <2>1. UNCHANGED <<tasks, events, now, defs>>
      BY <1>9 DEF vars
    <2> QED BY <1>0, <1>a, <2>1, OnceKept
  <1> QED BY <1>1, <1>2, <1>3, <1>4, <1>5, <1>6, <1>7, <1>8, <1>9 DEF Next
-----------------------------------------------------------------------------
\* A pass that has probed, has probed one of its rows.
LEMMA PassFirst ==
  ASSUME Typed, NEW g \in Passes, pass[g].pc = "probed"
  PROVE  pass[g].first \in Loaded(g) /\ pass[g].first \in Defs
  BY PassFacts DEF Typed, TypeOK

\* A pass loads the rows as they are, with nothing before them.
LEMMA LoadInStep ==
  ASSUME Typed, InStep, NEW g \in Passes, LoadDefinitions(g)
  PROVE  InStep'
  <1>1. /\ UNCHANGED <<defs, tasks, overlap>>
        /\ \A h \in Passes \ {g} : pass'[h] = pass[h]
        /\ pass'[g].rows = [d \in {x \in Defs : Due(x)} |-> defs[d]] /\ pass'[g].pc = "loaded"
    BY DEF LoadDefinitions, NoPass, Typed, Shape
  <1>2. RowInStep'
    BY <1>1 DEF InStep, RowInStep, NothingBefore, OnSchedule, Live
  <1>3. ASSUME NEW h \in Passes, NEW d \in Loaded(h)', Live(d)', ~overlap'[d]
        PROVE  /\ pass'[h].rows[d].kind = defs'[d].kind /\ pass'[h].rows[d].start = defs'[d].start
               /\ NothingBefore(d, pass[h].rows[d])'
    <2>1. CASE h = g
      <3>1. d \in Defs /\ Due(d) /\ pass'[g].rows[d] = defs[d]
        BY <1>1, <1>3, <2>1 DEF Loaded
      <3>2. NothingBefore(d, defs[d])
        BY <1>1, <1>3, <3>1 DEF InStep, RowInStep, Due
      <3> QED BY <1>1, <2>1, <3>1, <3>2 DEF NothingBefore, OnSchedule, Live
    <2>2. CASE h # g
      BY <1>1, <1>3, <2>2 DEF InStep, PassInStep, NothingBefore, OnSchedule, Live, Loaded
    <2> QED BY <2>1, <2>2
  <1>4. PassInStep'
    BY <1>3 DEF PassInStep
  <1>5. FoundStays'
    BY <1>1 DEF InStep, FoundStays, Live
  <1> QED BY <1>2, <1>4, <1>5 DEF InStep

\* A key that was found is there.
LEMMA ProbeInStep ==
  ASSUME Typed, InStep, NEW g \in Passes, ProbeOccurrence(g)
  PROVE  InStep'
  <1>1. PICK d \in Loaded(g) :
          pass' = [pass EXCEPT ![g].pc = "probed", ![g].first = d,
                     ![g].found = <<d, pass[g].rows[d].next_run_at>> \in tasks]
    BY DEF ProbeOccurrence
  <1> DEFINE b == <<d, pass[g].rows[d].next_run_at>> \in tasks
  <1>2. pass' = [pass EXCEPT ![g].pc = "probed", ![g].first = d, ![g].found = b]
    BY <1>1
  <1>3. b => <<d, pass[g].rows[d].next_run_at>> \in tasks
    OBVIOUS
  <1> HIDE DEF b
  <1>4. /\ UNCHANGED <<defs, tasks, overlap>>
        /\ \A h \in Passes : pass'[h].rows = pass[h].rows
        /\ \A h \in Passes \ {g} : pass'[h] = pass[h]
        /\ pass'[g].first = d /\ pass'[g].found = b
    BY <1>2 DEF ProbeOccurrence, Typed, Shape, PassType
  <1>5. RowInStep'
    BY <1>4 DEF InStep, RowInStep, NothingBefore, OnSchedule, Live
  <1>6. PassInStep'
    BY <1>4 DEF InStep, PassInStep, NothingBefore, OnSchedule, Live, Loaded
  <1>7. FoundStays'
    BY <1>3, <1>4 DEF InStep, FoundStays, Live
  <1> QED BY <1>5, <1>6, <1>7 DEF InStep

\* Passes that end take nothing with them.
LEMMA PassesEndInStep ==
  ASSUME Typed, InStep, UNCHANGED <<defs, tasks, overlap>>,
         \A g \in Passes : pass'[g] = pass[g] \/ pass'[g] = NoPass
  PROVE  InStep'
  <1>1. RowInStep'
    BY DEF InStep, RowInStep, NothingBefore, OnSchedule, Live
  <1>2. \A g \in Passes : Loaded(g)' # {} => pass'[g] = pass[g]
    BY NoPassType DEF Loaded
  <1>3. PassInStep'
    BY <1>2 DEF InStep, PassInStep, NothingBefore, OnSchedule, Live, Loaded
  <1>4. FoundStays'
    BY NoPassType DEF InStep, FoundStays, Live
  <1> QED BY <1>1, <1>3, <1>4 DEF InStep

\* The pass moves its rows over nothing that is not generated.
LEMMA WriteInStep ==
  ASSUME Typed, InStep, NEW g \in Passes, WriteOccurrences(g)
  PROVE  InStep'
  <1>1. /\ UNCHANGED overlap /\ tasks' = tasks \cup Added(g)
        /\ \A h \in Passes \ {g} : pass'[h] = pass[h]
        /\ Loaded(g)' = {} /\ pass'[g].pc = "idle"
    BY Write, NoPassType DEF Typed, Shape, Loaded
  <1>2. \A d \in Defs : /\ Live(d)' <=> Live(d)
                        /\ \A t : OnSchedule(d, t)' <=> OnSchedule(d, t)
    BY WriteEffect DEF OnSchedule, Live
  <1>3. \A x \in EmittedBy(g) : x \in tasks'
    <2> TAKE x \in EmittedBy(g)
    <2>1. CASE x \in Probed(g)
      <3>1. pass[g].pc = "probed" /\ ~WriteConflicts(g)
        BY Write
      <3>2. Live(pass[g].first)
        BY <3>1, PassFirst DEF WriteConflicts
      <3> QED BY <1>1, <2>1, <3>1, <3>2 DEF Added, Probed, InStep, FoundStays
    <2>2. CASE x \notin Probed(g)
      BY <1>1, <2>2 DEF Added
    <2> QED BY <2>1, <2>2
  <1>4. RowInStep'
    <2> SUFFICES ASSUME NEW d \in Defs, Live(d)', ~overlap'[d], defs'[d].next_run_at # None
                 PROVE  NothingBefore(d, defs[d])'
      BY DEF RowInStep
    <2>1. CASE d \notin Loaded(g)
      <3>1. defs'[d] = defs[d] /\ NothingBefore(d, defs[d])
        BY <1>1, <1>2, <2>1, WriteEffect DEF InStep, RowInStep
      <3> QED BY <1>1, <1>2, <3>1 DEF NothingBefore
    <2>2. CASE d \in Loaded(g)
      <3> DEFINE row == pass[g].rows[d]
                 time == pass[g].time
                 c == Continued(row, time)
      <3>1. /\ row \in Row /\ time \in Clock /\ row.next_run_at # None /\ row.next_run_at <= time
            /\ row.kind = defs[d].kind /\ row.start = defs[d].start /\ NothingBefore(d, row)
        BY <1>1, <1>2, <2>2, PassFacts DEF Typed, AllDue, PassType, InStep, PassInStep
      <3>2. row.start \in Nat /\ row.next_run_at \in Nat /\ Period \in Nat \ {0}
        BY <3>1, TimeAssumption DEF Row, Clock, Times
      <3>3. row.start <= row.next_run_at /\ (row.next_run_at - row.start) % Period = 0
        <4>1. 0 % Period = 0
          BY <3>2
        <4> QED BY <3>1, <3>2, <4>1 DEF NothingBefore, OnSchedule
      <3>4. defs'[d].next_run_at = c /\ c # None
        BY <2>2, WriteEffect
      <3>5. row.kind = "REPEAT" /\ row.start <= c /\ (c - row.start) % Period = 0
        BY <3>1, <3>3, <3>4, ContinuedOnSchedule
      <3>6. OnSchedule(d, c)
        BY <1>2, <3>1, <3>5 DEF OnSchedule
      <3>7. ASSUME NEW t \in Times, OnSchedule(d, t), t < c PROVE <<d, t>> \in tasks'
        <4>1. CASE t < row.next_run_at
          BY <1>1, <3>1, <3>7, <4>1 DEF NothingBefore
        <4>2. CASE row.next_run_at <= t
          <5>1. t \in Nat /\ (t - row.start) % Period = 0
            BY <3>1, <3>2, <3>5, <3>7, TimeAssumption DEF OnSchedule, Times
          <5>2. t \in Emitted(row, time)
            BY <3>1, <3>3, <3>5, <3>7, <4>2, <5>1, NoGap
          <5>3. <<d, t>> \in EmittedBy(g)
            BY <2>2, <5>2 DEF EmittedBy
          <5> QED BY <1>3, <5>3
        <4> QED BY <3>2, <4>1, <4>2, TimeAssumption DEF Times
      <3> HIDE DEF c
      <3> QED BY <1>2, <3>4, <3>6, <3>7 DEF NothingBefore
    <2> QED BY <2>1, <2>2
  <1>5. PassInStep'
    <2> SUFFICES ASSUME NEW h \in Passes, NEW d \in Loaded(h)', Live(d)', ~overlap'[d]
                 PROVE  /\ pass'[h].rows[d].kind = defs'[d].kind /\ pass'[h].rows[d].start = defs'[d].start
                        /\ NothingBefore(d, pass[h].rows[d])'
      BY DEF PassInStep
    <2>1. h # g /\ pass'[h] = pass[h] /\ d \in Loaded(h) /\ d \in Defs
      BY <1>1, PassFacts DEF Loaded
    <2>2. /\ pass[h].rows[d].kind = defs[d].kind /\ pass[h].rows[d].start = defs[d].start
          /\ NothingBefore(d, pass[h].rows[d])
      BY <1>1, <1>2, <2>1 DEF InStep, PassInStep
    <2>3. NothingBefore(d, pass[h].rows[d])'
      BY <1>1, <1>2, <2>1, <2>2 DEF NothingBefore
    <2> QED BY <2>1, <2>2, <2>3, WriteEffect
  <1>6. FoundStays'
    <2> SUFFICES ASSUME NEW h \in Passes, pass'[h].pc = "probed", pass'[h].found, Live(pass[h].first)'
                 PROVE  <<pass'[h].first, pass'[h].rows[pass'[h].first].next_run_at>> \in tasks'
      BY DEF FoundStays
    <2>1. pass'[h] = pass[h] /\ pass[h].first \in Defs
      BY <1>1, PassFirst
    <2> QED BY <1>1, <1>2, <2>1 DEF InStep, FoundStays
  <1> QED BY <1>4, <1>5, <1>6 DEF InStep

\* A new schedule has nothing before its start.
LEMMA CreateInStep ==
  ASSUME Typed, InStep, NEW d \in Defs, NEW kind \in {"ONCE", "REPEAT"}, NEW start \in Clock, Create(d, kind, start)
  PROVE  InStep'
  <1>1. /\ UNCHANGED <<tasks, pass, overlap>> /\ ~Live(d)
        /\ \A x \in Defs \ {d} : defs'[x] = defs[x]
        /\ defs'[d].start = start /\ defs'[d].next_run_at = start
    BY DEF Create, Live, Typed, TypeOK
  <1>2. \A g \in Passes : Loaded(g)' = Loaded(g) /\ d \notin Loaded(g) /\ Loaded(g) \subseteq Defs
    BY <1>1, PassFacts DEF Loaded, Create, Typed, AllKnown
  <1>3. RowInStep'
    <2> SUFFICES ASSUME NEW x \in Defs, Live(x)', ~overlap'[x], defs'[x].next_run_at # None
                 PROVE  NothingBefore(x, defs[x])'
      BY DEF RowInStep
    <2>1. CASE x = d
      <3>1. start \in Nat /\ start - start = 0 /\ 0 % Period = 0 /\ \A t \in Times : t \in Nat
        BY TimeAssumption DEF Clock, Times
      <3> QED BY <1>1, <2>1, <3>1 DEF NothingBefore, OnSchedule
    <2>2. CASE x # d
      BY <1>1, <2>2 DEF InStep, RowInStep, NothingBefore, OnSchedule, Live
    <2> QED BY <2>1, <2>2
  <1>4. PassInStep'
    BY <1>1, <1>2 DEF InStep, PassInStep, NothingBefore, OnSchedule, Live
  <1>5. FoundStays'
    BY <1>1, <1>2, PassFirst DEF InStep, FoundStays, Live
  <1> QED BY <1>3, <1>4, <1>5 DEF InStep

\* Neither has a fresh one; a pass that knows the old one is marked.
LEMMA UpdateInStep ==
  ASSUME Typed, InStep, NEW e \in Editors, NEW kind \in {"ONCE", "REPEAT"}, NEW start \in Clock, Update(e, kind, start)
  PROVE  InStep'
  <1> DEFINE d == edit[e].d
  <1>1. /\ d \in Defs /\ UNCHANGED <<tasks, pass>>
        /\ \A x \in Defs : ~overlap'[x] => ~overlap[x]
        /\ ~overlap'[d] => \A g \in Passes : d \notin Loaded(g)
    BY UpdateEffect, Unmarked DEF Update, Edited
  <1>2. \A g \in Passes : Loaded(g)' = Loaded(g) /\ Loaded(g) \subseteq Defs
    BY <1>1, PassFacts DEF Loaded
  <1>3. /\ \A x \in Defs : Live(x)' <=> Live(x)
        /\ \A x \in Defs \ {d} : defs'[x] = defs[x]
        /\ Live(d) => defs'[d].start = start /\ defs'[d].next_run_at = start
    BY UpdateEffect DEF Live
  <1>4. RowInStep'
    <2> SUFFICES ASSUME NEW x \in Defs, Live(x)', ~overlap'[x], defs'[x].next_run_at # None
                 PROVE  NothingBefore(x, defs[x])'
      BY DEF RowInStep
    <2>1. CASE x = d
      <3>1. start \in Nat /\ start - start = 0 /\ 0 % Period = 0 /\ \A t \in Times : t \in Nat
        BY TimeAssumption DEF Clock, Times
      <3> QED BY <1>3, <2>1, <3>1 DEF NothingBefore, OnSchedule
    <2>2. CASE x # d
      BY <1>1, <1>3, <2>2 DEF InStep, RowInStep, NothingBefore, OnSchedule, Live
    <2> QED BY <2>1, <2>2
  <1>5. PassInStep'
    <2> SUFFICES ASSUME NEW g \in Passes, NEW x \in Loaded(g), Live(x)', ~overlap'[x]
                 PROVE  /\ pass'[g].rows[x].kind = defs'[x].kind /\ pass'[g].rows[x].start = defs'[x].start
                        /\ NothingBefore(x, pass[g].rows[x])'
      BY <1>2 DEF PassInStep
    <2>1. x \in Defs /\ x # d /\ ~overlap[x] /\ Live(x) /\ defs'[x] = defs[x]
      BY <1>1, <1>2, <1>3
    <2> QED BY <1>1, <2>1 DEF InStep, PassInStep, NothingBefore, OnSchedule, Live
  <1>6. FoundStays'
    BY <1>1, <1>3, PassFirst DEF InStep, FoundStays
  <1> QED BY <1>4, <1>5, <1>6 DEF InStep

\* A disable does not move next_run_at forward.
LEMMA DisableInStep ==
  ASSUME Typed, InStep, NEW e \in Editors, Disable(e)
  PROVE  InStep'
  <1>1. UNCHANGED <<tasks, pass>> /\ \A x \in Defs : ~overlap'[x] => ~overlap[x]
    BY DisableEffect, Unmarked DEF Disable, Edited
  <1>2. \A g \in Passes : Loaded(g)' = Loaded(g) /\ Loaded(g) \subseteq Defs
    BY <1>1, PassFacts DEF Loaded
  <1>3. \A x \in Defs : /\ Live(x)' <=> Live(x)
                        /\ \A t : OnSchedule(x, t)' <=> OnSchedule(x, t)
    BY DisableEffect DEF Live, OnSchedule
  <1>4. RowInStep'
    <2> SUFFICES ASSUME NEW x \in Defs, Live(x)', ~overlap'[x], defs'[x].next_run_at # None
                 PROVE  NothingBefore(x, defs[x])'
      BY DEF RowInStep
    <2>1. defs'[x].next_run_at = defs[x].next_run_at /\ NothingBefore(x, defs[x])
      BY <1>1, <1>3, DisableEffect DEF InStep, RowInStep
    <2> QED BY <1>1, <1>3, <2>1 DEF NothingBefore
  <1>5. PassInStep'
    <2> SUFFICES ASSUME NEW g \in Passes, NEW x \in Loaded(g), Live(x)', ~overlap'[x]
                 PROVE  /\ pass'[g].rows[x].kind = defs'[x].kind /\ pass'[g].rows[x].start = defs'[x].start
                        /\ NothingBefore(x, pass[g].rows[x])'
      BY <1>2 DEF PassInStep
    <2>1. x \in Defs /\ ~overlap[x] /\ Live(x)
      BY <1>1, <1>2, <1>3
    <2>2. /\ pass[g].rows[x].kind = defs[x].kind /\ pass[g].rows[x].start = defs[x].start
          /\ NothingBefore(x, pass[g].rows[x])
      BY <2>1 DEF InStep, PassInStep
    <2>3. NothingBefore(x, pass[g].rows[x])'
      BY <1>1, <1>3, <2>1, <2>2 DEF NothingBefore
    <2> QED BY <1>1, <2>1, <2>2, <2>3, DisableEffect
  <1>6. FoundStays'
    BY <1>1, <1>3, PassFirst DEF InStep, FoundStays
  <1> QED BY <1>4, <1>5, <1>6 DEF InStep

\* A delete takes the tasks of one definition, of which nothing is claimed from then on.
LEMMA DeleteInStep ==
  ASSUME Typed, InStep, NEW e \in Editors, Delete(e)
  PROVE  InStep'
  <1>0. PICK d \in Defs : d = edit[e].d
    BY EditFacts DEF Delete
  <1>1. /\ UNCHANGED pass
        /\ \A x \in Defs : ~overlap'[x] => ~overlap[x]
        /\ \A k \in tasks : k[1] # d => k \in tasks'
        /\ ~Live(d)' /\ \A x \in Defs \ {d} : defs'[x] = defs[x]
    <2>1. UNCHANGED pass /\ \A x \in Defs : ~overlap'[x] => ~overlap[x]
      BY EditFacts, Unmarked DEF Delete, Edited
    <2>2. /\ tasks' = {k \in tasks : k[1] # d}
          /\ defs' = [defs EXCEPT ![d] = [NoRow EXCEPT !.state = "deleted"]]
      BY <1>0 DEF Delete
    <2>3. defs'[d].state = "deleted" /\ \A x \in Defs \ {d} : defs'[x] = defs[x]
      BY <1>0, <2>2 DEF Typed, TypeOK, NoRow
    <2> QED BY <2>1, <2>2, <2>3 DEF Live
  <1>2. \A g \in Passes : Loaded(g)' = Loaded(g) /\ Loaded(g) \subseteq Defs
    BY <1>1, PassFacts DEF Loaded
  <1>3. \A x \in Defs : Live(x)' => x # d /\ Live(x)
    BY <1>1 DEF Live
  <1>a. ASSUME NEW x \in Defs, Live(x)', NEW n,
               OnSchedule(x, n), \A t \in Times : OnSchedule(x, t) /\ t < n => <<x, t>> \in tasks
        PROVE  OnSchedule(x, n)' /\ \A t \in Times : OnSchedule(x, t)' /\ t < n => <<x, t>> \in tasks'
    <2>1. x # d /\ defs'[x] = defs[x]
      BY <1>1, <1>a
    <2>2. \A t : OnSchedule(x, t)' <=> OnSchedule(x, t)
      BY <2>1 DEF OnSchedule, Live
    <2>3. \A t : <<x, t>> \in tasks => <<x, t>> \in tasks'
      BY <1>1, <2>1
    <2> QED BY <1>a, <2>2, <2>3
  <1>4. RowInStep'
    <2> SUFFICES ASSUME NEW x \in Defs, Live(x)', ~overlap'[x], defs'[x].next_run_at # None
                 PROVE  NothingBefore(x, defs[x])'
      BY DEF RowInStep
    <2>1. defs'[x] = defs[x] /\ NothingBefore(x, defs[x])
      BY <1>1, <1>3 DEF InStep, RowInStep
    <2> QED BY <1>a, <2>1 DEF NothingBefore
  <1>5. PassInStep'
    <2> SUFFICES ASSUME NEW g \in Passes, NEW x \in Loaded(g), Live(x)', ~overlap'[x]
                 PROVE  /\ pass'[g].rows[x].kind = defs'[x].kind /\ pass'[g].rows[x].start = defs'[x].start
                        /\ NothingBefore(x, pass[g].rows[x])'
      BY <1>2 DEF PassInStep
    <2>1. x \in Defs /\ ~overlap[x] /\ Live(x) /\ defs'[x] = defs[x]
      BY <1>1, <1>2, <1>3
    <2>2. /\ pass[g].rows[x].kind = defs[x].kind /\ pass[g].rows[x].start = defs[x].start
          /\ NothingBefore(x, pass[g].rows[x])
      BY <2>1 DEF InStep, PassInStep
    <2>3. NothingBefore(x, pass[g].rows[x])'
      BY <1>1, <1>a, <2>1, <2>2 DEF NothingBefore
    <2> QED BY <1>1, <2>1, <2>2, <2>3
  <1>6. FoundStays'
    BY <1>1, <1>3, PassFirst DEF InStep, FoundStays
  <1> QED BY <1>4, <1>5, <1>6 DEF InStep

\* Nothing is left out, over every step.
LEMMA NextInStep == Typed /\ InStep /\ [Next]_vars => InStep'
  <1> SUFFICES ASSUME Typed, InStep, [Next]_vars PROVE InStep'
    OBVIOUS
  <1>1. ASSUME NEW g \in Passes, Generate(g) PROVE InStep'
    <2>1. CASE RollBack(g)
      <3>1. UNCHANGED <<defs, tasks, overlap>> /\ \A h \in Passes : pass'[h] = pass[h] \/ pass'[h] = NoPass
        BY <2>1 DEF RollBack, Typed, Shape
      <3> QED BY <3>1, PassesEndInStep
    <2> QED BY <1>1, <2>1, LoadInStep, ProbeInStep, WriteInStep DEF Generate
  <1>2. ASSUME NEW d \in Defs, NEW kind \in {"ONCE", "REPEAT"}, NEW start \in Clock, Create(d, kind, start)
        PROVE  InStep'
    BY <1>2, CreateInStep
  <1>3. ASSUME NEW e \in Editors, NEW op \in {"update", "disable", "delete"}, NEW d \in Defs, LoadRow(e, op, d)
        PROVE  InStep'
    BY <1>3, PassesEndInStep DEF LoadRow
  <1>4. ASSUME NEW e \in Editors, NEW kind \in {"ONCE", "REPEAT"}, NEW start \in Clock, Update(e, kind, start)
        PROVE  InStep'
    BY <1>4, UpdateInStep
  <1>5. ASSUME NEW e \in Editors, Disable(e) \/ Delete(e) PROVE InStep'
    BY <1>5, DisableInStep, DeleteInStep
  <1>6. CASE Tick
    BY <1>6, PassesEndInStep DEF Tick
  <1>7. CASE Crash
    BY <1>7, PassesEndInStep DEF Crash
  <1>8. CASE UNCHANGED vars
    BY <1>8, PassesEndInStep DEF vars
  <1> QED BY <1>1, <1>2, <1>3, <1>4, <1>5, <1>6, <1>7, <1>8 DEF Next
-----------------------------------------------------------------------------
\* The inductive invariant holds before the first definition ...
LEMMA InitIInv == Init => IInv
  <1> SUFFICES ASSUME Init PROVE IInv
    OBVIOUS
  <1>1. Typed
    BY InitTyped
  <1>2. /\ tasks = {} /\ \A k \in Defs \X Times : events[k] = 0
        /\ \A d \in Defs : ~Live(d)
        /\ \A g \in Passes : Loaded(g) = {} /\ pass[g].pc = "idle"
    BY NoPassType DEF Init, Live, NoRow, Loaded
  <1> QED BY <1>1, <1>2
       DEF IInv, ExactlyOnce, NoneLost, InStep, RowInStep, PassInStep, FoundStays

\* ... and ever after.
LEMMA Invariance == Spec => []IInv
  <1>1. IInv /\ [Next]_vars => IInv'
    BY NextTyped, NextOnce, NextInStep DEF IInv
  <1> QED BY InitIInv, <1>1, PTL DEF Spec

\* The types hold for any number of definitions, passes and requests.
THEOREM ScheduleTypeOK == Spec => []TypeOK
  <1>1. IInv => TypeOK
    BY DEF IInv, Typed
  <1> QED BY Invariance, <1>1, PTL

\* Every due occurrence is generated exactly once, whatever passes overlap with each
\* other and with edits and restarts (materialize_task_occurrence).
THEOREM ScheduleExactlyOnce == Spec => []ExactlyOnce
  <1>1. IInv => ExactlyOnce
    BY DEF IInv
  <1> QED BY Invariance, <1>1, PTL

\* No pass moves next_run_at over an occurrence that was not generated, unless an edit
\* was committed under it (generate_due_task_instances).
THEOREM ScheduleNothingSkipped == Spec => []NothingSkipped
  <1>1. IInv => NothingSkipped
    BY DEF IInv, InStep, RowInStep, NothingBefore, NothingSkipped, OnSchedule
  <1> QED BY Invariance, <1>1, PTL

\* Only an update enables a disabled definition: neither a pass nor a request that holds
\* an older row writes it back (disable_task_definition).
THEOREM ScheduleDisabledStaysDisabled == Spec => DisabledStaysDisabled
  <1> DEFINE Stays == \A d \in Defs : Live(d) /\ ~defs[d].enabled /\ defs'[d].enabled =>
                        \E e \in Editors : edit[e].op = "update" /\ edit[e].d = d /\ edit'[e] = NoEdit
  <1>1. ASSUME Typed, [Next]_vars PROVE Stays
    <2> SUFFICES ASSUME NEW d \in Defs, Live(d), ~defs[d].enabled, defs'[d].enabled
                 PROVE  \E e \in Editors : edit[e].op = "update" /\ edit[e].d = d /\ edit'[e] = NoEdit
      OBVIOUS
    <2>1. ASSUME NEW g \in Passes, Generate(g) PROVE FALSE
      <3>1. CASE WriteOccurrences(g)
        BY <1>1, <3>1, WriteEffect
      <3>2. CASE LoadDefinitions(g) \/ ProbeOccurrence(g) \/ RollBack(g)
        BY <3>2 DEF LoadDefinitions, ProbeOccurrence, RollBack
      <3> QED BY <2>1, <3>1, <3>2 DEF Generate
    <2>2. ASSUME NEW x \in Defs, NEW kind \in {"ONCE", "REPEAT"}, NEW start \in Clock, Create(x, kind, start)
          PROVE  FALSE
      BY <1>1, <2>2 DEF Create, Live, Typed, TypeOK
    <2>3. ASSUME NEW e \in Editors, NEW op \in {"update", "disable", "delete"}, NEW x \in Defs, LoadRow(e, op, x)
          PROVE  FALSE
      BY <2>3 DEF LoadRow
    <2>4. ASSUME NEW e \in Editors, NEW kind \in {"ONCE", "REPEAT"}, NEW start \in Clock, Update(e, kind, start)
          PROVE  edit[e].op = "update" /\ edit[e].d = d /\ edit'[e] = NoEdit
      <3>1. edit[e].d = d
        BY <1>1, <2>4, UpdateEffect
      <3> QED BY <1>1, <2>4, <3>1 DEF Update, Edited, Typed, Shape
    <2>5. ASSUME NEW e \in Editors, Disable(e) \/ Delete(e) PROVE FALSE
      <3>1. CASE Disable(e)
        BY <1>1, <3>1, DisableEffect
      <3>2. CASE Delete(e)
        BY <1>1, <3>2 DEF Delete, NoRow, Typed, TypeOK
      <3> QED BY <2>5, <3>1, <3>2
    <2>6. CASE Tick \/ Crash
      BY <2>6 DEF Tick, Crash
    <2>7. CASE UNCHANGED vars
      BY <2>7 DEF vars
    <2> QED BY <1>1, <2>1, <2>2, <2>3, <2>4, <2>5, <2>6, <2>7 DEF Next
  <1>2. IInv => Typed
    BY DEF IInv
  <1>3. Typed /\ [Next]_vars => [Stays]_vars
    BY <1>1
  <1> QED BY Invariance, <1>2, <1>3, PTL DEF Spec, DisabledStaysDisabled
-----------------------------------------------------------------------------
(***************************************************************************)
(* Recurrence.                                                             *)
(*                                                                         *)
(* All rests on one fact about the clocks (LocalizeMeans): the first valid *)
(* wall time is the time itself or the end of the gap.  So a candidate     *)
(* stays on its day unless the gap reaches midnight (Landing), its day is  *)
(* the one that was meant, and what is left is the arithmetic of weekdays  *)
(* and months: a search of eight days, or of this month and the next, ends *)
(* with the nearest day of the schedule (NextCandidate, FirstCandidate).   *)
(*                                                                         *)
(* The occurrences so far are then a chain (IsChain) with one member on    *)
(* each day of the schedule between its ends, and the next occurrence      *)
(* makes it a longer one.  There is no induction over the days: each set   *)
(* that is searched has a least member (MinExists).                        *)
(***************************************************************************)

(* Sets of numbers *)

\* The minimum of a set is what is smallest in it.
LEMMA MinIs ==
  ASSUME NEW T \in SUBSET Int, NEW m \in T, \A n \in T : m <= n
  PROVE  Min(T) = m
  <1>1. \A n \in T : (\A k \in T : n <= k) => n = m
    OBVIOUS
  <1> QED
    BY <1>1 DEF Min

\* A nonempty set of natural numbers has one.
LEMMA MinExists ==
  ASSUME NEW T \in SUBSET Nat, T # {}
  PROVE  Min(T) \in T /\ \A n \in T : Min(T) <= n
  <1>1. PICK m \in T : \A n \in T : m <= n
    BY Least
  <1> QED
    BY <1>1, MinIs
-----------------------------------------------------------------------------
(* Days *)

\* A day has slots.
LEMMA Slots == SlotsPerDay \in Nat \ {0} /\ SlotsPerDay \in Nat /\ SlotsPerDay > 0
  BY CalendarAssumption

\* More days are at least a day more.
LEMMA DaysApart == \A d, e \in Int : d < e => d * SlotsPerDay + SlotsPerDay <= e * SlotsPerDay
  <1> SUFFICES ASSUME NEW d \in Int, NEW e \in Int, d < e
               PROVE  d * SlotsPerDay + SlotsPerDay <= e * SlotsPerDay
    OBVIOUS
  <1>1. PICK n \in Nat : e = d + 1 + n
    <2>1. e - d - 1 \in Nat /\ e = d + 1 + (e - d - 1)
      OBVIOUS
    <2> QED
      BY <2>1
  <1>2. e * SlotsPerDay = d * SlotsPerDay + SlotsPerDay + n * SlotsPerDay
    BY <1>1, Slots
  <1>3. n * SlotsPerDay \in Nat
    BY Slots
  <1>4. d * SlotsPerDay \in Int
    BY Slots
  <1> QED
    BY <1>2, <1>3, <1>4, Slots

\* A time is a day and a time of day, ...
LEMMA DayParts ==
  ASSUME NEW w \in Int
  PROVE  /\ Day(w) \in Int /\ TimeOfDay(w) \in 0 .. SlotsPerDay - 1
         /\ TimeOfDay(w) \in Int /\ 0 <= TimeOfDay(w) /\ TimeOfDay(w) < SlotsPerDay
         /\ Day(w) * SlotsPerDay \in Int
         /\ w = Day(w) * SlotsPerDay + TimeOfDay(w)
  BY Slots, Z3 DEF Day, TimeOfDay

\* ... in one way only.
LEMMA DayUnique ==
  ASSUME NEW d \in Int, NEW t \in 0 .. SlotsPerDay - 1
  PROVE  /\ d * SlotsPerDay + t \in Int
         /\ Day(d * SlotsPerDay + t) = d /\ TimeOfDay(d * SlotsPerDay + t) = t
  <1> DEFINE w == d * SlotsPerDay + t
  <1>1. d * SlotsPerDay \in Int /\ t \in Int /\ 0 <= t /\ t < SlotsPerDay /\ w \in Int
    BY Slots
  <1>2. /\ Day(w) \in Int /\ Day(w) * SlotsPerDay \in Int
        /\ TimeOfDay(w) \in Int /\ 0 <= TimeOfDay(w) /\ TimeOfDay(w) < SlotsPerDay
        /\ w = Day(w) * SlotsPerDay + TimeOfDay(w)
    BY <1>1, DayParts
  <1>3. ~(Day(w) < d)
    BY <1>1, <1>2, DaysApart, Slots
  <1>4. ~(d < Day(w))
    BY <1>1, <1>2, DaysApart, Slots
  <1>5. Day(w) = d
    BY <1>2, <1>3, <1>4
  <1> QED
    BY <1>1, <1>2, <1>5

\* Earlier times are not on later days.
LEMMA DayMonotone == ASSUME NEW v \in Int, NEW w \in Int, Day(v) < Day(w) PROVE v < w
  <1>1. /\ Day(v) \in Int /\ Day(v) * SlotsPerDay \in Int /\ v = Day(v) * SlotsPerDay + TimeOfDay(v)
        /\ TimeOfDay(v) \in Int /\ TimeOfDay(v) < SlotsPerDay
    BY DayParts
  <1>2. /\ Day(w) \in Int /\ Day(w) * SlotsPerDay \in Int /\ w = Day(w) * SlotsPerDay + TimeOfDay(w)
        /\ TimeOfDay(w) \in Int /\ 0 <= TimeOfDay(w)
    BY DayParts
  <1> QED
    BY <1>1, <1>2, DaysApart, Slots

\* Some days later.
LEMMA DaysLater ==
  ASSUME NEW x \in Int, NEW k \in Int
  PROVE  x + k * SlotsPerDay = (Day(x) + k) * SlotsPerDay + TimeOfDay(x)
  <1>1. /\ Day(x) \in Int /\ TimeOfDay(x) \in Int
        /\ x = Day(x) * SlotsPerDay + TimeOfDay(x)
    BY DayParts
  <1>2. (Day(x) + k) * SlotsPerDay = Day(x) * SlotsPerDay + k * SlotsPerDay
    BY <1>1, Slots
  <1>3. Day(x) * SlotsPerDay \in Int /\ k * SlotsPerDay \in Int
    BY <1>1, Slots
  <1> QED
    BY <1>1, <1>2, <1>3
-----------------------------------------------------------------------------
(* Clocks *)

\* The clocks of z skip w.
Skips(z, w) == z.spring <= w /\ w < z.spring + z.shift

\* The numbers of a zone.
LEMMA ZoneFacts ==
  ASSUME NEW z \in Zones
  PROVE  /\ z.spring \in Int /\ z.fall \in Int /\ z.shift \in Int
         /\ 0 <= z.spring /\ 0 <= z.shift /\ z.shift <= MaxGap /\ z.shift < SlotsPerDay
         /\ z.spring + z.shift < z.fall /\ MaxGap \in Nat
  BY ZoneAssumption, CalendarAssumption

\* Clocks show no time that they skip, and an instant no later than the one they show it at.
LEMMA LocalShown ==
  ASSUME NEW z \in Zones, NEW t \in Int
  PROVE  /\ Local(z, t) \in Int /\ ~Skips(z, Local(z, t))
         /\ t <= Local(z, t) /\ Local(z, t) <= t + z.shift
         /\ Instant(z, Local(z, t)) <= t
         /\ Instant(z, Local(z, t)) # t => Repeated(z, t)
  <1>1. /\ Local(z, t) \in Int /\ ~Skips(z, Local(z, t))
        /\ t <= Local(z, t) /\ Local(z, t) <= t + z.shift
    BY ZoneFacts DEF Local, Skips
  <1>2. Instant(z, Local(z, t)) <= t
    BY ZoneFacts DEF Local, Instant
  <1>3. ASSUME Instant(z, Local(z, t)) # t PROVE Repeated(z, t)
    <2>1. z.fall <= t /\ t < z.fall + z.shift /\ Local(z, t) = t
      BY <1>3, ZoneFacts DEF Local, Instant
    <2>2. Local(z, t - z.shift) = t /\ t - z.shift \in t - z.shift .. t - 1
      BY <2>1, ZoneFacts DEF Local
    <2> QED
      BY <2>1, <2>2 DEF Repeated
  <1> QED
    BY <1>1, <1>2, <1>3

\* A time that is not skipped is shown at its instant; the others are not valid.
LEMMA InstantShows ==
  ASSUME NEW z \in Zones, NEW w \in Int
  PROVE  /\ Instant(z, w) \in Int /\ w - z.shift <= Instant(z, w) /\ Instant(z, w) <= w
         /\ Valid(z, w) <=> ~Skips(z, w)
         /\ ~Skips(z, w) => Local(z, Instant(z, w)) = w
  <1>1. Instant(z, w) \in Int /\ w - z.shift <= Instant(z, w) /\ Instant(z, w) <= w
    BY ZoneFacts DEF Instant
  <1>2. ~Skips(z, w) => Local(z, Instant(z, w)) = w
    BY ZoneFacts DEF Instant, Local, Skips
  <1>3. Skips(z, w) => Local(z, Instant(z, w)) # w
    BY ZoneFacts DEF Instant, Local, Skips
  <1> QED
    BY <1>1, <1>2, <1>3 DEF Valid

\* Instants have the order of the times they show.
LEMMA InstantMonotone ==
  ASSUME NEW z \in Zones, NEW v \in Int, NEW w \in Int, v < w, ~Skips(z, v), ~Skips(z, w)
  PROVE  Instant(z, v) < Instant(z, w)
  BY ZoneFacts DEF Instant, Skips

\* _localize_schedule_time goes to the end of the gap.
LEMMA LocalizeMeans ==
  ASSUME NEW z \in Zones, NEW w \in Int
  PROVE  LocalizeScheduleTime(z, w) = IF Skips(z, w) THEN z.spring + z.shift ELSE w
  <1> DEFINE T == {m \in 0 .. MaxGap : Valid(z, w + m)}
             n == IF Skips(z, w) THEN z.spring + z.shift - w ELSE 0
  <1>1. n \in 0 .. MaxGap /\ ~Skips(z, w + n)
    BY ZoneFacts DEF Skips
  <1>2. \A m \in 0 .. MaxGap : ~Skips(z, w + m) => n <= m
    BY ZoneFacts DEF Skips
  <1>3. \A m \in 0 .. MaxGap : w + m \in Int /\ (Valid(z, w + m) <=> ~Skips(z, w + m))
    BY InstantShows, ZoneFacts
  <1>4. n \in T /\ T \in SUBSET Int /\ \A m \in T : n <= m
    BY <1>1, <1>2, <1>3
  <1> HIDE DEF T, n
  <1>5. Min(T) = n
    BY <1>4, MinIs
  <1>6. LocalizeScheduleTime(z, w) = w + n
    BY <1>5 DEF LocalizeScheduleTime, T
  <1> QED
    BY <1>6, ZoneFacts DEF n

\* The result is a time that is shown; the order of times stays.
LEMMA LocalizeShown ==
  ASSUME NEW z \in Zones, NEW w \in Int
  PROVE  /\ LocalizeScheduleTime(z, w) \in Int /\ ~Skips(z, LocalizeScheduleTime(z, w))
         /\ w <= LocalizeScheduleTime(z, w)
         /\ \A v \in Int : v <= w => LocalizeScheduleTime(z, v) <= LocalizeScheduleTime(z, w)
  BY LocalizeMeans, ZoneFacts DEF Skips

\* The specification of a skipped time agrees with it.
LEMMA ShowingMeans ==
  ASSUME NEW z \in Zones, NEW w \in Int
  PROVE  Showing(z, w) = Instant(z, LocalizeScheduleTime(z, w))
  <1> DEFINE T == {t \in w - z.shift .. w : Local(z, t) >= w}
             i == Instant(z, LocalizeScheduleTime(z, w))
  <1>1. i \in Int /\ w - z.shift <= i /\ i <= w
    BY LocalizeMeans, ZoneFacts DEF Instant, Skips
  <1>2. Local(z, i) >= w
    BY LocalizeMeans, ZoneFacts DEF Instant, Skips, Local
  <1>3. \A t \in w - z.shift .. w : Local(z, t) >= w => i <= t
    BY LocalizeMeans, ZoneFacts DEF Instant, Skips, Local
  <1>4. T \in SUBSET Int /\ i \in T /\ \A t \in T : i <= t
    BY <1>1, <1>2, <1>3, ZoneFacts
  <1> HIDE DEF T, i
  <1>5. Min(T) = i
    BY <1>4, MinIs
  <1> QED
    BY <1>5 DEF Showing, T, i
-----------------------------------------------------------------------------
(* Schedules *)

\* The clocks skip the time of day W some day, and go on with the next day.
Misses(z, W) == \E w \in z.spring .. z.spring + z.shift - 1 : TimeOfDay(w) = W
Crosses(z, W) ==
  \E w \in z.spring .. z.spring + z.shift - 1 : TimeOfDay(w) = W /\ Day(w) # Day(z.spring + z.shift)

\* The time of day t is W or, if the clocks skip that, the end of the gap.
OnTime(z, W, t) == t = W \/ (Misses(z, W) /\ t = TimeOfDay(z.spring + z.shift))

\* The columns of a schedule.
LEMMA ScheduleFacts ==
  ASSUME NEW s \in Schedules
  PROVE  /\ s.type \in {"ONCE", "DAILY", "MONTHLY"}
         /\ s.type = "DAILY" => s.weekdays \in SUBSET Week
         /\ s.type = "MONTHLY" => s.month_day \in 0 .. ShortestMonth
  BY DEF Schedules

\* A candidate stays on its day, unless the clocks skip its time up to midnight.
LEMMA Landing ==
  ASSUME NEW z \in Zones, NEW W, ~Crosses(z, W), NEW d \in Int,
         NEW t \in 0 .. SlotsPerDay - 1, OnTime(z, W, t)
  PROVE  LET c == LocalizeScheduleTime(z, d * SlotsPerDay + t)
         IN /\ c \in Int /\ ~Skips(z, c) /\ Day(c) = d
            /\ TimeOfDay(c) \in 0 .. SlotsPerDay - 1 /\ OnTime(z, W, TimeOfDay(c))
  <1> DEFINE w == d * SlotsPerDay + t
             c == LocalizeScheduleTime(z, w)
             e == z.spring + z.shift
  <1>1. w \in Int /\ Day(w) = d /\ TimeOfDay(w) = t
    BY DayUnique
  <1> HIDE DEF w
  <1>2. c \in Int /\ ~Skips(z, c) /\ TimeOfDay(c) \in 0 .. SlotsPerDay - 1
    BY <1>1, LocalizeShown, DayParts
  <1>3. CASE ~Skips(z, w)
    <2>1. c = w
      BY <1>1, <1>3, LocalizeMeans
    <2> QED
      BY <1>1, <1>2, <2>1 DEF w
  <1>4. CASE Skips(z, w)
    <2>1. c = e /\ e \in Int
      BY <1>1, <1>4, LocalizeMeans, ZoneFacts
    <2>2. w \in z.spring .. z.spring + z.shift - 1
      BY <1>1, <1>4, ZoneFacts DEF Skips
    <2>3. t # TimeOfDay(e)
      <3> SUFFICES ASSUME t = TimeOfDay(e) PROVE FALSE
        OBVIOUS
      <3>1. /\ Day(e) \in Int /\ Day(e) * SlotsPerDay \in Int /\ e = Day(e) * SlotsPerDay + t
        BY <2>1, DayParts
      <3>2. d * SlotsPerDay \in Int /\ w = d * SlotsPerDay + t /\ t \in Int
        BY <1>1, DayParts DEF w
      <3>3. w < e /\ e < w + SlotsPerDay
        BY <1>1, <1>4, <2>1, ZoneFacts, Slots DEF Skips
      <3>4. ~(Day(e) < d) /\ ~(d < Day(e))
        BY <3>1, <3>2, <3>3, DaysApart, Slots
      <3>5. Day(e) = d
        <4>1. Day(e) \in Int
          BY <3>1
        <4> HIDE DEF e
        <4> QED
          BY <3>4, <4>1
      <3> QED
        BY <3>1, <3>2, <3>3, <3>5
    <2>4. t = W /\ Misses(z, W)
      BY <1>1, <2>2, <2>3 DEF OnTime, Misses
    <2>5. Day(e) = d
      BY <1>1, <2>2, <2>4 DEF Crosses
    <2> QED
      BY <1>2, <2>1, <2>4, <2>5 DEF OnTime, w
  <1> QED
    BY <1>3, <1>4

\* Within a week every weekday comes.
LEMMA WeekdayComes ==
  ASSUME NEW n \in Int, NEW a \in Week, NEW lo \in {0, 1}
  PROVE  \E k \in lo .. lo + 7 : (n + k) % 7 = a
  <1> DEFINE r == (n + lo) % 7
             k == IF a >= r THEN lo + a - r ELSE lo + a + 7 - r
  <1>1. k \in lo .. lo + 7
    BY DEF Week
  <1>2. (n + k) % 7 = a
    BY DEF Week
  <1> QED
    BY <1>1, <1>2

\* The search through the days ends with the first allowed one.
LEMMA DailySearch ==
  ASSUME NEW z \in Zones, NEW W, ~Crosses(z, W), NEW s \in Schedules, s.type = "DAILY",
         NEW x \in Int, OnTime(z, W, TimeOfDay(x)), NEW lo \in {0, 1}
  PROVE  LET c == DailyCandidate(z, s, x, lo .. lo + 7)
         IN /\ ~Raises(z, s, x, lo .. lo + 7)
            /\ Day(c) \in Int /\ Day(x) + lo <= Day(c) /\ Day(c) <= Day(x) + lo + 7
            /\ c = LocalizeScheduleTime(z, Day(c) * SlotsPerDay + TimeOfDay(x))
            /\ OnDay(s, Day(c)) /\ \A d \in Day(x) + lo .. Day(c) - 1 : ~OnDay(s, d)
  <1> DEFINE D == lo .. lo + 7
             M == Matches(z, s, x, D)
             k == Min(M)
             cand(j) == LocalizeScheduleTime(z, x + j * SlotsPerDay)
  <1>1. Day(x) \in Int /\ TimeOfDay(x) \in 0 .. SlotsPerDay - 1
    BY DayParts
  <1>2. ASSUME NEW j \in D
        PROVE  /\ Day(cand(j)) = Day(x) + j
               /\ cand(j) = LocalizeScheduleTime(z, (Day(x) + j) * SlotsPerDay + TimeOfDay(x))
               /\ Allowed(s, cand(j)) <=> OnDay(s, Day(x) + j)
    <2>1. j \in Int /\ x + j * SlotsPerDay = (Day(x) + j) * SlotsPerDay + TimeOfDay(x)
      BY DaysLater
    <2>2. Day(x) + j \in Int
      BY <1>1, <2>1
    <2>3. Day(cand(j)) = Day(x) + j
      BY <1>1, <2>1, <2>2, Landing
    <2> QED
      BY <2>1, <2>3 DEF Allowed, Weekday, OnDay
  <1>3. M = {j \in D : OnDay(s, Day(x) + j)}
    BY <1>2 DEF Matches
  <1>4. M # {}
    <2>1. CASE s.weekdays = {}
      BY <1>3, <2>1 DEF OnDay
    <2>2. CASE s.weekdays # {}
      <3>1. PICK a \in s.weekdays : a \in Week
        BY <2>2, ScheduleFacts
      <3>2. \E j \in D : (Day(x) + j) % 7 = a
        BY <1>1, <3>1, WeekdayComes
      <3> QED
        BY <1>3, <3>1, <3>2 DEF OnDay
    <2> QED
      BY <2>1, <2>2
  <1>5. M \in SUBSET Nat
    BY <1>3
  <1>6. k \in M /\ \A j \in M : k <= j
    BY <1>4, <1>5, MinExists
  <1>7. k \in D /\ k \in Int /\ lo <= k /\ k <= lo + 7
    BY <1>3, <1>6
  <1>8. DailyCandidate(z, s, x, D) = cand(k)
    BY DEF DailyCandidate
  <1>9. Day(cand(k)) = Day(x) + k /\ cand(k) = LocalizeScheduleTime(z, (Day(x) + k) * SlotsPerDay + TimeOfDay(x))
    BY <1>2, <1>7
  <1>10. OnDay(s, Day(x) + k)
    BY <1>3, <1>6
  <1> HIDE DEF k, cand, M
  <1>11. ASSUME NEW d \in Day(x) + lo .. Day(x) + k - 1 PROVE ~OnDay(s, d)
    <2>1. d - Day(x) \in D /\ d - Day(x) < k /\ Day(x) + (d - Day(x)) = d
      BY <1>1, <1>7
    <2>2. d - Day(x) \notin M
      BY <1>6, <1>7, <2>1
    <2> QED
      BY <1>3, <2>1, <2>2
  <1>12. ~Raises(z, s, x, D)
    BY <1>4 DEF Raises, M
  <1> QED
    BY <1>1, <1>7, <1>8, <1>9, <1>10, <1>11, <1>12
-----------------------------------------------------------------------------
(* Months *)

\* The months are numbered, and their starts are in order.
LEMMA MonthNumbers ==
  /\ Len(MonthStarts) \in Nat /\ 1 < Len(MonthStarts) /\ DOMAIN MonthStarts = 1 .. Len(MonthStarts)
  /\ \A i \in 1 .. Len(MonthStarts) : MonthStarts[i] \in Nat
  /\ MonthStarts[1] = 0
  /\ \A i, j \in 1 .. Len(MonthStarts) : i < j => MonthStarts[i] + 7 <= MonthStarts[j]
  BY CalendarAssumption

\* Each month has a start and an end.
LEMMA MonthBounds ==
  ASSUME NEW m \in Months
  PROVE  /\ m \in Int /\ m \in 1 .. Len(MonthStarts) /\ m + 1 \in 1 .. Len(MonthStarts)
         /\ MonthStarts[m] \in Nat /\ MonthStarts[m + 1] \in Nat
         /\ MonthLength(m) \in Nat /\ MonthStarts[m] + 7 <= MonthStarts[m + 1]
         /\ MonthStarts[m + 1] = MonthStarts[m] + MonthLength(m)
  <1>1. m \in Int /\ m \in 1 .. Len(MonthStarts) /\ m + 1 \in 1 .. Len(MonthStarts) /\ m < m + 1
    BY MonthNumbers DEF Months
  <1>2. MonthStarts[m] \in Nat /\ MonthStarts[m + 1] \in Nat /\ MonthStarts[m] + 7 <= MonthStarts[m + 1]
    BY <1>1, MonthNumbers
  <1> QED
    BY <1>1, <1>2 DEF MonthLength

\* A day belongs to the month between whose bounds it lies.
LEMMA MonthIs ==
  ASSUME NEW m \in Months, NEW d \in Int, MonthStarts[m] <= d, d < MonthStarts[m + 1]
  PROVE  MonthOf(d) = m
  <1>1. ASSUME NEW n \in Months, MonthStarts[n] <= d, d < MonthStarts[n + 1] PROVE n = m
    <2>1. ~(n + 1 <= m)
      <3> SUFFICES ASSUME n + 1 <= m PROVE FALSE
        OBVIOUS
      <3>1. MonthStarts[n + 1] <= MonthStarts[m]
        <4>1. CASE n + 1 = m
          BY <4>1, MonthBounds
        <4>2. CASE n + 1 < m
          <5>1. n + 1 \in 1 .. Len(MonthStarts) /\ m \in 1 .. Len(MonthStarts)
            BY MonthBounds
          <5> QED
            BY <4>2, <5>1, MonthNumbers
        <4> QED
          BY <4>1, <4>2, MonthBounds
      <3> QED
        BY <1>1, <3>1, MonthBounds
    <2>2. ~(m + 1 <= n)
      <3> SUFFICES ASSUME m + 1 <= n PROVE FALSE
        OBVIOUS
      <3>1. MonthStarts[m + 1] <= MonthStarts[n]
        <4>1. CASE m + 1 = n
          BY <4>1, MonthBounds
        <4>2. CASE m + 1 < n
          <5>1. m + 1 \in 1 .. Len(MonthStarts) /\ n \in 1 .. Len(MonthStarts)
            BY MonthBounds
          <5> QED
            BY <4>2, <5>1, MonthNumbers
        <4> QED
          BY <4>1, <4>2, MonthBounds
      <3> QED
        BY <1>1, <3>1, MonthBounds
    <2> QED
      BY <2>1, <2>2, MonthBounds
  <1> QED
    BY <1>1 DEF MonthOf

\* Each day of the calendar has one.
LEMMA MonthExists ==
  ASSUME NEW d \in Nat, NEW n \in 1 .. Len(MonthStarts), d < MonthStarts[n]
  PROVE  /\ MonthOf(d) \in Months /\ MonthOf(d) < n
         /\ MonthStarts[MonthOf(d)] <= d /\ d < MonthStarts[MonthOf(d) + 1]
  <1> DEFINE T == {i \in 1 .. Len(MonthStarts) : d < MonthStarts[i]}
             i == Min(T)
             m == i - 1
  <1>1. T \in SUBSET Nat /\ n \in T
    BY MonthNumbers
  <1>2. i \in T /\ i <= n /\ \A j \in T : i <= j
    BY <1>1, MinExists
  <1> HIDE DEF i
  <1>3. i # 1
    BY <1>2, MonthNumbers
  <1>4. m \in Months /\ m < n /\ m + 1 = i /\ m \in 1 .. Len(MonthStarts) /\ m < i
    BY <1>2, <1>3, MonthNumbers DEF Months
  <1>5. m \notin T
    BY <1>2, <1>4
  <1>6. MonthStarts[m] <= d /\ d < MonthStarts[m + 1]
    BY <1>2, <1>4, <1>5, MonthNumbers
  <1>7. MonthOf(d) = m
    BY <1>4, <1>6, MonthIs
  <1> QED
    BY <1>4, <1>6, <1>7

\* No month is shorter than the shortest.
LEMMA ShortestIs == ShortestMonth \in Nat /\ \A m \in Months : ShortestMonth <= MonthLength(m)
  <1> DEFINE T == {MonthLength(m) : m \in Months}
  <1>1. T \in SUBSET Nat
    BY MonthBounds
  <1>2. 1 \in Months
    BY MonthNumbers DEF Months
  <1>3. T # {}
    BY <1>2
  <1>4. Min(T) \in T /\ \A n \in T : Min(T) <= n
    BY <1>1, <1>3, MinExists
  <1>5. ShortestMonth = Min(T)
    BY DEF ShortestMonth
  <1> QED
    BY <1>1, <1>4, <1>5

\* The one day of each month on which a monthly schedule has its occurrence.
LEMMA MonthlyDay ==
  ASSUME NEW s \in Schedules, s.type = "MONTHLY", NEW m \in Months
  PROVE  LET d == DayInMonth(m, s.month_day)
         IN /\ d \in Nat /\ MonthStarts[m] <= d /\ d < MonthStarts[m + 1]
            /\ s.month_day # 0 => d = MonthStarts[m] + s.month_day - 1
            /\ s.month_day = 0 => d = MonthStarts[m + 1] - 1
            /\ MonthOf(d) = m /\ OnDay(s, d)
  <1> DEFINE d == DayInMonth(m, s.month_day)
  <1>1. s.month_day \in Nat /\ s.month_day <= MonthLength(m)
    BY ScheduleFacts, ShortestIs, MonthBounds
  <1>2. /\ d \in Int /\ MonthStarts[m] <= d /\ d < MonthStarts[m + 1]
        /\ s.month_day # 0 => d = MonthStarts[m] + s.month_day - 1
        /\ s.month_day = 0 => d = MonthStarts[m + 1] - 1
    <2>1. CASE s.month_day = 0
      BY <2>1, MonthBounds DEF DayInMonth
    <2>2. CASE s.month_day # 0
      <3>1. d = MonthStarts[m] + s.month_day - 1 /\ 1 <= s.month_day
        BY <1>1, <2>2 DEF DayInMonth
      <3> QED
        BY <1>1, <2>2, <3>1, MonthBounds
    <2> QED
      BY <2>1, <2>2
  <1> HIDE DEF d
  <1>3. MonthOf(d) = m
    BY <1>2, MonthIs
  <1>4. OnDay(s, d)
    <2>1. d + 1 = IF s.month_day = 0 THEN MonthStarts[m + 1] ELSE MonthStarts[m] + s.month_day
      <3>1. MonthStarts[m] \in Int /\ MonthStarts[m + 1] \in Int /\ s.month_day \in Int
        BY <1>1, MonthBounds
      <3>2. CASE s.month_day = 0
        BY <1>2, <3>1, <3>2
      <3>3. CASE s.month_day # 0
        <4>1. d = MonthStarts[m] + s.month_day - 1
          BY <1>2, <3>3
        <4>2. d + 1 = MonthStarts[m] + s.month_day
          BY <3>1, <4>1
        <4> QED
          BY <3>3, <4>2
      <3> QED
        BY <3>2, <3>3
    <2> QED
      BY <1>3, <2>1 DEF OnDay
  <1> QED
    BY <1>2, <1>3, <1>4, MonthBounds DEF d

\* It has none on any other.
LEMMA MonthlyDays ==
  ASSUME NEW s \in Schedules, s.type = "MONTHLY",
         NEW d \in Nat, d < MonthStarts[Len(MonthStarts)], OnDay(s, d)
  PROVE  MonthOf(d) \in Months /\ d = DayInMonth(MonthOf(d), s.month_day)
  <1> DEFINE m == MonthOf(d)
  <1>1. Len(MonthStarts) \in 1 .. Len(MonthStarts)
    BY MonthNumbers
  <1>2. m \in Months
    BY <1>1, MonthExists
  <1>3. d + 1 = IF s.month_day = 0 THEN MonthStarts[m + 1] ELSE MonthStarts[m] + s.month_day
    BY DEF OnDay
  <1>4. s.month_day \in Nat
    BY ScheduleFacts, ShortestIs
  <1> HIDE DEF m
  <1>5. d = DayInMonth(m, s.month_day)
    <2>1. CASE s.month_day = 0
      <3>1. DayInMonth(m, s.month_day) = MonthStarts[m] + MonthLength(m) - 1
        BY <2>1 DEF DayInMonth
      <3> QED
        BY <1>2, <1>3, <2>1, <3>1, MonthBounds
    <2>2. CASE s.month_day # 0
      <3>1. DayInMonth(m, s.month_day) = MonthStarts[m] + s.month_day - 1
        BY <2>2 DEF DayInMonth
      <3> QED
        <4>1. MonthStarts[m] \in Int /\ s.month_day \in Int
          BY <1>2, <1>4, MonthBounds
        <4>2. d + 1 = MonthStarts[m] + s.month_day
          BY <1>3, <2>2
        <4> QED
          BY <3>1, <4>1, <4>2
    <2> QED
      BY <2>1, <2>2
  <1> QED
    BY <1>2, <1>5 DEF m

\* The days of later months are later.
LEMMA MonthlyOrder ==
  ASSUME NEW s \in Schedules, s.type = "MONTHLY", NEW m \in Months, NEW n \in Months, m < n
  PROVE  DayInMonth(m, s.month_day) < DayInMonth(n, s.month_day)
  <1>1. MonthStarts[m + 1] <= MonthStarts[n]
    <2>1. CASE m + 1 = n
      BY <2>1, MonthBounds
    <2>2. CASE m + 1 < n
      <3>1. m + 1 \in 1 .. Len(MonthStarts) /\ n \in 1 .. Len(MonthStarts)
        BY MonthBounds
      <3> QED
        BY <2>2, <3>1, MonthNumbers
    <2> QED
      BY <2>1, <2>2, MonthBounds
  <1>2. DayInMonth(m, s.month_day) < MonthStarts[m + 1] /\ DayInMonth(m, s.month_day) \in Nat
    BY MonthlyDay
  <1>3. DayInMonth(n, s.month_day) \in Nat /\ MonthStarts[n] <= DayInMonth(n, s.month_day)
    BY MonthlyDay
  <1> QED
    BY <1>1, <1>2, <1>3, MonthBounds

\* From one to the next there are no fewer days than in the shortest month.
LEMMA MonthlyDistance ==
  ASSUME NEW s \in Schedules, s.type = "MONTHLY", NEW m \in Months, m + 1 \in Months
  PROVE  DayInMonth(m, s.month_day) + ShortestMonth <= DayInMonth(m + 1, s.month_day)
  <1>1. ShortestMonth \in Nat /\ ShortestMonth <= MonthLength(m) /\ ShortestMonth <= MonthLength(m + 1)
    BY ShortestIs
  <1>2. /\ MonthLength(m) \in Nat /\ MonthStarts[m] \in Nat
        /\ MonthStarts[m + 1] = MonthStarts[m] + MonthLength(m)
    BY MonthBounds
  <1>3. /\ MonthLength(m + 1) \in Nat /\ MonthStarts[m + 1] \in Nat
        /\ MonthStarts[(m + 1) + 1] = MonthStarts[m + 1] + MonthLength(m + 1)
    BY MonthBounds
  <1>4. CASE s.month_day = 0
    BY <1>1, <1>2, <1>3, <1>4, MonthlyDay
  <1>5. CASE s.month_day # 0
    <2>1. s.month_day \in Nat
      BY ScheduleFacts, ShortestIs
    <2> QED
      BY <1>1, <1>2, <1>3, <1>5, <2>1, MonthlyDay
  <1> QED
    BY <1>4, <1>5
-----------------------------------------------------------------------------
(* The searches *)

\* Local times not before midnight have days that are numbers; LastStart lies before the
\* last month.
LEMMA InCalendar ==
  ASSUME NEW z \in Zones, NEW t \in Int, t <= LastStart
  PROVE  /\ Len(MonthStarts) - 1 \in Months /\ Len(MonthStarts) \in 1 .. Len(MonthStarts)
         /\ Day(Local(z, t)) < MonthStarts[Len(MonthStarts) - 1]
         /\ MonthStarts[Len(MonthStarts) - 1] + 7 <= MonthStarts[Len(MonthStarts)]
         /\ MonthStarts[Len(MonthStarts) - 1] \in Nat /\ MonthStarts[Len(MonthStarts)] \in Nat
         /\ 0 <= t => 0 <= Day(Local(z, t))
  <1> DEFINE x == Local(z, t)
             n == Len(MonthStarts) - 1
             e == MonthStarts[n]
  <1>1. n \in Months /\ n \in 1 .. Len(MonthStarts) /\ Len(MonthStarts) \in 1 .. Len(MonthStarts)
        /\ n < Len(MonthStarts)
    BY MonthNumbers DEF Months
  <1>2. e \in Nat /\ MonthStarts[Len(MonthStarts)] \in Nat /\ e + 7 <= MonthStarts[Len(MonthStarts)]
    BY <1>1, MonthNumbers
  <1>3. x \in Int /\ x <= LastStart + MaxGap /\ t <= x
    <2>1. x \in Int /\ t <= x /\ x <= t + z.shift
      BY LocalShown
    <2>2. z.shift \in Int /\ z.shift <= MaxGap /\ MaxGap \in Int /\ LastStart \in Int
      BY ZoneFacts, CalendarAssumption
    <2> QED
      BY <2>1, <2>2
  <1>4. LastStart + MaxGap < SlotsPerDay * e
    BY CalendarAssumption
  <1> HIDE DEF x, e
  <1>5. SlotsPerDay * e = e * SlotsPerDay /\ e * SlotsPerDay \in Int
    BY <1>2, Slots
  <1>6. LastStart + MaxGap \in Int
    BY CalendarAssumption
  <1>7. x < e * SlotsPerDay
    BY <1>3, <1>4, <1>5, <1>6
  <1>8. Day(x) \in Int /\ Day(x) * SlotsPerDay \in Int /\ x = Day(x) * SlotsPerDay + TimeOfDay(x)
        /\ TimeOfDay(x) \in Int /\ 0 <= TimeOfDay(x) /\ TimeOfDay(x) < SlotsPerDay
    BY <1>3, DayParts
  <1>9. Day(x) < e
    <2>1. ~(e < Day(x)) /\ e # Day(x)
      BY <1>2, <1>5, <1>7, <1>8, DaysApart, Slots
    <2> QED
      BY <1>2, <1>8, <2>1
  <1>10. ASSUME 0 <= t PROVE 0 <= Day(x)
    <2> SUFFICES ASSUME Day(x) < 0 PROVE FALSE
      BY <1>8
    <2>1. Day(x) * SlotsPerDay + SlotsPerDay <= 0
      BY <1>8, DaysApart, Slots
    <2> QED
      BY <1>3, <1>8, <1>10, <2>1, Slots
  <1> QED
    BY <1>1, <1>2, <1>9, <1>10 DEF x, e

\* From one weekday of a schedule to another there are no fewer days than the circular gap.
LEMMA WeekdayDistance ==
  ASSUME NEW n \in Int, NEW k \in 1 .. 8
  PROVE  DaysFrom(n % 7, (n + k) % 7) <= k
  BY DEF DaysFrom

\* The limit of a schedule in days.
LEMMA DailyDistance ==
  ASSUME NEW s \in Schedules, s.type = "DAILY", NEW n \in Int, NEW k \in 1 .. 8,
         OnDay(s, n), OnDay(s, n + k)
  PROVE  FrequencyLimit(s) \in Int /\ FrequencyLimit(s) <= k * SlotsPerDay
  <1> DEFINE T == {DaysFrom(p[1], p[2]) : p \in s.weekdays \X s.weekdays}
             m == IF s.weekdays = {} THEN 1 ELSE Min(T)
  <1>1. m \in Nat /\ m <= k
    <2>1. CASE s.weekdays = {}
      BY <2>1
    <2>2. CASE s.weekdays # {}
      <3>1. n % 7 \in s.weekdays /\ (n + k) % 7 \in s.weekdays
        BY <2>2 DEF OnDay
      <3>2. T \in SUBSET Nat
        BY ScheduleFacts DEF DaysFrom, Week
      <3>3. DaysFrom(n % 7, (n + k) % 7) \in T
        <4>1. <<n % 7, (n + k) % 7>> \in s.weekdays \X s.weekdays
          BY <3>1
        <4> QED
          BY <4>1
      <3>4. Min(T) \in T /\ Min(T) <= DaysFrom(n % 7, (n + k) % 7)
        BY <3>2, <3>3, MinExists
      <3>5. Min(T) \in Nat /\ DaysFrom(n % 7, (n + k) % 7) \in Nat
        BY <3>2, <3>3, <3>4
      <3>6. Min(T) <= k
        BY <3>4, <3>5, WeekdayDistance
      <3> QED
        BY <2>2, <3>5, <3>6
    <2> QED
      BY <2>1, <2>2
  <1>2. FrequencyLimit(s) = SlotsPerDay * m
    BY DEF FrequencyLimit
  <1> HIDE DEF m
  <1>3. PICK j \in Nat : k = m + j
    <2>1. k - m \in Nat /\ k = m + (k - m)
      BY <1>1
    <2> QED
      BY <2>1
  <1>4. k * SlotsPerDay = SlotsPerDay * m + j * SlotsPerDay /\ SlotsPerDay * m \in Int
        /\ j * SlotsPerDay \in Nat
    BY <1>1, <1>3, Slots
  <1> QED
    BY <1>2, <1>4

\* The next candidate is on the next day of the schedule, and no nearer than the limit.
LEMMA NextCandidate ==
  ASSUME NEW z \in Zones, NEW W, ~Crosses(z, W), NEW s \in Schedules, s.type # "ONCE",
         NEW t \in Int, t <= LastStart, OnTime(z, W, TimeOfDay(Local(z, t))),
         0 <= Day(Local(z, t)), OnDay(s, Day(Local(z, t)))
  PROVE  LET x == Local(z, t)
         IN \E c \in Int :
              /\ NextScheduleOccurrence(z, s, t) = Instant(z, c)
              /\ Day(x) < Day(c) /\ c = LocalizeScheduleTime(z, Day(c) * SlotsPerDay + TimeOfDay(x))
              /\ OnDay(s, Day(c)) /\ \A d \in Day(x) + 1 .. Day(c) - 1 : ~OnDay(s, d)
              /\ FrequencyLimit(s) \in Int
              /\ FrequencyLimit(s) <= (Day(c) - Day(x)) * SlotsPerDay
  <1> DEFINE x == Local(z, t)
  <1>1. x \in Int /\ Day(x) \in Int /\ TimeOfDay(x) \in 0 .. SlotsPerDay - 1
    BY LocalShown, DayParts
  <1>2. CASE s.type = "DAILY"
    <2> DEFINE c == DailyCandidate(z, s, x, 1 .. 1 + 7)
    <2>1. /\ Day(c) \in Int /\ Day(x) + 1 <= Day(c) /\ Day(c) <= Day(x) + 1 + 7
          /\ c = LocalizeScheduleTime(z, Day(c) * SlotsPerDay + TimeOfDay(x))
          /\ OnDay(s, Day(c)) /\ \A d \in Day(x) + 1 .. Day(c) - 1 : ~OnDay(s, d)
      BY <1>1, <1>2, DailySearch
    <2>2. 1 + 7 = 8
      OBVIOUS
    <2>3. NextScheduleOccurrence(z, s, t) = Instant(z, c)
      BY <1>2, <2>2 DEF NextScheduleOccurrence
    <2> HIDE DEF c
    <2>4. c \in Int
      <3>1. Day(c) * SlotsPerDay + TimeOfDay(x) \in Int
        BY <1>1, <2>1, DayUnique
      <3> QED
        BY <2>1, <3>1, LocalizeShown
    <2>5. Day(c) - Day(x) \in 1 .. 8 /\ Day(x) + (Day(c) - Day(x)) = Day(c)
      BY <1>1, <2>1
    <2>6. FrequencyLimit(s) \in Int /\ FrequencyLimit(s) <= (Day(c) - Day(x)) * SlotsPerDay
      BY <1>1, <1>2, <2>1, <2>5, DailyDistance
    <2>7. Day(x) < Day(c)
      BY <1>1, <2>1
    <2> QED
      BY <2>1, <2>3, <2>4, <2>6, <2>7
  <1>3. CASE s.type = "MONTHLY"
    <2> DEFINE m == MonthOf(Day(x))
               e == DayInMonth(m + 1, s.month_day)
               c == LocalizeScheduleTime(z, e * SlotsPerDay + TimeOfDay(x))
    <2>1. Day(x) \in Nat /\ Day(x) < MonthStarts[Len(MonthStarts)]
      BY <1>1, InCalendar
    <2>2. m \in Months /\ Day(x) = DayInMonth(m, s.month_day)
      BY <1>3, <2>1, MonthlyDays
    <2>3. m + 1 \in Months
      <3>1. m < Len(MonthStarts) - 1 /\ m \in Int
        BY <2>1, <2>2, InCalendar, MonthExists, MonthBounds
      <3> QED
        BY <2>2, <3>1, MonthNumbers DEF Months
    <2>4. e \in Nat /\ MonthStarts[m + 1] <= e /\ e < MonthStarts[(m + 1) + 1]
          /\ OnDay(s, e)
      BY <1>3, <2>3, MonthlyDay
    <2>5. c \in Int /\ Day(c) = e
      BY <1>1, <2>4, Landing
    <2>6. NextScheduleOccurrence(z, s, t) = Instant(z, c)
      BY <1>3 DEF NextScheduleOccurrence, MonthlyLocalCandidate
    <2>7. Day(x) + ShortestMonth <= e /\ Day(x) < e /\ ShortestMonth \in Nat
      <3>1. Day(x) + ShortestMonth <= e
        BY <1>3, <2>2, <2>3, MonthlyDistance
      <3>2. Day(x) < e
        <4>1. m < m + 1
          BY <2>2, MonthBounds
        <4> QED
          BY <1>3, <2>2, <2>3, <4>1, MonthlyOrder
      <3> QED
        BY <3>1, <3>2, ShortestIs
    <2> HIDE DEF m, e, c
    <2>8. ASSUME NEW d \in Day(x) + 1 .. e - 1 PROVE ~OnDay(s, d)
      <3> SUFFICES ASSUME OnDay(s, d) PROVE FALSE
        OBVIOUS
      <3>1. d \in Nat /\ Day(x) < d /\ d < e
        BY <2>1, <2>4
      <3>2. d < MonthStarts[Len(MonthStarts)]
        <4>1. MonthStarts[(m + 1) + 1] <= MonthStarts[Len(MonthStarts)]
          <5>1. (m + 1) + 1 \in 1 .. Len(MonthStarts) /\ (m + 1) + 1 <= Len(MonthStarts)
            BY <2>3, MonthBounds
          <5> QED
            BY <5>1, MonthNumbers
        <4>2. MonthStarts[(m + 1) + 1] \in Nat /\ MonthStarts[Len(MonthStarts)] \in Nat
          BY <2>3, MonthBounds, MonthNumbers
        <4> QED
          BY <2>4, <3>1, <4>1, <4>2
      <3> DEFINE j == MonthOf(d)
      <3>3. j \in Months /\ d = DayInMonth(j, s.month_day)
        BY <1>3, <3>1, <3>2, MonthlyDays
      <3> HIDE DEF j
      <3>4. ~(j < m) /\ j # m /\ ~(m + 1 < j) /\ j # m + 1
        <4>1. j < m => d < Day(x)
          BY <1>3, <2>2, <3>3, MonthlyOrder
        <4>2. m + 1 < j => e < d
          BY <1>3, <2>3, <3>3, MonthlyOrder DEF e
        <4>3. j = m => d = Day(x)
          BY <2>2, <3>3
        <4>4. j = m + 1 => d = e
          BY <3>3 DEF e
        <4> QED
          BY <2>1, <2>4, <3>1, <4>1, <4>2, <4>3, <4>4
      <3> QED
        BY <2>2, <3>3, <3>4, MonthBounds
    <2>9. FrequencyLimit(s) = SlotsPerDay * ShortestMonth
      BY <1>3 DEF FrequencyLimit
    <2>10. SlotsPerDay * ShortestMonth \in Int /\ SlotsPerDay * ShortestMonth <= (e - Day(x)) * SlotsPerDay
      <3>1. PICK n \in Nat : e - Day(x) = ShortestMonth + n
        <4>1. e - Day(x) - ShortestMonth \in Nat
              /\ e - Day(x) = ShortestMonth + (e - Day(x) - ShortestMonth)
          BY <2>1, <2>4, <2>7
        <4> QED
          BY <4>1
      <3>2. (e - Day(x)) * SlotsPerDay = SlotsPerDay * ShortestMonth + n * SlotsPerDay
            /\ SlotsPerDay * ShortestMonth \in Int /\ n * SlotsPerDay \in Nat
        BY <2>7, <3>1, Slots
      <3> QED
        BY <3>2
    <2>11. c = LocalizeScheduleTime(z, Day(c) * SlotsPerDay + TimeOfDay(x))
      BY <2>5 DEF c
    <2> QED
      BY <2>4, <2>5, <2>6, <2>7, <2>8, <2>9, <2>10, <2>11
  <1> QED
    BY <1>2, <1>3, ScheduleFacts

\* The first candidate is the first one not before the start.
LEMMA FirstCandidate ==
  ASSUME NEW z \in Zones, NEW s \in Schedules, s.type # "ONCE", NEW t \in Starts,
         ~Crosses(z, TimeOfDay(Local(z, t)))
  PROVE  LET x == Local(z, t)
             W == TimeOfDay(x)
         IN \E c \in Int :
              /\ FirstScheduleOccurrence(z, s, t) = Instant(z, c)
              /\ c = LocalizeScheduleTime(z, Day(c) * SlotsPerDay + W)
              /\ x <= c /\ Day(c) \in Days /\ OnDay(s, Day(c))
              /\ \A d \in Days : OnDay(s, d) /\ x <= LocalizeScheduleTime(z, d * SlotsPerDay + W)
                                   => Day(c) <= d
  <1> DEFINE x == Local(z, t)
             W == TimeOfDay(x)
             cand(d) == LocalizeScheduleTime(z, d * SlotsPerDay + W)
  <1>1. t \in Int /\ t <= LastStart /\ 0 <= t
    BY CalendarAssumption DEF Starts
  <1>2. x \in Int /\ Day(x) \in Int /\ W \in 0 .. SlotsPerDay - 1 /\ OnTime(z, W, W)
        /\ W \in Int /\ x = Day(x) * SlotsPerDay + W /\ Day(x) * SlotsPerDay \in Int
    BY <1>1, LocalShown, DayParts DEF OnTime
  <1>3. Day(x) \in Nat /\ Day(x) < MonthStarts[Len(MonthStarts) - 1]
        /\ MonthStarts[Len(MonthStarts) - 1] + 7 <= MonthStarts[Len(MonthStarts)]
        /\ MonthStarts[Len(MonthStarts) - 1] \in Nat /\ MonthStarts[Len(MonthStarts)] \in Nat
    BY <1>1, <1>2, InCalendar
  <1>4. \A d \in Int : cand(d) \in Int /\ Day(cand(d)) = d
    BY <1>2, Landing
  <1>5. \A d \in Int : d < Day(x) => cand(d) < x
    BY <1>2, <1>4, DayMonotone
  <1>6. \A d \in Int : Day(x) <= d => x <= cand(d)
    <2> SUFFICES ASSUME NEW d \in Int, Day(x) <= d PROVE x <= cand(d)
      OBVIOUS
    <2>1. CASE Day(x) = d
      <3>1. x <= LocalizeScheduleTime(z, x)
        BY <1>2, LocalizeShown
      <3> QED
        BY <1>2, <2>1, <3>1
    <2>2. CASE Day(x) < d
      <3>1. x < cand(d)
        BY <1>2, <1>4, <2>2, DayMonotone
      <3> QED
        BY <1>2, <1>4, <3>1
    <2> QED
      BY <1>2, <2>1, <2>2
  <1>7. CASE s.type = "DAILY"
    <2> DEFINE c == DailyCandidate(z, s, x, 0 .. 0 + 7)
    <2>1. /\ Day(c) \in Int /\ Day(x) + 0 <= Day(c) /\ Day(c) <= Day(x) + 0 + 7
          /\ c = LocalizeScheduleTime(z, Day(c) * SlotsPerDay + W)
          /\ OnDay(s, Day(c)) /\ \A d \in Day(x) + 0 .. Day(c) - 1 : ~OnDay(s, d)
      BY <1>2, <1>7, DailySearch
    <2>2. 0 + 7 = 7
      OBVIOUS
    <2>3. FirstScheduleOccurrence(z, s, t) = Instant(z, c)
      BY <1>7, <2>2 DEF FirstScheduleOccurrence
    <2> HIDE DEF c, W
    <2>4. c \in Int /\ x <= c
      BY <1>2, <1>4, <1>6, <2>1
    <2>5. Day(c) \in Days
      BY <1>3, <2>1 DEF Days
    <2>6. ASSUME NEW d \in Days, OnDay(s, d), x <= cand(d) PROVE Day(c) <= d
      <3>1. d \in Int
        BY <1>3 DEF Days
      <3>2. Day(x) <= d
        BY <1>2, <1>4, <1>5, <2>6, <3>1
      <3>3. ~(d \in Day(x) + 0 .. Day(c) - 1)
        BY <2>1, <2>6
      <3> QED
        BY <1>2, <2>1, <3>1, <3>2, <3>3
    <2> QED
      BY <2>1, <2>3, <2>4, <2>5, <2>6 DEF W
  <1>8. CASE s.type = "MONTHLY"
    <2> DEFINE m == MonthOf(Day(x))
               day(j) == DayInMonth(j, s.month_day)
               k == IF cand(day(m)) >= x THEN m ELSE m + 1
    <2>1. m \in Months /\ m < Len(MonthStarts) - 1 /\ m \in Int
          /\ MonthStarts[m] <= Day(x) /\ Day(x) < MonthStarts[m + 1]
      BY <1>1, <1>3, InCalendar, MonthExists, MonthBounds
    <2>2. m + 1 \in Months
      BY <2>1, MonthNumbers DEF Months
    <2>3. k \in Months
      BY <2>1, <2>2
    <2>4. \A j \in Months : /\ day(j) \in Nat /\ MonthStarts[j] <= day(j) /\ day(j) < MonthStarts[j + 1]
                            /\ OnDay(s, day(j))
      BY <1>8, MonthlyDay
    <2>5. \A i, j \in Months : i < j => day(i) < day(j)
      BY <1>8, MonthlyOrder
    <2>6. FirstScheduleOccurrence(z, s, t) = Instant(z, cand(day(k)))
      BY <1>8 DEF FirstScheduleOccurrence, MonthlyLocalCandidate
    <2>7. day(m) \in Int /\ cand(day(m)) \in Int
      BY <1>4, <2>1, <2>4
    <2>8. x <= cand(day(k))
      <3>1. CASE cand(day(m)) >= x
        BY <1>2, <2>7, <3>1
      <3>2. CASE ~(cand(day(m)) >= x)
        <4>1. Day(x) <= day(m + 1) /\ day(m + 1) \in Int
          <5>1. MonthStarts[m + 1] \in Nat /\ day(m + 1) \in Nat /\ MonthStarts[m + 1] <= day(m + 1)
            BY <2>1, <2>2, <2>4, MonthBounds
          <5> HIDE DEF day, m
          <5> QED
            BY <1>2, <2>1, <5>1
        <4>2. x <= cand(day(m + 1))
          BY <1>6, <4>1
        <4> QED
          BY <3>2, <4>2
      <3> QED
        BY <3>1, <3>2
    <2> HIDE DEF m, day, k, x, W, cand
    <2>9. \A d \in Days : OnDay(s, d) => MonthOf(d) \in Months /\ d = day(MonthOf(d))
      <3> SUFFICES ASSUME NEW d \in Days, OnDay(s, d) PROVE MonthOf(d) \in Months /\ d = day(MonthOf(d))
        OBVIOUS
      <3>1. d \in Nat /\ d < MonthStarts[Len(MonthStarts)]
        BY <1>3 DEF Days
      <3> QED
        BY <1>8, <3>1, MonthlyDays DEF day
    <2>10. ASSUME NEW d \in Days, OnDay(s, d), x <= cand(d) PROVE day(k) <= d
      <3> DEFINE j == MonthOf(d)
      <3>1. j \in Months /\ d = day(j) /\ j \in Int /\ d \in Nat
        BY <2>4, <2>9, <2>10, MonthBounds
      <3> HIDE DEF j
      <3>2. ~(j < m)
        <4> SUFFICES ASSUME j < m PROVE FALSE
          OBVIOUS
        <4>1. d < Day(x)
          <5>1. MonthStarts[j + 1] <= MonthStarts[m]
            <6>1. j + 1 \in 1 .. Len(MonthStarts) /\ m \in 1 .. Len(MonthStarts) /\ j + 1 <= m
              BY <2>1, <3>1, MonthBounds
            <6> QED
              BY <6>1, MonthNumbers
          <5>2. MonthStarts[j + 1] \in Nat /\ MonthStarts[m] \in Nat /\ d < MonthStarts[j + 1]
            BY <2>1, <2>4, <3>1, MonthBounds
          <5> QED
            BY <1>2, <2>1, <3>1, <5>1, <5>2
        <4>2. cand(d) < x /\ cand(d) \in Int
          BY <1>4, <1>5, <3>1, <4>1
        <4> QED
          BY <1>2, <2>10, <4>2
      <3>3. CASE k = m
        <4>1. j = k \/ k < j
          BY <2>1, <3>1, <3>2, <3>3
        <4> QED
          BY <2>3, <2>4, <2>5, <3>1, <4>1
      <3>4. CASE k # m
        <4>1. k = m + 1 /\ ~(cand(day(m)) >= x)
          BY <3>4 DEF k
        <4>2. j # m
          BY <1>2, <2>7, <2>10, <3>1, <4>1
        <4>3. j = k \/ k < j
          BY <2>1, <3>1, <3>2, <4>1, <4>2
        <4> QED
          BY <2>3, <2>4, <2>5, <3>1, <4>3
      <3> QED
        BY <3>3, <3>4
    <2>11. day(k) \in Days
      <3>1. day(k) \in Nat /\ day(k) < MonthStarts[k + 1] /\ k + 1 \in 1 .. Len(MonthStarts)
            /\ MonthStarts[k + 1] \in Nat /\ k + 1 <= Len(MonthStarts)
        BY <2>3, <2>4, MonthBounds
      <3>2. MonthStarts[k + 1] <= MonthStarts[Len(MonthStarts)]
        BY <3>1, MonthNumbers
      <3> QED
        BY <1>3, <3>1, <3>2 DEF Days
    <2>12. cand(day(k)) \in Int /\ Day(cand(day(k))) = day(k)
      BY <1>4, <2>3, <2>4
    <2>13. cand(day(k)) = LocalizeScheduleTime(z, Day(cand(day(k))) * SlotsPerDay + W)
      BY <2>12 DEF cand
    <2>14. OnDay(s, day(k))
      BY <2>3, <2>4
    <2> QED
      BY <2>6, <2>8, <2>10, <2>11, <2>12, <2>13, <2>14 DEF x, W, cand
  <1> QED
    BY <1>7, <1>8, ScheduleFacts
-----------------------------------------------------------------------------
(* Chains of occurrences *)

\* The occurrences O of a schedule with the wall time W, the last of which is n: one on
\* each of its days since the first.
IsChain(z, s, W, O, n) ==
  /\ O \in SUBSET Int /\ n \in O
  /\ Instant(z, Local(z, n)) = n /\ 0 <= Day(Local(z, n))
  /\ \A y \in O : y <= n /\ OnTime(z, W, TimeOfDay(Local(z, y)))
  /\ \A x, y \in O : x < y => Day(Local(z, x)) < Day(Local(z, y))
  /\ \E f \in O : /\ \A y \in O : f <= y
                  /\ {Day(Local(z, y)) : y \in O} = {d \in Day(Local(z, f)) .. Day(Local(z, n)) : OnDay(s, d)}

\* What a search returns is shown as the candidate it found.
LEMMA Shown ==
  ASSUME NEW z \in Zones, NEW W, ~Crosses(z, W), NEW d \in Int,
         NEW t \in 0 .. SlotsPerDay - 1, OnTime(z, W, t)
  PROVE  LET c == LocalizeScheduleTime(z, d * SlotsPerDay + t)
             n == Instant(z, c)
         IN /\ c \in Int /\ ~Skips(z, c) /\ Day(c) = d /\ n \in Int /\ Local(z, n) = c
            /\ OnTime(z, W, TimeOfDay(c)) /\ n <= c /\ c - z.shift <= n
  <1>1. LET c == LocalizeScheduleTime(z, d * SlotsPerDay + t)
        IN c \in Int /\ ~Skips(z, c) /\ Day(c) = d /\ OnTime(z, W, TimeOfDay(c))
    BY Landing
  <1> QED
    BY <1>1, InstantShows

\* The first occurrence is a chain, ...
LEMMA ChainStarts ==
  ASSUME NEW z \in Zones, NEW s \in Schedules, s.type # "ONCE", NEW t \in Starts,
         ~Crosses(z, TimeOfDay(Local(z, t)))
  PROVE  LET f == FirstScheduleOccurrence(z, s, t)
         IN f \in Int /\ IsChain(z, s, TimeOfDay(Local(z, t)), {f}, f)
  <1> DEFINE x == Local(z, t)
             W == TimeOfDay(x)
             f == FirstScheduleOccurrence(z, s, t)
  <1>1. t \in Int
    BY CalendarAssumption DEF Starts
  <1>2. W \in 0 .. SlotsPerDay - 1 /\ OnTime(z, W, W)
    BY <1>1, LocalShown, DayParts DEF OnTime
  <1>3. PICK c \in Int : /\ f = Instant(z, c)
                         /\ c = LocalizeScheduleTime(z, Day(c) * SlotsPerDay + W)
                         /\ x <= c /\ Day(c) \in Days /\ OnDay(s, Day(c))
    BY FirstCandidate
  <1> HIDE DEF x, W, f
  <1>4. Day(c) \in Int /\ 0 <= Day(c)
    BY <1>3, MonthNumbers DEF Days
  <1>5. f \in Int /\ Local(z, f) = c /\ OnTime(z, W, TimeOfDay(c))
    BY <1>2, <1>3, <1>4, Shown DEF x, W
  <1>6. {Day(Local(z, y)) : y \in {f}} = {d \in Day(c) .. Day(c) : OnDay(s, d)}
    BY <1>3, <1>4, <1>5
  <1>7. IsChain(z, s, W, {f}, f)
    BY <1>3, <1>4, <1>5, <1>6 DEF IsChain
  <1> QED
    BY <1>5, <1>7 DEF x, W, f

\* ... and the next occurrence makes a chain a longer one.
LEMMA ChainGrows ==
  ASSUME NEW z \in Zones, NEW W, ~Crosses(z, W), NEW s \in Schedules, s.type # "ONCE",
         NEW O, NEW t \in Int, t <= LastStart, IsChain(z, s, W, O, t)
  PROVE  LET n == NextScheduleOccurrence(z, s, t)
         IN /\ n \in Int /\ IsChain(z, s, W, O \cup {n}, n)
            /\ FrequencyLimit(s) \in Int /\ FrequencyLimit(s) <= n - t + z.shift
  <1> DEFINE x == Local(z, t)
             n == NextScheduleOccurrence(z, s, t)
  <1>1. PICK f \in O : /\ \A y \in O : f <= y
                       /\ {Day(Local(z, y)) : y \in O} = {d \in Day(Local(z, f)) .. Day(x) : OnDay(s, d)}
    BY DEF IsChain
  <1>2. /\ O \in SUBSET Int /\ t \in O /\ Instant(z, x) = t /\ 0 <= Day(x)
        /\ \A y \in O : y <= t /\ OnTime(z, W, TimeOfDay(Local(z, y)))
        /\ \A v, y \in O : v < y => Day(Local(z, v)) < Day(Local(z, y))
    BY DEF IsChain
  <1>3. x \in Int /\ ~Skips(z, x) /\ t <= x /\ Day(x) \in Int /\ TimeOfDay(x) \in 0 .. SlotsPerDay - 1
        /\ TimeOfDay(x) \in Int /\ Day(x) * SlotsPerDay \in Int /\ x = Day(x) * SlotsPerDay + TimeOfDay(x)
    BY LocalShown, DayParts
  <1>4. OnTime(z, W, TimeOfDay(x)) /\ OnDay(s, Day(x))
    BY <1>1, <1>2
  <1>5. PICK c \in Int :
          /\ n = Instant(z, c)
          /\ Day(x) < Day(c) /\ c = LocalizeScheduleTime(z, Day(c) * SlotsPerDay + TimeOfDay(x))
          /\ OnDay(s, Day(c)) /\ \A d \in Day(x) + 1 .. Day(c) - 1 : ~OnDay(s, d)
          /\ FrequencyLimit(s) \in Int
          /\ FrequencyLimit(s) <= (Day(c) - Day(x)) * SlotsPerDay
    BY <1>2, <1>4, NextCandidate
  <1> HIDE DEF x, n
  <1>6. Day(c) \in Int
    BY DayParts
  <1>7. ~Skips(z, c) /\ n \in Int /\ Local(z, n) = c /\ OnTime(z, W, TimeOfDay(c)) /\ c - z.shift <= n
    BY <1>3, <1>4, <1>5, <1>6, Shown
  <1>8. t < n
    BY <1>2, <1>3, <1>5, <1>7, DayMonotone, InstantMonotone
  <1>9. FrequencyLimit(s) <= n - t + z.shift
    <2>1. (Day(c) - Day(x)) * SlotsPerDay = Day(c) * SlotsPerDay - Day(x) * SlotsPerDay
          /\ Day(c) * SlotsPerDay \in Int
      BY <1>3, <1>6, Slots
    <2>2. Day(c) * SlotsPerDay + TimeOfDay(x) <= c
      BY <1>3, <1>5, <2>1, LocalizeShown
    <2>3. FrequencyLimit(s) <= c - x
      BY <1>3, <1>5, <2>1, <2>2
    <2> QED
      BY <1>3, <1>5, <1>7, <2>3, ZoneFacts
  <1>10. IsChain(z, s, W, O \cup {n}, n)
    <2> DEFINE P == O \cup {n}
    <2>1. P \in SUBSET Int /\ n \in P /\ f \in P /\ Instant(z, Local(z, n)) = n /\ 0 <= Day(Local(z, n))
      <3>1. P \in SUBSET Int /\ n \in P /\ f \in P
        BY <1>2, <1>7
      <3>2. 0 <= Day(c)
        BY <1>2, <1>3, <1>5, <1>6
      <3> HIDE DEF P
      <3> QED
        BY <1>5, <1>7, <3>1, <3>2
    <2>2. \A y \in P : y <= n /\ OnTime(z, W, TimeOfDay(Local(z, y)))
      BY <1>2, <1>7, <1>8
    <2>3. \A y \in O : Day(Local(z, y)) \in Int /\ Day(Local(z, y)) <= Day(x) /\ y \in Int
      BY <1>1, <1>2
    <2>4. ASSUME NEW v \in P, NEW y \in P, v < y PROVE Day(Local(z, v)) < Day(Local(z, y))
      <3>1. CASE y = n
        <4>1. v \in O
          BY <1>7, <2>4, <3>1
        <4> QED
          BY <1>3, <1>5, <1>6, <1>7, <2>3, <3>1, <4>1
      <3>2. CASE y # n
        <4>1. y \in O /\ y <= t /\ y \in Int
          BY <1>2, <3>2
        <4>2. v \in O
          BY <1>7, <1>8, <2>4, <4>1
        <4> QED
          BY <1>2, <2>4, <4>1, <4>2
      <3> QED
        BY <3>1, <3>2
    <2>5. \A y \in P : f <= y
      BY <1>1, <1>2, <1>7, <1>8
    <2>6. {Day(Local(z, y)) : y \in P} = {Day(Local(z, y)) : y \in O} \cup {Day(c)}
      BY <1>7
    <2>7. Day(Local(z, f)) \in Int /\ Day(Local(z, f)) <= Day(x)
      BY <2>3
    <2>8. {d \in Day(Local(z, f)) .. Day(c) : OnDay(s, d)}
            = {d \in Day(Local(z, f)) .. Day(x) : OnDay(s, d)} \cup {Day(c)}
      <3>1. \A d \in Day(Local(z, f)) .. Day(c) : d <= Day(x) \/ d = Day(c) \/ d \in Day(x) + 1 .. Day(c) - 1
        BY <1>3, <1>6, <2>7
      <3> HIDE DEF P
      <3>2. Day(c) \in Day(Local(z, f)) .. Day(c)
        BY <1>3, <1>5, <1>6, <2>7
      <3>3. Day(Local(z, f)) .. Day(x) \subseteq Day(Local(z, f)) .. Day(c)
        BY <1>3, <1>5, <1>6, <2>7
      <3>4. \A d \in Day(Local(z, f)) .. Day(c) : d <= Day(x) => d \in Day(Local(z, f)) .. Day(x)
        BY <1>3, <1>6, <2>7
      <3> QED
        BY <1>5, <3>1, <3>2, <3>3, <3>4
    <2>9. {Day(Local(z, y)) : y \in P} = {d \in Day(Local(z, f)) .. Day(Local(z, n)) : OnDay(s, d)}
      BY <1>1, <1>7, <2>6, <2>8 DEF x
    <2> QED
      BY <2>1, <2>2, <2>4, <2>5, <2>9 DEF IsChain
  <1> QED
    BY <1>5, <1>7, <1>9, <1>10 DEF n

\* The search through the days from an occurrence of a chain ends.
LEMMA ChainGoesOn ==
  ASSUME NEW z \in Zones, NEW W, ~Crosses(z, W), NEW s \in Schedules, NEW O, NEW t \in Int,
         IsChain(z, s, W, O, t)
  PROVE  ~Raises(z, s, Local(z, t), 1 .. 8)
  <1>1. CASE s.type = "DAILY"
    <2>1. Local(z, t) \in Int /\ OnTime(z, W, TimeOfDay(Local(z, t))) /\ 1 + 7 = 8
      BY LocalShown DEF IsChain
    <2> QED
      BY <1>1, <2>1, DailySearch
  <1>2. CASE s.type # "DAILY"
    BY <1>2 DEF Raises
  <1> QED
    BY <1>1, <1>2

\* The maximum of a set is what is greatest in it.
LEMMA MaxIs ==
  ASSUME NEW T \in SUBSET Int, NEW m \in T, \A n \in T : n <= m
  PROVE  Max(T) = m
  <1>1. \A n \in T : (\A k \in T : n >= k) => n = m
    OBVIOUS
  <1> QED
    BY <1>1 DEF Max
-----------------------------------------------------------------------------
(* The inductive invariant *)

\* The columns have their types; a ONCE definition has no occurrence but its start.
Columns ==
  /\ zone \in Zones /\ schedule \in Schedules /\ start_at \in Starts
  /\ schedule.type = "ONCE" => Occurrences \subseteq {start_at}

\* The first occurrence is the one that first_schedule_occurrence found.
BeginsWithFirst ==
  emitted = {} /\ next_run_at # Null => next_run_at = FirstScheduleOccurrence(zone, schedule, start_at)

\* The occurrences of a schedule whose time stays on its day are a chain, once it has any.
OccurrencesChain ==
  schedule.type # "ONCE" /\ ~PastMidnight =>
    IF next_run_at = Null THEN emitted = {}
    ELSE next_run_at \in Int /\ IsChain(zone, schedule, Wall, Occurrences, next_run_at)

ChainIInv == Columns /\ BeginsWithFirst /\ OccurrencesChain

\* What PastMidnight and Skipped say of the columns.
LEMMA MidnightMeans == (PastMidnight <=> Crosses(zone, Wall)) /\ (Skipped <=> Misses(zone, Wall))
  BY DEF PastMidnight, Skipped, Crosses, Misses, Gap

\* A new definition.
LEMMA ChainInit == CalendarInit => ChainIInv
  BY DEF CalendarInit, ChainIInv, Columns, BeginsWithFirst, OccurrencesChain, Occurrences

\* Each step keeps the invariant.
LEMMA ChainStep == ChainIInv /\ [CalendarNext]_calendarVars => ChainIInv'
  <1> SUFFICES ASSUME ChainIInv, [CalendarNext]_calendarVars PROVE ChainIInv'
    OBVIOUS
  <1>1. CASE CreateDefinition
    <2>1. /\ zone' = zone /\ schedule' = schedule /\ start_at' = start_at /\ emitted = {} /\ emitted' = {}
          /\ next_run_at' = FirstScheduleOccurrence(zone, schedule, start_at)
          /\ zone \in Zones /\ schedule \in Schedules /\ start_at \in Starts
      BY <1>1 DEF CreateDefinition, ChainIInv, Columns
    <2>2. BeginsWithFirst'
      BY <2>1 DEF BeginsWithFirst
    <2>3. (PastMidnight' <=> PastMidnight) /\ Wall' = Wall
      BY <2>1 DEF PastMidnight, Wall, Gap
    <2>4. next_run_at' # Null => Occurrences' = {next_run_at'}
      BY <2>1 DEF Occurrences
    <2>5. OccurrencesChain'
      <3> SUFFICES ASSUME schedule.type # "ONCE", ~PastMidnight
                   PROVE  next_run_at' \in Int /\ IsChain(zone, schedule, Wall, {next_run_at'}, next_run_at')
        BY <2>1, <2>3, <2>4, NullAssumption DEF OccurrencesChain
      <3> QED
        BY <2>1, MidnightMeans, ChainStarts DEF Wall
    <2>6. Columns'
      <3>1. schedule.type = "ONCE" => Occurrences' \subseteq {start_at}
        <4> SUFFICES ASSUME schedule.type = "ONCE" PROVE Occurrences' \subseteq {start_at}
          OBVIOUS
        <4>1. next_run_at' = start_at
          BY <2>1 DEF FirstScheduleOccurrence
        <4> QED
          BY <2>1, <4>1 DEF Occurrences
      <3> QED
        BY <2>1, <3>1 DEF Columns
    <2> QED
      BY <2>2, <2>5, <2>6 DEF ChainIInv
  <1>2. CASE Emit
    <2>1. /\ zone' = zone /\ schedule' = schedule /\ start_at' = start_at
          /\ emitted' = emitted \cup {next_run_at} /\ next_run_at # Null /\ next_run_at <= LastStart
          /\ next_run_at' = NextScheduleOccurrence(zone, schedule, next_run_at)
          /\ zone \in Zones /\ schedule \in Schedules /\ start_at \in Starts
      BY <1>2 DEF Emit, ChainIInv, Columns
    <2>2. BeginsWithFirst'
      BY <2>1 DEF BeginsWithFirst
    <2>3. (PastMidnight' <=> PastMidnight) /\ Wall' = Wall
      BY <2>1 DEF PastMidnight, Wall, Gap
    <2>4. Occurrences = emitted' /\ (next_run_at' # Null => Occurrences' = Occurrences \cup {next_run_at'})
      BY <2>1 DEF Occurrences
    <2>5. OccurrencesChain'
      <3> SUFFICES ASSUME schedule.type # "ONCE", ~PastMidnight
                   PROVE  /\ next_run_at' \in Int
                          /\ IsChain(zone, schedule, Wall, Occurrences \cup {next_run_at'}, next_run_at')
        BY <2>1, <2>3, <2>4, NullAssumption DEF OccurrencesChain
      <3>1. next_run_at \in Int /\ IsChain(zone, schedule, Wall, Occurrences, next_run_at)
        BY <2>1 DEF ChainIInv, OccurrencesChain
      <3> QED
        BY <2>1, <3>1, MidnightMeans, ChainGrows
    <2>6. Columns'
      <3>1. ASSUME schedule.type = "ONCE" PROVE Occurrences' = Occurrences
        <4>1. next_run_at' = Null
          BY <2>1, <3>1 DEF NextScheduleOccurrence
        <4> QED
          BY <2>4, <4>1 DEF Occurrences
      <3> QED
        BY <2>1, <3>1 DEF Columns, ChainIInv
    <2> QED
      BY <2>2, <2>5, <2>6 DEF ChainIInv
  <1>3. CASE UNCHANGED calendarVars
    BY <1>3 DEF calendarVars, ChainIInv, Columns, BeginsWithFirst, OccurrencesChain, Occurrences, PastMidnight,
         Wall, Gap
  <1> QED
    BY <1>1, <1>2, <1>3 DEF CalendarNext

\* The occurrences of every definition satisfy the invariant.
LEMMA ChainInvariant == CalendarSpec => []ChainIInv
  BY ChainInit, ChainStep, PTL DEF CalendarSpec
-----------------------------------------------------------------------------
(* The theorems *)

\* Of the candidates of the days, FirstScheduleOccurrence is the earliest not before the start.
LEMMA FirstIsEarliest ==
  ASSUME NEW z \in Zones, NEW s \in Schedules, s.type # "ONCE", NEW t \in Starts,
         ~Crosses(z, TimeOfDay(Local(z, t))), ~Repeated(z, t)
  PROVE  LET W == TimeOfDay(Local(z, t))
         IN FirstScheduleOccurrence(z, s, t)
              = Min({y \in {Showing(z, d * SlotsPerDay + W) : d \in {e \in Days : OnDay(s, e)}} : y >= t})
  <1> DEFINE x == Local(z, t)
             W == TimeOfDay(x)
             f == FirstScheduleOccurrence(z, s, t)
             cand(d) == LocalizeScheduleTime(z, d * SlotsPerDay + W)
             T == {y \in {Showing(z, d * SlotsPerDay + W) : d \in {e \in Days : OnDay(s, e)}} : y >= t}
  <1>1. t \in Int
    BY CalendarAssumption DEF Starts
  <1>2. x \in Int /\ ~Skips(z, x) /\ Instant(z, x) = t
    BY <1>1, LocalShown
  <1>3. W \in 0 .. SlotsPerDay - 1
    BY <1>2, DayParts
  <1>4. \A d \in Days : d \in Int
    BY MonthNumbers DEF Days
  <1>5. \A d \in Days : /\ d * SlotsPerDay + W \in Int
                        /\ cand(d) \in Int /\ ~Skips(z, cand(d)) /\ Instant(z, cand(d)) \in Int
                        /\ Showing(z, d * SlotsPerDay + W) = Instant(z, cand(d))
    <2> SUFFICES ASSUME NEW d \in Days
                 PROVE  /\ d * SlotsPerDay + W \in Int
                        /\ cand(d) \in Int /\ ~Skips(z, cand(d)) /\ Instant(z, cand(d)) \in Int
                        /\ Showing(z, d * SlotsPerDay + W) = Instant(z, cand(d))
      OBVIOUS
    <2>1. d * SlotsPerDay + W \in Int
      BY <1>3, <1>4, DayUnique
    <2> QED
      BY <2>1, LocalizeShown, ShowingMeans, InstantShows
  <1>6. PICK c \in Int : /\ f = Instant(z, c)
                         /\ c = cand(Day(c))
                         /\ x <= c /\ Day(c) \in Days /\ OnDay(s, Day(c))
                         /\ \A d \in Days : OnDay(s, d) /\ x <= cand(d) => Day(c) <= d
    BY FirstCandidate
  <1>7. \A d, e \in Days : d <= e => cand(d) <= cand(e)
    <2> SUFFICES ASSUME NEW d \in Days, NEW e \in Days, d <= e PROVE cand(d) <= cand(e)
      OBVIOUS
    <2>1. d * SlotsPerDay + W <= e * SlotsPerDay + W
      <3>1. CASE d = e
        BY <1>5, <3>1
      <3>2. CASE d < e
        <4>1. d * SlotsPerDay + SlotsPerDay <= e * SlotsPerDay
          BY <1>4, <3>2, DaysApart
        <4>2. d * SlotsPerDay \in Int /\ e * SlotsPerDay \in Int /\ W \in Int
          BY <1>3, <1>4, Slots
        <4> QED
          BY <4>1, <4>2, Slots
      <3> QED
        BY <1>4, <3>1, <3>2
    <2> QED
      BY <1>5, <2>1, LocalizeShown
  <1> HIDE DEF x, W, f, cand
  <1>8. \A v, w \in Int : ~Skips(z, v) /\ ~Skips(z, w) /\ v <= w => Instant(z, v) <= Instant(z, w)
    <2> SUFFICES ASSUME NEW v \in Int, NEW w \in Int, ~Skips(z, v), ~Skips(z, w), v <= w
                 PROVE  Instant(z, v) <= Instant(z, w)
      OBVIOUS
    <2>1. Instant(z, v) \in Int /\ Instant(z, w) \in Int
      BY InstantShows
    <2>2. v < w => Instant(z, v) < Instant(z, w)
      BY InstantMonotone
    <2> QED
      BY <2>1, <2>2
  <1>9. c \in Int /\ ~Skips(z, c) /\ f \in Int
    BY <1>5, <1>6
  <1>10. t <= f
    BY <1>2, <1>6, <1>8, <1>9
  <1>11. f = Showing(z, Day(c) * SlotsPerDay + W)
    BY <1>5, <1>6
  <1>12. f \in T
    BY <1>1, <1>6, <1>9, <1>10, <1>11
  <1>13. ASSUME NEW y \in T PROVE f <= y
    <2>1. PICK d \in Days : OnDay(s, d) /\ y = Showing(z, d * SlotsPerDay + W)
      OBVIOUS
    <2>2. y = Instant(z, cand(d)) /\ y \in Int /\ t <= y
      BY <1>1, <1>5, <2>1
    <2>3. x <= cand(d)
      <3>1. ~(cand(d) < x)
        BY <1>1, <1>2, <1>5, <2>2, InstantMonotone
      <3> QED
        BY <1>2, <1>5, <3>1
    <2>4. c <= cand(d)
      BY <1>6, <1>7, <2>1, <2>3
    <2> QED
      BY <1>5, <1>6, <1>8, <1>9, <2>2, <2>4
  <1>14. T \in SUBSET Int
    BY <1>5
  <1>15. Min(T) = f
    BY <1>12, <1>13, <1>14, MinIs
  <1> QED
    BY <1>15 DEF x, W, f

\* A definition starts with the first occurrence on or after its start.
THEOREM RecurrenceFirstIsFirst == CalendarSpec => []FirstIsFirst
  <1>1. ChainIInv => FirstIsFirst
    <2> SUFFICES ASSUME ChainIInv, emitted = {}, next_run_at # Null, schedule.type # "ONCE",
                        ~Repeated(zone, start_at), ~PastMidnight
                 PROVE  next_run_at = Min({x \in {Showing(zone, d * SlotsPerDay + Wall) :
                                                    d \in {y \in Days : OnDay(schedule, y)}} : x >= start_at})
      BY DEF FirstIsFirst
    <2>1. next_run_at = FirstScheduleOccurrence(zone, schedule, start_at)
          /\ zone \in Zones /\ schedule \in Schedules /\ start_at \in Starts
      BY DEF ChainIInv, BeginsWithFirst, Columns
    <2>2. ~Crosses(zone, TimeOfDay(Local(zone, start_at)))
      BY MidnightMeans DEF Wall
    <2> QED
      BY <2>1, <2>2, FirstIsEarliest DEF Wall
  <1> QED
    BY <1>1, ChainInvariant, PTL

\* From its first occurrence on, a schedule has exactly one on each of its days.
THEOREM RecurrenceEveryDayOnce == CalendarSpec => []EveryDayOnce
  <1>1. ChainIInv => EveryDayOnce
    <2> SUFFICES ASSUME ChainIInv, schedule.type # "ONCE", Occurrences # {}, ~PastMidnight
                 PROVE  /\ {LocalDay(x) : x \in Occurrences} =
                             {d \in LocalDay(Min(Occurrences)) .. LocalDay(Max(Occurrences)) : OnDay(schedule, d)}
                        /\ \A x, y \in Occurrences : LocalDay(x) = LocalDay(y) => x = y
      BY DEF EveryDayOnce
    <2>1. zone \in Zones /\ next_run_at # Null
          /\ IsChain(zone, schedule, Wall, Occurrences, next_run_at)
      BY DEF ChainIInv, Columns, OccurrencesChain, Occurrences
    <2>2. Occurrences \in SUBSET Int /\ Max(Occurrences) = next_run_at
      BY <2>1, MaxIs DEF IsChain
    <2>3. PICK f \in Occurrences :
            /\ \A y \in Occurrences : f <= y
            /\ {LocalDay(y) : y \in Occurrences} = {d \in LocalDay(f) .. LocalDay(next_run_at) : OnDay(schedule, d)}
      BY <2>1 DEF IsChain, LocalDay
    <2>4. Min(Occurrences) = f
      BY <2>2, <2>3, MinIs
    <2>5. ASSUME NEW x \in Occurrences, NEW y \in Occurrences, LocalDay(x) = LocalDay(y) PROVE x = y
      <3>1. x \in Int /\ y \in Int /\ LocalDay(x) \in Int
        BY <2>1, <2>2, LocalShown, DayParts DEF LocalDay
      <3>2. ~(x < y) /\ ~(y < x)
        BY <2>1, <2>5, <3>1 DEF IsChain, LocalDay
      <3> QED
        BY <3>1, <3>2
    <2> QED
      BY <2>2, <2>3, <2>4, <2>5
  <1> QED
    BY <1>1, ChainInvariant, PTL

\* Occurrences keep the local time of the start, unless the clocks skip it.
THEOREM RecurrenceWallTimeKept == CalendarSpec => []WallTimeKept
  <1>1. ChainIInv => WallTimeKept
    <2> SUFFICES ASSUME ChainIInv, ~Skipped, NEW x \in Occurrences PROVE TimeOfDay(Local(zone, x)) = Wall
      BY DEF WallTimeKept
    <2>1. ~Misses(zone, Wall) /\ ~PastMidnight
      BY MidnightMeans DEF Misses, Crosses
    <2>2. CASE schedule.type = "ONCE"
      BY <2>2 DEF ChainIInv, Columns, Wall
    <2>3. CASE schedule.type # "ONCE"
      <3>1. IsChain(zone, schedule, Wall, Occurrences, next_run_at)
        BY <2>1, <2>3 DEF ChainIInv, OccurrencesChain, Occurrences
      <3> QED
        BY <2>1, <3>1 DEF IsChain, OnTime
    <2> QED
      BY <2>2, <2>3
  <1> QED
    BY <1>1, ChainInvariant, PTL

\* Two occurrences are never closer than the limit of the due offset, but for the hours a
\* clock change takes away.
THEOREM RecurrenceWorkEnds == CalendarSpec => WorkEndsBeforeNextRun
  <1>1. ChainIInv /\ [CalendarNext]_calendarVars => [next_run_at # Null /\ next_run_at' # Null /\ ~PastMidnight =>
          next_run_at' - next_run_at + zone.shift >= FrequencyLimit(schedule)]_calendarVars
    <2> SUFFICES ASSUME ChainIInv, CalendarNext, next_run_at # Null, next_run_at' # Null, ~PastMidnight
                 PROVE  next_run_at' - next_run_at + zone.shift >= FrequencyLimit(schedule)
      OBVIOUS
    <2>1. /\ next_run_at <= LastStart
          /\ next_run_at' = NextScheduleOccurrence(zone, schedule, next_run_at)
          /\ zone \in Zones /\ schedule \in Schedules
      BY DEF CalendarNext, CreateDefinition, Emit, ChainIInv, Columns
    <2>2. schedule.type # "ONCE"
      BY <2>1 DEF NextScheduleOccurrence
    <2>3. next_run_at \in Int /\ IsChain(zone, schedule, Wall, Occurrences, next_run_at)
      BY <2>2 DEF ChainIInv, OccurrencesChain
    <2>4. /\ next_run_at' \in Int /\ FrequencyLimit(schedule) \in Int
          /\ FrequencyLimit(schedule) <= next_run_at' - next_run_at + zone.shift
      BY <2>1, <2>2, <2>3, MidnightMeans, ChainGrows
    <2> QED
      BY <2>1, <2>3, <2>4, ZoneFacts
  <1> QED
    BY <1>1, ChainInvariant, PTL DEF CalendarSpec, WorkEndsBeforeNextRun

\* A search raises only where the time of the schedule moves to the next day: any other
\* definition can be created, and has a next occurrence.
THEOREM RecurrenceSearchSucceeds ==
  CalendarSpec => [](PastMidnight \/ (NextIsFound /\ ~Raises(zone, schedule, Local(zone, start_at), 0 .. 7)))
  <1>1. ChainIInv => PastMidnight \/ (NextIsFound /\ ~Raises(zone, schedule, Local(zone, start_at), 0 .. 7))
    <2> SUFFICES ASSUME ChainIInv, ~PastMidnight
                 PROVE  NextIsFound /\ ~Raises(zone, schedule, Local(zone, start_at), 0 .. 7)
      OBVIOUS
    <2>1. zone \in Zones /\ schedule \in Schedules /\ start_at \in Int /\ ~Crosses(zone, Wall)
      BY CalendarAssumption, MidnightMeans DEF ChainIInv, Columns, Starts
    <2>2. CASE schedule.type = "DAILY"
      <3>1. Local(zone, start_at) \in Int /\ OnTime(zone, Wall, TimeOfDay(Local(zone, start_at))) /\ 0 + 7 = 7
        BY <2>1, LocalShown DEF OnTime, Wall
      <3>2. ~Raises(zone, schedule, Local(zone, start_at), 0 .. 7)
        BY <2>1, <2>2, <3>1, DailySearch
      <3>3. NextIsFound
        <4> SUFFICES ASSUME next_run_at # Null PROVE ~Raises(zone, schedule, Local(zone, next_run_at), 1 .. 8)
          BY DEF NextIsFound
        <4>1. next_run_at \in Int /\ IsChain(zone, schedule, Wall, Occurrences, next_run_at)
          BY <2>2 DEF ChainIInv, OccurrencesChain
        <4> QED
          BY <2>1, <4>1, ChainGoesOn
      <3> QED
        BY <3>2, <3>3
    <2>3. CASE schedule.type # "DAILY"
      BY <2>3 DEF NextIsFound, Raises
    <2> QED
      BY <2>2, <2>3
  <1> QED
    BY <1>1, ChainInvariant, PTL
=============================================================================
