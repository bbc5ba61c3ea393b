------------------------- MODULE UploadQueueProofs -------------------------
(***************************************************************************)
(* Proofs about UploadQueue, for any number of jobs, slots, chunks and     *)
(* sessions.                                                               *)
(*                                                                         *)
(* The slots suffice because the effect counts the jobs in `running`, not  *)
(* those in flight, and every invocation in flight has its place there     *)
(* (Fits); on what list it decides does not matter.  A file is published   *)
(* once because a job only ever works on one session that may have stored  *)
(* something (OneSession), and the session that published is never active  *)
(* again (Spent): what a lost answer hides from the browser, the next      *)
(* query of the same session tells it.                                     *)
(***************************************************************************)
EXTENDS UploadQueue, FiniteSetTheorems, SequenceTheorems, WellFoundedInduction, TLAPS

RunType == [pc : {"none", "open", "chunk", "complete"}, id : Nat, acknowledged : Nat, aborted : BOOLEAN]
Phases == {"none", "queued", "uploading", "paused", "failed", "completed", "cancelling"}
SessionType == [state : {"none", "active", "done", "lost", "gone"}, got : Nat]
SlotType == [running : SUBSET Jobs, run : [Jobs -> RunType], phase : [Jobs -> Phases]]

\* What the effect works on.
Slots == [running |-> running, run |-> run, phase |-> phase]

\* The variables as functions, sequences and sets.
Shape ==
  /\ Slots \in SlotType
  /\ list \in Seq(Jobs) /\ view \in Seq(Jobs)
  /\ uploadId \in [Jobs -> Nat] /\ deleting \in [Jobs -> Nat]
  /\ published \in [Jobs -> {0, 1}]
  /\ session = [j \in Jobs |-> session[j]]
  /\ \A j \in Jobs : session[j] \in [Ids(j) -> SessionType]

\* The slots suffice for the invocations in flight.
Fits(b) ==
  /\ IsFiniteSet(b.running) /\ Cardinality(b.running) <= MAX_CONCURRENT_UPLOADS
  /\ \A j \in Jobs : b.run[j].pc # "none" => j \in b.running

\* The list holds the jobs that have a phase, once.
ListFits(l, p) ==
  /\ IsInjective(l)
  /\ \A j \in Jobs : (\E i \in DOMAIN l : l[i] = j) <=> p[j] # "none"

\* An invocation q of job j: its session and how far it is.
RunFits(j, q) ==
  /\ q.id \in Ids(j) \cup {0} /\ q.acknowledged \in 0 .. Chunks[j]
  /\ q.pc = "none" => q.id = 0
  /\ q.pc \in {"chunk", "complete"} => q.id # 0
  /\ q.pc = "chunk" => q.acknowledged < Chunks[j]

\* The invocation works on the session that the job knows, unless the job was cancelled
\* (C) before there was one; such a job has left the list.
OneSession(j, q, phs, C) ==
  /\ q.pc # "none" /\ q.id = 0 => uploadId[j] = 0
  /\ q.id # 0 => q.id = uploadId[j] \/ (uploadId[j] = 0 /\ j \in C)
  /\ j \in C /\ uploadId[j] = 0 => phs = "none"

\* A job whose file was published has no session left that could publish it again.
Spent(j, q, phs) ==
  published[j] = 1 =>
    /\ uploadId[j] # 0 \/ phs = "none"
    /\ q.pc # "none" => q.id # 0
    /\ uploadId[j] # 0 => session[j][uploadId[j]].state # "active"
    /\ q.id # 0 => session[j][q.id].state # "active"

\* Sessions and phases do not say that a file was published that was not.
Honest(j, phs) ==
  /\ phs = "completed" => published[j] = 1
  /\ \A s \in Ids(j) : session[j][s].state = "done" => published[j] = 1

\* Sessions that are known, deleted or stored are the job's own.
Known(j) ==
  /\ uploadId[j] \in Ids(j) \cup {0} /\ deleting[j] \in Ids(j) \cup {0}
  /\ \A s \in Ids(j) : session[j][s].got \in 0 .. Chunks[j]
StraysKnown == \A d \in strays : d[1] \in Jobs /\ d[2] \in Ids(d[1])

JobFits(j, q, phs, C) == RunFits(j, q) /\ OneSession(j, q, phs, C) /\ Spent(j, q, phs) /\ Honest(j, phs)

JobsFit == \A j \in Jobs : Known(j) /\ JobFits(j, run[j], phase[j], cancelled)
Others == cancelled \subseteq Jobs /\ StraysKnown

IInv == Shape /\ Fits(Slots) /\ ListFits(list, phase) /\ JobsFit /\ Others
-----------------------------------------------------------------------------
(* Filter *)

Below == {p \in Nat \X Nat : p[1] < p[2]}

\* A set of numbers has a least element.
LEMMA Least ==
  ASSUME NEW T, T \subseteq Nat, T # {}
  PROVE  \E m \in T : \A n \in T : m <= n
<1>1. IsWellFoundedOn(Below, Nat)
  BY NatLessThanWellFounded DEF OpToRel, Below
<1>2. PICK m \in T : \A n \in T : ~ (<<n, m>> \in Below)
  BY <1>1, WFMin
<1>3. \A n \in T : n < m => <<n, m>> \in Below
  BY DEF Below
<1>4. ASSUME NEW n \in T PROVE m <= n
  <2>1. m \in Nat /\ n \in Nat /\ ~(n < m)
    BY <1>2, <1>3
  <2> QED BY <2>1
<1> QED BY <1>4

\* f holds what is kept of the first i elements of s, for i up to n.
Keeps(f, s, S, n) ==
  f = [i \in 0 .. n |-> IF i = 0 THEN <<>>
                        ELSE IF s[i] \in S THEN Append(f[i - 1], s[i]) ELSE f[i - 1]]

\* The function that Filter defines by recursion exists: the shortest prefix without
\* one would only have to extend that of the prefix before it.
LEMMA KeptExists ==
  ASSUME NEW J, NEW s \in Seq(J), NEW S
  PROVE  \E f : Keeps(f, s, S, Len(s))
<1> DEFINE Bad == {n \in Nat : ~ \E f : Keeps(f, s, S, n)}
<1>1. SUFFICES ASSUME Bad # {} PROVE FALSE
  BY LenProperties
<1>2. PICK m \in Bad : \A n \in Bad : m <= n
  BY <1>1, Least
<1>3. m \in Nat
  OBVIOUS
<1>4. CASE m = 0
  <2>1. Keeps([i \in 0 .. 0 |-> <<>>], s, S, 0)
    BY DEF Keeps
  <2> QED
    BY <1>4, <2>1
<1>5. CASE m # 0
  <2>1. m - 1 \in Nat /\ m - 1 \notin Bad
    BY <1>2, <1>3, <1>5
  <2>2. PICK f : Keeps(f, s, S, m - 1)
    BY <2>1
  <2> DEFINE last == IF s[m] \in S THEN Append(f[m - 1], s[m]) ELSE f[m - 1]
             g == [i \in 0 .. m |-> IF i < m THEN f[i] ELSE last]
  <2>3. \A i \in 0 .. m - 1 : f[i] = IF i = 0 THEN <<>>
                                     ELSE IF s[i] \in S THEN Append(f[i - 1], s[i]) ELSE f[i - 1]
    BY <2>2, Zenon DEF Keeps
  <2>4. ASSUME NEW i \in 0 .. m
        PROVE  g[i] = IF i = 0 THEN <<>>
                      ELSE IF s[i] \in S THEN Append(g[i - 1], s[i]) ELSE g[i - 1]
    <3>1. CASE i = m
      <4>1. g[i] = last /\ g[i - 1] = f[m - 1]
        BY <1>3, <1>5, <3>1
      <4> QED
        BY <1>5, <3>1, <4>1
    <3>2. CASE i < m /\ i # 0
      <4>1. g[i] = f[i] /\ g[i - 1] = f[i - 1] /\ i \in 0 .. m - 1
        BY <1>3, <3>2
      <4> HIDE DEF g
      <4> QED
        BY <2>3, <3>2, <4>1
    <3>3. CASE i < m /\ i = 0
      <4>1. g[i] = f[i] /\ i \in 0 .. m - 1
        BY <1>3, <3>3
      <4> HIDE DEF g
      <4> QED
        BY <2>3, <3>3, <4>1
    <3> QED
      BY <1>3, <3>1, <3>2, <3>3
  <2>5. g = [i \in 0 .. m |-> g[i]]
    OBVIOUS
  <2> HIDE DEF g
  <2>6. Keeps(g, s, S, m)
    BY <2>4, <2>5, Zenon DEF Keeps
  <2> QED
    BY <2>6
<1> QED
  BY <1>4, <1>5

\* What Filter returns: of the elements of s those in S, once each if s has them once.
LEMMA FilterFacts ==
  ASSUME NEW J, NEW s \in Seq(J), NEW S
  PROVE  /\ Filter(s, S) \in Seq(J)
         /\ \A x : (\E i \in DOMAIN Filter(s, S) : Filter(s, S)[i] = x)
                     <=> x \in S /\ \E i \in DOMAIN s : s[i] = x
         /\ IsInjective(s) => IsInjective(Filter(s, S))
<1> DEFINE f == CHOOSE f : Keeps(f, s, S, Len(s))
           In(t, x) == \E i \in DOMAIN t : t[i] = x
           Good(n) == /\ f[n] \in Seq(J)
                      /\ \A x : In(f[n], x) <=> x \in S /\ \E i \in 1 .. n : s[i] = x
                      /\ IsInjective(s) => IsInjective(f[n])
           Bad == {n \in Nat : n <= Len(s) /\ ~Good(n)}
<1>1. Filter(s, S) = f[Len(s)]
  BY Zenon DEF Filter, Keeps
<1>2. Keeps(f, s, S, Len(s))
  BY KeptExists, Zenon
<1>3. Len(s) \in Nat /\ DOMAIN s = 1 .. Len(s)
  BY LenProperties
<1> HIDE DEF f
<1>4. \A i \in 0 .. Len(s) : f[i] = IF i = 0 THEN <<>>
                                    ELSE IF s[i] \in S THEN Append(f[i - 1], s[i]) ELSE f[i - 1]
  BY <1>2, Zenon DEF Keeps
<1>5. ASSUME Bad # {} PROVE FALSE
  <2>1. PICK m \in Bad : \A n \in Bad : m <= n
    BY <1>5, Least
  <2>2. m \in Nat /\ m <= Len(s) /\ ~Good(m)
    OBVIOUS
  <2>3. CASE m = 0
    <3>1. f[m] = <<>> /\ Len(<<>>) = 0
      BY <1>3, <1>4, <2>2, <2>3
    <3> QED
      BY <2>2, <2>3, <3>1 DEF IsInjective
  <2>4. CASE m # 0
    <3> DEFINE t == f[m - 1]
    <3>1. m - 1 \in Nat /\ m - 1 <= Len(s) /\ ~(m <= m - 1)
      BY <1>3, <2>2, <2>4
    <3>2. Good(m - 1)
      <4> HIDE DEF Good
      <4> QED
        BY <2>1, <3>1
    <3>3. m \in 1 .. Len(s) /\ s[m] \in J /\ m \in 0 .. Len(s)
      BY <1>3, <2>2, <2>4, ElementOfSeq
    <3>4. f[m] = IF s[m] \in S THEN Append(t, s[m]) ELSE t
      BY <1>4, <2>4, <3>3
    <3>5. t \in Seq(J) /\ DOMAIN t = 1 .. Len(t) /\ Len(t) \in Nat
      BY <3>2, LenProperties
    <3>6. \A x : In(t, x) <=> x \in S /\ \E i \in 1 .. m - 1 : s[i] = x
      BY <3>2
    <3>7. \A x : (\E i \in 1 .. m : s[i] = x) <=> (\E i \in 1 .. m - 1 : s[i] = x) \/ s[m] = x
      BY <2>2, <2>4
    <3>8. CASE s[m] \notin S
      <4>1. f[m] = t
        BY <3>4, <3>8
      <4>2. \A x : In(f[m], x) <=> x \in S /\ \E i \in 1 .. m : s[i] = x
        BY <3>6, <3>7, <3>8, <4>1
      <4> QED
        BY <2>2, <3>2, <3>5, <4>1, <4>2
    <3>9. CASE s[m] \in S
      <4> DEFINE u == Append(t, s[m])
      <4>1. f[m] = u
        BY <3>4, <3>9
      <4>2. /\ u \in Seq(J) /\ Len(u) = Len(t) + 1
            /\ \A i \in 1 .. Len(t) : u[i] = t[i]
            /\ u[Len(t) + 1] = s[m]
            /\ DOMAIN u = 1 .. Len(t) + 1
        BY <3>3, <3>5
      <4> HIDE DEF u
      <4>3. \A x : In(u, x) <=> In(t, x) \/ s[m] = x
        <5>1. \A i : i \in DOMAIN u <=> i \in DOMAIN t \/ i = Len(t) + 1
          BY <3>5, <4>2
        <5>2. \A i \in DOMAIN t : u[i] = t[i]
          BY <3>5, <4>2
        <5> QED
          BY <4>2, <5>1, <5>2, Zenon
      <4>4. \A x : In(u, x) <=> x \in S /\ \E i \in 1 .. m : s[i] = x
        BY <3>6, <3>7, <3>9, <4>3
      <4>5. ASSUME IsInjective(s) PROVE IsInjective(u)
        <5>1. ~ \E i \in 1 .. m - 1 : s[i] = s[m]
          BY <1>3, <3>3, <4>5 DEF IsInjective
        <5>2. ~ In(t, s[m])
          BY <3>6, <5>1
        <5>3. IsInjective(t)
          BY <3>2, <4>5
        <5>4. ASSUME NEW a \in DOMAIN u, NEW b \in DOMAIN u, u[a] = u[b] PROVE a = b
          <6>1. \A i \in DOMAIN u : (i \in DOMAIN t /\ u[i] = t[i]) \/ i = Len(t) + 1
            BY <3>5, <4>2
          <6>2. \A i \in DOMAIN t : t[i] # s[m]
            BY <5>2
          <6> QED
            BY <4>2, <5>3, <5>4, <6>1, <6>2 DEF IsInjective
        <5> QED
          BY <5>4 DEF IsInjective
      <4> QED
        BY <2>2, <4>1, <4>2, <4>4, <4>5
    <3> QED
      BY <3>8, <3>9
  <2> QED
    BY <2>3, <2>4
<1>6. Good(Len(s))
  <2> HIDE DEF Good
  <2> QED
    BY <1>3, <1>5
<1> QED
  BY <1>1, <1>3, <1>6
-----------------------------------------------------------------------------
(* The parts of a state *)

\* What the effect works on are the three variables.
LEMMA SlotsFacts ==
  /\ Slots.running = running /\ Slots.run = run /\ Slots.phase = phase
  /\ Slots \in SlotType <=> running \subseteq Jobs /\ run \in [Jobs -> RunType] /\ phase \in [Jobs -> Phases]
BY DEF Slots, SlotType

\* The records of an invocation.
LEMMA RunFacts ==
  /\ NoRun \in RunType /\ NoRun.pc = "none" /\ NoRun.id = 0 /\ NoRun.acknowledged = 0
  /\ \A id \in Nat : /\ NewRun(id) \in RunType /\ NewRun(id).pc = "open"
                     /\ NewRun(id).id = id /\ NewRun(id).acknowledged = 0
BY DEF NoRun, NewRun, RunType

\* The constants and what is derived from them.
LEMMA BoundFacts ==
  ASSUME NEW j \in Jobs
  PROVE  Chunks[j] \in Nat /\ MaxSessions[j] \in Nat /\ Ids(j) \subseteq Nat \ {0}
BY QueueAssumption DEF Ids

\* The type invariant follows.
LEMMA TypeFollows == IInv => TypeOK
<1> SUFFICES ASSUME IInv PROVE TypeOK
  OBVIOUS
<1>1. running \subseteq Jobs /\ run \in [Jobs -> RunType] /\ phase \in [Jobs -> Phases]
  BY SlotsFacts DEF IInv, Shape
<1>2. \A j \in Jobs : InFlight(j) => j \in running
  BY SlotsFacts DEF IInv, Fits, InFlight
<1>3. \A j \in Jobs : run[j].pc \in {"none", "open", "chunk", "complete"} /\ run[j].acknowledged \in 0 .. Chunks[j]
  BY <1>1 DEF IInv, JobsFit, JobFits, RunFits, RunType
<1> QED
  BY <1>1, <1>2, <1>3 DEF TypeOK, IInv, ListFits, Listed, JobsFit, Known, Others, StraysKnown, Phases

\* The invariant holds at first.
LEMMA InitIInv == Init => IInv
<1> SUFFICES ASSUME Init PROVE IInv
  OBVIOUS
<1>1. Slots \in SlotType
  BY SlotsFacts, RunFacts DEF Init, Phases
<1>2. [state |-> "none", got |-> 0] \in SessionType
  BY DEF SessionType
<1>3. Shape
  <2>1. \A j \in Jobs : session[j] = [s \in Ids(j) |-> [state |-> "none", got |-> 0]]
    BY DEF Init
  <2>2. session = [j \in Jobs |-> session[j]] /\ \A j \in Jobs : session[j] \in [Ids(j) -> SessionType]
    BY <1>2, <2>1 DEF Init
  <2> QED
    BY <1>1, <2>2 DEF Init, Shape
<1>4. Fits(Slots)
  BY SlotsFacts, RunFacts, FS_EmptySet, QueueAssumption DEF Init, Fits
<1>5. ListFits(list, phase)
  BY DEF Init, ListFits, IsInjective
<1>6. Others
  BY DEF Init, Others, StraysKnown
<1>7. ASSUME NEW j \in Jobs PROVE Known(j) /\ JobFits(j, run[j], phase[j], cancelled)
  BY RunFacts, BoundFacts DEF Init, Known, JobFits, RunFits, OneSession, Spent, Honest
<1> QED
  BY <1>3, <1>4, <1>5, <1>6, <1>7 DEF IInv, JobsFit
-----------------------------------------------------------------------------
(* The effect *)

\* The effect starts at most as many jobs as there are free slots.
LEMMA NextFits ==
  ASSUME NEW R, IsFiniteSet(R), Cardinality(R) <= MAX_CONCURRENT_UPLOADS,
         NEW w \in Seq(Jobs),
         NEW N, N = {w[i] : i \in {k \in DOMAIN w : k <= MAX_CONCURRENT_UPLOADS - Cardinality(R)}}
  PROVE  IsFiniteSet(R \cup N) /\ Cardinality(R \cup N) <= MAX_CONCURRENT_UPLOADS
<1> DEFINE free == MAX_CONCURRENT_UPLOADS - Cardinality(R)
           K == {k \in DOMAIN w : k <= free}
<1>1. free \in Nat /\ Cardinality(R) \in Nat /\ MAX_CONCURRENT_UPLOADS \in Nat
  BY FS_CardinalityType, QueueAssumption
<1>2. K \subseteq 1 .. free
  BY <1>1, LenProperties
<1>3. IsFiniteSet(1 .. free) /\ Cardinality(1 .. free) = free
  BY <1>1, FS_Interval
<1>4. IsFiniteSet(K) /\ Cardinality(K) <= free
  <2> HIDE DEF K, free
  <2> QED
    BY <1>2, <1>3, FS_Subset
<1>5. N = {w[i] : i \in K}
  OBVIOUS
<1>6. IsFiniteSet(N) /\ Cardinality(N) <= Cardinality(K)
  <2> DEFINE g == [i \in K |-> w[i]]
  <2>1. g \in Surjection(K, N)
    BY <1>5 DEF Surjection
  <2> QED
    BY <1>4, <2>1, FS_Surjection
<1>7. /\ IsFiniteSet(R \cup N) /\ IsFiniteSet(R \cap N)
      /\ Cardinality(R \cup N) = Cardinality(R) + Cardinality(N) - Cardinality(R \cap N)
  BY <1>6, FS_Union, FS_Intersection
<1>8. Cardinality(N) \in Nat /\ Cardinality(K) \in Nat /\ Cardinality(R \cap N) \in Nat
  BY <1>4, <1>6, <1>7, FS_CardinalityType
<1> QED
  BY <1>1, <1>4, <1>6, <1>7, <1>8

\* What the effect does: no slot too many, and a job it starts is in the list and was
\* not in flight.
LEMMA StartedFacts ==
  ASSUME uploadId \in [Jobs -> Nat], NEW b \in SlotType, Fits(b), NEW queued \in Seq(Jobs)
  PROVE  /\ Started(b, queued) \in SlotType
         /\ Fits(Started(b, queued))
         /\ \A j \in Jobs :
              \/ Started(b, queued).run[j] = b.run[j] /\ Started(b, queued).phase[j] = b.phase[j]
              \/ /\ b.phase[j] # "none" /\ b.run[j].pc = "none"
                 /\ Started(b, queued).run[j] = NewRun(uploadId[j])
                 /\ Started(b, queued).phase[j] = "uploading"
<1> DEFINE w == Filter(queued, Jobs \ b.running)
           N == {w[i] : i \in {k \in DOMAIN w : k <= MAX_CONCURRENT_UPLOADS - Cardinality(b.running)}}
           found == {j \in N : b.phase[j] # "none"}
           R == b.running \cup N
           run1 == [j \in Jobs |-> IF j \in found THEN NewRun(uploadId[j]) ELSE b.run[j]]
           phase1 == [j \in Jobs |-> IF j \in found THEN "uploading" ELSE b.phase[j]]
           c == [running |-> R, run |-> run1, phase |-> phase1]
<1>1. b.running \subseteq Jobs /\ b.run \in [Jobs -> RunType] /\ b.phase \in [Jobs -> Phases]
      /\ b = [running |-> b.running, run |-> b.run, phase |-> b.phase]
  BY DEF SlotType
<1>2. Started(b, queued) = c
  <2>1. Started(b, queued) = [b EXCEPT !.running = R, !.run = run1, !.phase = phase1]
    BY Zenon DEF Started
  <2> HIDE DEF R, run1, phase1
  <2> QED
    BY <1>1, <2>1
<1>3. w \in Seq(Jobs) /\ \A i \in DOMAIN w : w[i] \in Jobs \ b.running
  BY FilterFacts
<1> HIDE DEF w
<1>4. N \subseteq Jobs \ b.running
  BY <1>3
<1>5. IsFiniteSet(R) /\ Cardinality(R) <= MAX_CONCURRENT_UPLOADS
  BY <1>3, NextFits DEF Fits
<1> HIDE DEF N
<1>6. run1 \in [Jobs -> RunType] /\ phase1 \in [Jobs -> Phases]
  BY <1>1, RunFacts DEF Phases
<1>7. \A j \in Jobs : /\ j \in found => run1[j] = NewRun(uploadId[j]) /\ phase1[j] = "uploading"
                      /\ j \notin found => run1[j] = b.run[j] /\ phase1[j] = b.phase[j]
  OBVIOUS
<1>8. R \subseteq Jobs /\ found \subseteq N
  BY <1>1, <1>4
<1>9. \A j \in Jobs : j \in found => b.phase[j] # "none" /\ b.run[j].pc = "none" /\ j \in R
  BY <1>4 DEF Fits
<1>10. \A j \in Jobs : b.run[j].pc # "none" => j \in R
  BY DEF Fits
<1> HIDE DEF found, R, run1, phase1
<1>11. c \in SlotType /\ c.running = R /\ c.run = run1 /\ c.phase = phase1
  BY <1>6, <1>8 DEF SlotType
<1>12. Fits(c)
  BY <1>5, <1>7, <1>9, <1>10, <1>11 DEF Fits
<1> HIDE DEF c
<1> QED
  BY <1>2, <1>7, <1>9, <1>11, <1>12

\* A job in the list fits once it is started.
LEMMA StartedFits ==
  ASSUME NEW j \in Jobs, NEW q, NEW p, NEW C, p # "none",
         uploadId[j] \in Nat, Known(j), JobFits(j, q, p, C)
  PROVE  JobFits(j, NewRun(uploadId[j]), "uploading", C)
<1>1. /\ NewRun(uploadId[j]).pc = "open" /\ NewRun(uploadId[j]).id = uploadId[j]
      /\ NewRun(uploadId[j]).acknowledged = 0
  BY RunFacts
<1>2. RunFits(j, NewRun(uploadId[j]))
  BY <1>1, BoundFacts DEF Known, RunFits
<1>3. OneSession(j, NewRun(uploadId[j]), "uploading", C)
  BY <1>1 DEF JobFits, OneSession
<1>4. Spent(j, NewRun(uploadId[j]), "uploading")
  BY <1>1 DEF JobFits, Spent
<1>5. Honest(j, "uploading")
  BY DEF JobFits, Honest
<1> QED
  BY <1>2, <1>3, <1>4, <1>5 DEF JobFits

\* The effect keeps what the invariant says of the slots, the list and the jobs.
LEMMA EffectKeeps ==
  ASSUME uploadId \in [Jobs -> Nat], NEW b \in SlotType, Fits(b), NEW queued \in Seq(Jobs),
         NEW l, ListFits(l, b.phase), NEW C,
         \A j \in Jobs : Known(j) /\ JobFits(j, b.run[j], b.phase[j], C)
  PROVE  /\ Started(b, queued) \in SlotType
         /\ Fits(Started(b, queued))
         /\ ListFits(l, Started(b, queued).phase)
         /\ \A j \in Jobs : JobFits(j, Started(b, queued).run[j], Started(b, queued).phase[j], C)
<1> DEFINE c == Started(b, queued)
<1>1. /\ c \in SlotType /\ Fits(c)
      /\ \A j \in Jobs : \/ c.run[j] = b.run[j] /\ c.phase[j] = b.phase[j]
                         \/ /\ b.phase[j] # "none" /\ b.run[j].pc = "none"
                            /\ c.run[j] = NewRun(uploadId[j]) /\ c.phase[j] = "uploading"
  BY StartedFacts
<1> HIDE DEF c
<1>2. ListFits(l, c.phase)
  BY <1>1 DEF ListFits
<1>3. \A j \in Jobs : JobFits(j, c.run[j], c.phase[j], C)
  BY <1>1, StartedFits
<1> QED
  BY <1>1, <1>2, <1>3 DEF c
-----------------------------------------------------------------------------
(* Rendering and clicks *)

\* A job that no step of the backend touched fits as before.
LEMMA FitsStill ==
  ASSUME NEW j \in Jobs, NEW q, NEW p, NEW C,
         uploadId'[j] = uploadId[j], session'[j] = session[j], published'[j] = published[j],
         JobFits(j, q, p, C)
  PROVE  JobFits(j, q, p, C)'
BY DEF JobFits, RunFits, OneSession, Spent, Honest

\* Nor does the job know other sessions than before.
LEMMA KnownStill ==
  ASSUME NEW j \in Jobs, uploadId'[j] = uploadId[j], session'[j] = session[j],
         deleting'[j] \in Ids(j) \cup {0}, Known(j)
  PROVE  Known(j)'
BY DEF Known

\* A filtered list holds jobs.
LEMMA QueuedType ==
  ASSUME NEW l \in Seq(Jobs), NEW p
  PROVE  Queued(l, p) \in Seq(Jobs)
BY FilterFacts DEF Queued

\* Render: only the effect's list is new.
LEMMA RenderStep == ASSUME IInv, Render PROVE IInv'
<1>1. UNCHANGED <<list, phase, uploadId, running, run, cancelled, deleting, strays, session, published>>
      /\ view' = Queued(list, phase)
  BY DEF Render, browser, backend
<1>2. Slots' = Slots
  BY <1>1 DEF Slots
<1>3. Shape'
  BY <1>1, <1>2, QueuedType DEF IInv, Shape
<1>4. Fits(Slots)' /\ ListFits(list, phase)' /\ Others'
  BY <1>1, <1>2 DEF IInv, Fits, ListFits, Others, StraysKnown
<1>5. ASSUME NEW j \in Jobs PROVE Known(j)' /\ JobFits(j, run[j], phase[j], cancelled)'
  BY <1>1 DEF IInv, JobsFit, Known, JobFits, RunFits, OneSession, Spent, Honest
<1> QED
  BY <1>3, <1>4, <1>5 DEF IInv, JobsFit

\* A step of the browser alone keeps the invariant if the new slots, phases and runs fit.
LEMMA BrowserStep ==
  ASSUME IInv, NEW c \in SlotType, NEW C \in SUBSET Jobs,
         Fits(c), running' = c.running, run' = c.run, phase' = c.phase, cancelled' = C,
         list' \in Seq(Jobs), view' \in Seq(Jobs), ListFits(list', c.phase),
         deleting' \in [Jobs -> Nat], \A j \in Jobs : deleting'[j] \in Ids(j) \cup {0},
         UNCHANGED <<uploadId, strays, session, published>>,
         \A j \in Jobs : JobFits(j, c.run[j], c.phase[j], C)
  PROVE  IInv'
<1>1. Slots' = c
  BY DEF Slots, SlotType
<1>2. Shape'
  BY <1>1 DEF IInv, Shape
<1>3. Fits(Slots)'
  <2>1. Fits(Slots') <=> Fits(Slots)'
    BY DEF Fits
  <2> QED
    BY <1>1, <2>1
<1>4. ListFits(list, phase)'
  BY DEF ListFits
<1>5. Others'
  BY DEF IInv, Others, StraysKnown
<1>6. ASSUME NEW j \in Jobs PROVE Known(j)' /\ JobFits(j, run[j], phase[j], cancelled)'
  <2>1. Known(j)'
    BY KnownStill DEF IInv, JobsFit
  <2>2. JobFits(j, c.run[j], c.phase[j], C)'
    BY FitsStill
  <2> QED
    BY <2>1, <2>2
<1> QED
  BY <1>2, <1>3, <1>4, <1>5, <1>6 DEF IInv, JobsFit

\* What the invariant says of the present slots.
LEMMA SlotsFit ==
  ASSUME IInv
  PROVE  /\ Slots \in SlotType /\ Fits(Slots) /\ ListFits(list, Slots.phase)
         /\ running \subseteq Jobs /\ run \in [Jobs -> RunType] /\ phase \in [Jobs -> Phases]
         /\ uploadId \in [Jobs -> Nat] /\ list \in Seq(Jobs) /\ view \in Seq(Jobs)
         /\ deleting \in [Jobs -> Nat] /\ \A j \in Jobs : deleting[j] \in Ids(j) \cup {0}
         /\ cancelled \in SUBSET Jobs
         /\ \A j \in Jobs : Known(j) /\ JobFits(j, run[j], phase[j], cancelled)
         /\ \A j \in Jobs : Known(j) /\ JobFits(j, Slots.run[j], Slots.phase[j], cancelled)
<1>1. /\ Slots \in SlotType /\ Fits(Slots) /\ ListFits(list, Slots.phase)
      /\ running \subseteq Jobs /\ run \in [Jobs -> RunType] /\ phase \in [Jobs -> Phases]
      /\ uploadId \in [Jobs -> Nat] /\ list \in Seq(Jobs) /\ view \in Seq(Jobs)
      /\ deleting \in [Jobs -> Nat] /\ cancelled \in SUBSET Jobs
  BY SlotsFacts DEF IInv, Shape, Others
<1>2. \A j \in Jobs : Known(j) /\ JobFits(j, run[j], phase[j], cancelled)
  BY DEF IInv, JobsFit
<1>3. \A j \in Jobs : deleting[j] \in Ids(j) \cup {0}
  BY DEF IInv, JobsFit, Known
<1> QED
  BY <1>1, <1>2, <1>3, SlotsFacts

\* RunEffect: on whatever list, the effect takes free slots only.
LEMMA RunEffectStep == ASSUME IInv, RunEffect PROVE IInv'
<1>1. PICK c \in SlotType : c = Started(Slots, view)
  BY SlotsFit, EffectKeeps
<1>2. /\ Fits(c) /\ ListFits(list, c.phase)
      /\ \A j \in Jobs : JobFits(j, c.run[j], c.phase[j], cancelled)
  BY <1>1, SlotsFit, EffectKeeps
<1>3. /\ running' = c.running /\ run' = c.run /\ phase' = c.phase
      /\ UNCHANGED <<list, uploadId, cancelled, deleting, strays, view, session, published>>
  BY <1>1 DEF RunEffect, Slots, backend
<1> QED
  BY <1>2, <1>3, SlotsFit, BrowserStep

\* Click: what the handler leaves fits, and so does what the overdue effect and the
\* effect of the new render make of it.
LEMMA ClickStep ==
  ASSUME IInv, NEW l \in Seq(Jobs), NEW p \in [Jobs -> Phases], NEW r \in [Jobs -> RunType],
         NEW C \in SUBSET Jobs,
         Click(l, p, r), cancelled' = C,
         deleting' \in [Jobs -> Nat], \A j \in Jobs : deleting'[j] \in Ids(j) \cup {0},
         UNCHANGED <<uploadId, strays, session, published>>,
         ListFits(l, p), \A j \in Jobs : r[j].pc = run[j].pc,
         \A j \in Jobs : JobFits(j, r[j], p[j], C)
  PROVE  IInv'
<1> DEFINE b == [running |-> running, run |-> r, phase |-> p]
           c == IF effect THEN Started(b, view) ELSE b
           d == Started(c, Queued(l, c.phase))
<1>1. b \in SlotType /\ b.running = running /\ b.run = r /\ b.phase = p
  BY SlotsFit DEF SlotType
<1>2. /\ running' = d.running /\ run' = d.run /\ phase' = d.phase
      /\ list' = l /\ view' = Queued(l, c.phase)
  BY DEF Click
<1> HIDE DEF b
<1>3. Fits(b) /\ ListFits(l, b.phase) /\ \A j \in Jobs : JobFits(j, b.run[j], b.phase[j], C)
  BY <1>1, SlotsFacts DEF IInv, Fits
<1>4. /\ c \in SlotType /\ Fits(c) /\ ListFits(l, c.phase)
      /\ \A j \in Jobs : JobFits(j, c.run[j], c.phase[j], C)
  <2>1. CASE effect
    BY <1>1, <1>3, <2>1, SlotsFit, EffectKeeps
  <2>2. CASE ~effect
    BY <1>1, <1>3, <2>2
  <2> QED
    BY <2>1, <2>2
<1> HIDE DEF c
<1>5. Queued(l, c.phase) \in Seq(Jobs)
  BY QueuedType
<1>6. /\ d \in SlotType /\ Fits(d) /\ ListFits(l, d.phase)
      /\ \A j \in Jobs : JobFits(j, d.run[j], d.phase[j], C)
  BY <1>4, <1>5, SlotsFit, EffectKeeps
<1> HIDE DEF d
<1>7. ListFits(list', d.phase)
  BY <1>2, <1>6
<1> QED
  BY <1>2, <1>5, <1>6, <1>7, BrowserStep

\* A job stays fit if a click gives it another phase, cancels it or aborts its request.
LEMMA Remark ==
  ASSUME NEW j \in Jobs, NEW q, NEW p, NEW C, JobFits(j, q, p, C),
         NEW q2, q2.pc = q.pc, q2.id = q.id, q2.acknowledged = q.acknowledged,
         NEW v, NEW D, j \in C => j \in D,
         j \in D /\ uploadId[j] = 0 => v = "none",
         v = "completed" => p = "completed",
         published[j] = 1 /\ uploadId[j] = 0 => v = "none"
  PROVE  JobFits(j, q2, v, D)
BY DEF JobFits, RunFits, OneSession, Spent, Honest

\* Aborting touches nothing but the mark.
LEMMA AbortFacts ==
  ASSUME run \in [Jobs -> RunType], NEW S
  PROVE  /\ Abort(S) \in [Jobs -> RunType]
         /\ \A j \in Jobs : /\ Abort(S)[j].pc = run[j].pc /\ Abort(S)[j].id = run[j].id
                            /\ Abort(S)[j].acknowledged = run[j].acknowledged
<1>1. ASSUME NEW j \in Jobs
      PROVE  \E x \in BOOLEAN : Abort(S)[j] = [run[j] EXCEPT !.aborted = x]
  <2>1. (run[j].aborted \/ (j \in S /\ InFlight(j))) \in BOOLEAN
    OBVIOUS
  <2>2. Abort(S)[j] = [run[j] EXCEPT !.aborted = run[j].aborted \/ (j \in S /\ InFlight(j))]
    BY Zenon DEF Abort
  <2> QED
    BY <2>1, <2>2, Zenon
<1>2. Abort(S) = [j \in Jobs |-> Abort(S)[j]]
  BY DEF Abort
<1>3. ASSUME NEW q \in RunType, NEW x \in BOOLEAN
      PROVE  /\ [q EXCEPT !.aborted = x] \in RunType
             /\ [q EXCEPT !.aborted = x].pc = q.pc /\ [q EXCEPT !.aborted = x].id = q.id
             /\ [q EXCEPT !.aborted = x].acknowledged = q.acknowledged
  BY DEF RunType
<1>4. ASSUME NEW j \in Jobs
      PROVE  /\ Abort(S)[j] \in RunType
             /\ Abort(S)[j].pc = run[j].pc /\ Abort(S)[j].id = run[j].id
             /\ Abort(S)[j].acknowledged = run[j].acknowledged
  <2>1. PICK x \in BOOLEAN : Abort(S)[j] = [run[j] EXCEPT !.aborted = x]
    BY <1>1
  <2>2. run[j] \in RunType
    OBVIOUS
  <2> QED
    BY <2>1, <2>2, <1>3
<1> QED
  BY <1>2, <1>4

\* Marking gives the jobs of S a phase and leaves the others theirs.
LEMMA MarkFacts ==
  ASSUME phase \in [Jobs -> Phases], NEW S, NEW v \in Phases
  PROVE  /\ Mark(S, v) \in [Jobs -> Phases]
         /\ \A j \in Jobs : Mark(S, v)[j] = IF j \in S THEN v ELSE phase[j]
BY DEF Mark

\* The buttons apply to jobs in the phases they are shown for.
LEMMA OneOrAllFacts ==
  ASSUME NEW T, NEW S \in OneOrAll(T)
  PROVE  S \subseteq T
BY DEF OneOrAll

\* What a job of the list that the browser can still publish looks like.
LEMMA ListedFacts ==
  ASSUME IInv, NEW j \in Jobs, phase[j] # "none"
  PROVE  /\ published[j] = 1 => uploadId[j] # 0
         /\ j \in cancelled => uploadId[j] # 0
BY SlotsFit DEF JobFits, Spent, OneSession

\* EnqueueUploads: the new job goes to the end of the list.
LEMMA EnqueueStep == ASSUME IInv, NEW j \in Jobs, EnqueueUploads(j) PROVE IInv'
<1>0. list \in Seq(Jobs)
  BY SlotsFit
<1>1. PICK l \in Seq(Jobs) : l = Append(list, j)
  BY <1>0, AppendProperties
<1>2. PICK p \in [Jobs -> Phases] : p = Mark({j}, "queued")
  BY SlotsFit, MarkFacts DEF Phases
<1>3. \A x \in Jobs : p[x] = IF x = j THEN "queued" ELSE phase[x]
  BY <1>2, SlotsFit, MarkFacts DEF Phases
<1>4. /\ phase[j] = "none" /\ j \notin cancelled /\ published[j] = 0
      /\ Click(l, p, run) /\ cancelled' = cancelled /\ deleting' = deleting
      /\ UNCHANGED <<uploadId, strays, session, published>>
  BY <1>1, <1>2 DEF EnqueueUploads, backend
<1>5. ListFits(l, p)
  <2>1. /\ DOMAIN list = 1 .. Len(list) /\ Len(list) \in Nat
        /\ DOMAIN l = 1 .. Len(list) + 1 /\ l[Len(list) + 1] = j
        /\ \A i \in 1 .. Len(list) : l[i] = list[i]
    BY <1>1, SlotsFit
  <2>2. \A i : i \in DOMAIN l <=> i \in DOMAIN list \/ i = Len(list) + 1
    BY <2>1
  <2>3. \A i \in DOMAIN list : l[i] = list[i] /\ list[i] # j
    BY <1>4, <2>1, SlotsFit, SlotsFacts DEF ListFits
  <2>4. IsInjective(list) /\ \A x \in Jobs : (\E i \in DOMAIN list : list[i] = x) <=> phase[x] # "none"
    BY SlotsFit, SlotsFacts DEF ListFits
  <2>5. IsInjective(l)
    BY <2>1, <2>2, <2>3, <2>4 DEF IsInjective
  <2>6. \A x \in Jobs : (\E i \in DOMAIN l : l[i] = x) <=> (\E i \in DOMAIN list : list[i] = x) \/ x = j
    BY <2>1, <2>2, <2>3
  <2> QED
    BY <1>3, <2>4, <2>5, <2>6 DEF ListFits
<1>6. ASSUME NEW x \in Jobs PROVE JobFits(x, run[x], p[x], cancelled)
  <2>1. JobFits(x, run[x], phase[x], cancelled)
    BY SlotsFit
  <2>2. CASE x = j
    BY <1>3, <1>4, <2>1, <2>2, Remark
  <2>3. CASE x # j
    BY <1>3, <2>1, <2>3
  <2> QED
    BY <2>2, <2>3
<1> QED
  BY <1>4, <1>5, <1>6, SlotsFit, ClickStep

\* PauseUpload and ResumeUpload: a click that only marks jobs of the list.
LEMMA MarkStep ==
  ASSUME IInv, NEW S, S \subseteq Jobs, \A j \in S : phase[j] # "none",
         NEW v \in {"paused", "queued"},
         NEW r \in [Jobs -> RunType],
         \A j \in Jobs : /\ r[j].pc = run[j].pc /\ r[j].id = run[j].id
                         /\ r[j].acknowledged = run[j].acknowledged,
         Click(list, Mark(S, v), r),
         UNCHANGED <<uploadId, cancelled, deleting, strays, session, published>>
  PROVE  IInv'
<1>1. PICK p \in [Jobs -> Phases] : p = Mark(S, v)
  BY SlotsFit, MarkFacts DEF Phases
<1>2. \A x \in Jobs : p[x] = IF x \in S THEN v ELSE phase[x]
  BY <1>1, SlotsFit, MarkFacts DEF Phases
<1>3. ListFits(list, p)
  BY <1>2, SlotsFit, SlotsFacts DEF ListFits
<1>4. ASSUME NEW x \in Jobs PROVE JobFits(x, r[x], p[x], cancelled)
  <2>1. JobFits(x, run[x], phase[x], cancelled)
    BY SlotsFit
  <2>2. CASE x \in S
    BY <1>2, <2>1, <2>2, Remark, ListedFacts
  <2>3. CASE x \notin S
    <3>1. /\ x \in cancelled /\ uploadId[x] = 0 => phase[x] = "none"
          /\ published[x] = 1 /\ uploadId[x] = 0 => phase[x] = "none"
      BY ListedFacts
    <3>2. p[x] = phase[x]
      BY <1>2, <2>3
    <3> QED
      BY <2>1, <3>1, <3>2, Remark
  <2> QED
    BY <2>2, <2>3
<1>5. Click(list, p, r)
  BY <1>1
<1> QED
  BY <1>3, <1>4, <1>5, SlotsFit, ClickStep

\* A pause aborts the requests of its jobs, which keep their slots until the answer.
LEMMA PauseStep == ASSUME IInv, PauseUpload PROVE IInv'
<1>1. PICK S \in OneOrAll(InPhase({"queued", "uploading"})) : Click(list, Mark(S, "paused"), Abort(S))
  BY DEF PauseUpload
<1>2. S \subseteq Jobs /\ \A j \in S : phase[j] # "none"
  BY OneOrAllFacts DEF InPhase
<1>3. UNCHANGED <<uploadId, cancelled, deleting, strays, session, published>>
  BY DEF PauseUpload, backend
<1>4. PICK r \in [Jobs -> RunType] : r = Abort(S)
  BY SlotsFit, AbortFacts
<1>5. \A j \in Jobs : r[j].pc = run[j].pc /\ r[j].id = run[j].id /\ r[j].acknowledged = run[j].acknowledged
  BY <1>4, SlotsFit, AbortFacts
<1> QED
  BY <1>1, <1>2, <1>3, <1>4, <1>5, MarkStep

\* Resuming puts a job back into the queue, without a slot.
LEMMA ResumeStep == ASSUME IInv, ResumeUpload PROVE IInv'
<1>1. PICK S \in OneOrAll(InPhase({"paused", "failed"})) : Click(list, Mark(S, "queued"), run)
  BY DEF ResumeUpload
<1>2. S \subseteq Jobs /\ \A j \in S : phase[j] # "none"
  BY OneOrAllFacts DEF InPhase
<1>3. UNCHANGED <<uploadId, cancelled, deleting, strays, session, published>>
  BY DEF ResumeUpload, backend
<1> QED
  BY <1>1, <1>2, <1>3, SlotsFit, MarkStep

\* A list without the jobs of S, which have no phase any more.
LEMMA WithoutFits ==
  ASSUME IInv, NEW S, NEW p,
         \A j \in Jobs : p[j] # "none" <=> phase[j] # "none" /\ j \notin S
  PROVE  Without(S) \in Seq(Jobs) /\ ListFits(Without(S), p)
<1>1. list \in Seq(Jobs) /\ ListFits(list, phase)
  BY SlotsFit, SlotsFacts
<1>2. /\ Without(S) \in Seq(Jobs)
      /\ \A x : (\E i \in DOMAIN Without(S) : Without(S)[i] = x)
                   <=> x \in Jobs \ S /\ \E i \in DOMAIN list : list[i] = x
      /\ IsInjective(list) => IsInjective(Without(S))
  BY <1>1, FilterFacts DEF Without
<1> QED
  BY <1>1, <1>2 DEF ListFits

\* CancelUploadJob: a job without a session leaves the list, the others wait for the
\* answer to their DELETE.
LEMMA CancelStep == ASSUME IInv, CancelUploadJob PROVE IInv'
<1>1. PICK S \in OneOrAll(InPhase({"queued", "uploading", "paused", "failed"})) :
        LET gone == {j \in S : uploadId[j] = 0}
        IN /\ cancelled' = cancelled \cup S
           /\ deleting' = [j \in Jobs |-> IF j \in S THEN uploadId[j] ELSE deleting[j]]
           /\ Click(Without(gone), [j \in Jobs |-> IF j \in gone THEN "none"
                                                   ELSE IF j \in S THEN "cancelling" ELSE phase[j]], Abort(S))
           /\ UNCHANGED <<uploadId, strays, backend>>
  BY DEF CancelUploadJob
<1>2. S \subseteq Jobs /\ \A j \in S : phase[j] # "none"
  BY OneOrAllFacts DEF InPhase
<1> DEFINE gone == {j \in S : uploadId[j] = 0}
           p == [j \in Jobs |-> IF j \in gone THEN "none" ELSE IF j \in S THEN "cancelling" ELSE phase[j]]
<1>3. p \in [Jobs -> Phases]
  BY SlotsFit DEF Phases
<1>4. PICK p1 \in [Jobs -> Phases] : p1 = p
  BY <1>3
<1>5. \A j \in Jobs : p1[j] = IF j \in gone THEN "none" ELSE IF j \in S THEN "cancelling" ELSE phase[j]
  BY <1>4
<1>6. \A j \in Jobs : p1[j] # "none" <=> phase[j] # "none" /\ j \notin gone
  BY <1>2, <1>5
<1>7. PICK l \in Seq(Jobs) : l = Without(gone)
  BY <1>6, WithoutFits
<1>8. ListFits(l, p1)
  BY <1>6, <1>7, WithoutFits
<1>9. PICK r \in [Jobs -> RunType] : r = Abort(S)
  BY SlotsFit, AbortFacts
<1>10. \A j \in Jobs : r[j].pc = run[j].pc /\ r[j].id = run[j].id /\ r[j].acknowledged = run[j].acknowledged
  BY <1>9, SlotsFit, AbortFacts
<1>11. PICK C \in SUBSET Jobs : C = cancelled \cup S
  BY <1>2, SlotsFit
<1>12. /\ Click(l, p1, r) /\ cancelled' = C
       /\ deleting' = [j \in Jobs |-> IF j \in S THEN uploadId[j] ELSE deleting[j]]
       /\ UNCHANGED <<uploadId, strays, session, published>>
  BY <1>1, <1>4, <1>7, <1>9, <1>11 DEF backend
<1>13. deleting' \in [Jobs -> Nat] /\ \A j \in Jobs : deleting'[j] \in Ids(j) \cup {0}
  BY <1>12, SlotsFit DEF Known
<1>14. ASSUME NEW j \in Jobs PROVE JobFits(j, r[j], p1[j], C)
  <2>1. JobFits(j, run[j], phase[j], cancelled)
    BY SlotsFit
  <2>2. /\ j \in cancelled => j \in C
        /\ j \in C /\ uploadId[j] = 0 => p1[j] = "none"
        /\ p1[j] = "completed" => phase[j] = "completed"
        /\ published[j] = 1 /\ uploadId[j] = 0 => p1[j] = "none"
    BY <1>2, <1>5, <1>11, ListedFacts
  <2> QED
    BY <1>10, <2>1, <2>2, Remark
<1> QED
  BY <1>8, <1>10, <1>12, <1>13, <1>14, ClickStep
-----------------------------------------------------------------------------
(* Answers *)

\* A step that concerns one job keeps the invariant if that job fits afterwards.
LEMMA JobStep ==
  ASSUME IInv, NEW j \in Jobs, NEW q \in RunType, NEW p \in Phases,
         run' = [run EXCEPT ![j] = q], phase' = [phase EXCEPT ![j] = p],
         running' = running \/ (running' = running \ {j} /\ q.pc = "none"),
         q.pc # "none" => run[j].pc # "none",
         cancelled' = cancelled, view' = view,
         list' \in Seq(Jobs), ListFits(list, phase)',
         uploadId' \in [Jobs -> Nat], deleting' \in [Jobs -> Nat], published' \in [Jobs -> {0, 1}],
         session' = [x \in Jobs |-> session'[x]], session'[j] \in [Ids(j) -> SessionType],
         \A x \in Jobs \ {j} : /\ uploadId'[x] = uploadId[x] /\ deleting'[x] = deleting[x]
                               /\ session'[x] = session[x] /\ published'[x] = published[x],
         StraysKnown', Known(j)', JobFits(j, q, p, cancelled)'
  PROVE  IInv'
<1>1. \A x \in Jobs : /\ run'[x] = IF x = j THEN q ELSE run[x]
                      /\ phase'[x] = IF x = j THEN p ELSE phase[x]
  BY SlotsFit
<1>2. running' \subseteq Jobs /\ run' \in [Jobs -> RunType] /\ phase' \in [Jobs -> Phases]
  BY SlotsFit
<1>3. Slots' \in SlotType /\ Slots'.running = running' /\ Slots'.run = run' /\ Slots'.phase = phase'
  BY <1>2 DEF Slots, SlotType
<1>4. Shape'
  <2>1. \A x \in Jobs : session'[x] \in [Ids(x) -> SessionType]
    BY DEF IInv, Shape
  <2> QED
    BY <1>3, <2>1, SlotsFit DEF Shape
<1>5. Fits(Slots)'
  <2>1. /\ IsFiniteSet(running) /\ Cardinality(running) <= MAX_CONCURRENT_UPLOADS
        /\ \A x \in Jobs : run[x].pc # "none" => x \in running
    BY SlotsFit, SlotsFacts DEF Fits
  <2>2. \A x \in Jobs : run'[x].pc # "none" => x \in running'
    BY <1>1, <2>1
  <2>3. IsFiniteSet(running') /\ Cardinality(running') <= MAX_CONCURRENT_UPLOADS
    <3>1. running' \in SUBSET running
      OBVIOUS
    <3>2. IsFiniteSet(running') /\ Cardinality(running') <= Cardinality(running)
      BY <2>1, <3>1, FS_Subset
    <3>3. Cardinality(running') \in Nat /\ Cardinality(running) \in Nat
      BY <2>1, <3>2, FS_CardinalityType
    <3> QED
      BY <2>1, <3>2, <3>3, QueueAssumption
  <2>4. Fits(Slots') <=> Fits(Slots)'
    BY DEF Fits
  <2> QED
    BY <1>3, <2>2, <2>3, <2>4 DEF Fits
<1>6. Others'
  BY SlotsFit DEF Others
<1>7. ASSUME NEW x \in Jobs PROVE Known(x)' /\ JobFits(x, run[x], phase[x], cancelled)'
  <2>1. CASE x = j
    <3>1. run'[x] = q /\ phase'[x] = p
      BY <1>1, <2>1
    <3> QED
      BY <2>1, <3>1
  <2>2. CASE x # j
    <3>1. run'[x] = run[x] /\ phase'[x] = phase[x] /\ x \in Jobs \ {j}
      BY <1>1, <2>2
    <3>2. Known(x) /\ JobFits(x, run[x], phase[x], cancelled) /\ deleting[x] \in Ids(x) \cup {0}
      BY SlotsFit
    <3>3. Known(x)'
      BY <3>1, <3>2, KnownStill
    <3> QED
      BY <3>1, <3>2, <3>3 DEF JobFits, RunFits, OneSession, Spent, Honest
  <2> QED
    BY <2>1, <2>2
<1> QED
  BY <1>4, <1>5, <1>6, <1>7 DEF IInv, JobsFit

\* Storing changes one session of one job.
LEMMA StoreFacts ==
  ASSUME IInv, NEW j \in Jobs, NEW s \in Ids(j), NEW v \in SessionType,
         session' = [session EXCEPT ![j][s] = v]
  PROVE  /\ session' = [x \in Jobs |-> session'[x]]
         /\ session'[j] \in [Ids(j) -> SessionType]
         /\ \A t \in Ids(j) : session'[j][t] = IF t = s THEN v ELSE session[j][t]
         /\ \A x \in Jobs \ {j} : session'[x] = session[x]
<1>1. session = [x \in Jobs |-> session[x]] /\ session[j] \in [Ids(j) -> SessionType]
  BY DEF IInv, Shape
<1>2. DOMAIN session = Jobs
  BY <1>1
<1>3. session' = [session EXCEPT ![j] = [session[j] EXCEPT ![s] = v]]
  OBVIOUS
<1>4. session'[j] = [session[j] EXCEPT ![s] = v]
  BY <1>2, <1>3
<1>5. session' = [x \in Jobs |-> session'[x]] /\ \A x \in Jobs \ {j} : session'[x] = session[x]
  BY <1>2, <1>3
<1> QED
  BY <1>1, <1>4, <1>5

\* What the invariant says of a job in flight.
LEMMA FlightFacts ==
  ASSUME IInv, NEW j \in Jobs
  PROVE  /\ run[j] \in RunType /\ phase[j] \in Phases /\ uploadId[j] \in Nat
         /\ session[j] \in [Ids(j) -> SessionType] /\ published[j] \in {0, 1}
         /\ Known(j) /\ RunFits(j, run[j]) /\ OneSession(j, run[j], phase[j], cancelled)
         /\ Spent(j, run[j], phase[j]) /\ Honest(j, phase[j])
         /\ StraysKnown /\ Chunks[j] \in Nat /\ Ids(j) \subseteq Nat \ {0}
BY SlotsFit, BoundFacts DEF IInv, Shape, JobFits, Others

\* What an answer may have changed before performUpload ends or goes on: the session
\* that the job knows, what is stored, and whether the file is published.
Answered(j) ==
  /\ UNCHANGED <<list, cancelled, deleting, view>>
  /\ uploadId' \in [Jobs -> Nat] /\ published' \in [Jobs -> {0, 1}]
  /\ session' = [x \in Jobs |-> session'[x]] /\ session'[j] \in [Ids(j) -> SessionType]
  /\ \A x \in Jobs \ {j} : /\ uploadId'[x] = uploadId[x]
                           /\ session'[x] = session[x] /\ published'[x] = published[x]
  /\ StraysKnown'
  /\ uploadId'[j] \in Ids(j) \cup {0} /\ (uploadId'[j] = 0 => uploadId[j] = 0)
  /\ \A s \in Ids(j) : /\ session'[j][s].got \in 0 .. Chunks[j]
                       /\ session'[j][s].state = "done" => published'[j] = 1
  /\ published[j] = 1 => published'[j] = 1
  /\ published'[j] = 1 =>
       /\ uploadId'[j] # 0 \/ phase[j] = "none"
       /\ uploadId'[j] # 0 => session'[j][uploadId'[j]].state # "active"

\* An invocation that ends keeps the invariant.
LEMMA LeaveKeeps ==
  ASSUME IInv, NEW j \in Jobs, Answered(j), Leave(j),
         \/ phase' = phase
         \/ /\ phase[j] # "none" /\ j \notin cancelled
            /\ \E v \in {"failed", "completed"} :
                  phase' = [phase EXCEPT ![j] = v] /\ (v = "completed" => published'[j] = 1)
  PROVE  IInv'
<1>1. PICK p \in Phases : /\ phase' = [phase EXCEPT ![j] = p]
                          /\ \/ p = phase[j]
                             \/ /\ phase[j] # "none" /\ j \notin cancelled
                                /\ p \in {"failed", "completed"} /\ (p = "completed" => published'[j] = 1)
  BY SlotsFit DEF Phases
<1>2. run' = [run EXCEPT ![j] = NoRun] /\ running' = running \ {j}
  BY DEF Leave
<1>3. p = "none" <=> phase[j] = "none"
  BY <1>1
<1>4. list' \in Seq(Jobs) /\ ListFits(list, phase)'
  <2>1. \A x \in Jobs : phase'[x] = "none" <=> phase[x] = "none"
    BY <1>1, <1>3, SlotsFit
  <2> QED
    BY <2>1, SlotsFit, SlotsFacts DEF ListFits, Answered
<1>5. Known(j)'
  BY FlightFacts DEF Known, Answered
<1>6. JobFits(j, NoRun, p, cancelled)'
  <2>1. RunFits(j, NoRun)'
    BY RunFacts, FlightFacts DEF RunFits
  <2>2. OneSession(j, NoRun, p, cancelled)'
    BY <1>1, RunFacts, FlightFacts DEF OneSession, Answered
  <2>3. Spent(j, NoRun, p)'
    BY <1>3, RunFacts DEF Spent, Answered
  <2>4. Honest(j, p)'
    BY <1>1, FlightFacts DEF Honest, Answered
  <2> QED
    BY <2>1, <2>2, <2>3, <2>4 DEF JobFits
<1>7. deleting' \in [Jobs -> Nat] /\ \A x \in Jobs : deleting'[x] = deleting[x]
  BY SlotsFit DEF Answered
<1> QED
  BY <1>1, <1>2, <1>4, <1>5, <1>6, <1>7, RunFacts, JobStep DEF Answered

\* The catch block and the end of performUpload are two such ends.
LEMMA FailKeeps ==
  ASSUME IInv, NEW j \in Jobs, Answered(j), Fail(j)
  PROVE  IInv'
BY LeaveKeeps DEF Fail

\* A job whose file was published once leaves the running ones.
LEMMA SucceedKeeps ==
  ASSUME IInv, NEW j \in Jobs, Answered(j), Succeed(j), published'[j] = 1
  PROVE  IInv'
BY LeaveKeeps DEF Succeed

\* An invocation that goes on with session s keeps the invariant.
LEMMA ProceedKeeps ==
  ASSUME IInv, NEW j \in Jobs, Answered(j), NEW s \in Ids(j), NEW n \in 0 .. Chunks[j],
         Proceed(j, s, n), run[j].pc # "none",
         uploadId'[j] = s \/ (uploadId'[j] = 0 /\ j \in cancelled),
         published'[j] = 1 => session'[j][s].state # "active"
  PROVE  IInv'
<1> DEFINE pc == IF n < Chunks[j] THEN "chunk" ELSE "complete"
<1>1. pc \in {"chunk", "complete"} /\ (pc = "chunk" => n < Chunks[j])
  OBVIOUS
<1>2. run' = [run EXCEPT ![j].id = s, ![j].acknowledged = n, ![j].pc = pc] /\ UNCHANGED <<phase, running>>
  BY DEF Proceed
<1> HIDE DEF pc
<1>3. s \in Nat /\ n \in Nat /\ s # 0 /\ run[j] \in RunType
  BY FlightFacts
<1>4. PICK q \in RunType : q = [run[j] EXCEPT !.id = s, !.acknowledged = n, !.pc = pc]
  BY <1>1, <1>3 DEF RunType
<1>5. q.id = s /\ q.acknowledged = n /\ q.pc = pc
  BY <1>3, <1>4 DEF RunType
<1>6. run' = [run EXCEPT ![j] = q]
  BY <1>2, <1>4, SlotsFit
<1>7. phase[j] \in Phases /\ phase' = [phase EXCEPT ![j] = phase[j]]
  BY <1>2, SlotsFit
<1>8. PICK p \in Phases : p = phase[j]
  BY <1>7
<1>9. Known(j)'
  BY FlightFacts DEF Known, Answered
<1>10. JobFits(j, q, p, cancelled)'
  <2>1. RunFits(j, q)'
    BY <1>1, <1>3, <1>5 DEF RunFits
  <2>2. OneSession(j, q, p, cancelled)'
    BY <1>3, <1>5, <1>8, FlightFacts DEF OneSession, Answered
  <2>3. Spent(j, q, p)'
    BY <1>3, <1>5, <1>8 DEF Spent, Answered
  <2>4. Honest(j, p)'
    BY <1>8, FlightFacts DEF Honest, Answered
  <2> QED
    BY <2>1, <2>2, <2>3, <2>4 DEF JobFits
<1>11. list' \in Seq(Jobs) /\ ListFits(list, phase)'
  BY <1>2, SlotsFit, SlotsFacts DEF ListFits, Answered
<1>12. deleting' \in [Jobs -> Nat] /\ \A x \in Jobs : deleting'[x] = deleting[x]
  BY SlotsFit DEF Answered
<1>13. phase' = [phase EXCEPT ![j] = p] /\ running' = running
  BY <1>2, <1>7, <1>8
<1>14. /\ cancelled' = cancelled /\ view' = view
       /\ uploadId' \in [Jobs -> Nat] /\ published' \in [Jobs -> {0, 1}]
       /\ session' = [x \in Jobs |-> session'[x]] /\ session'[j] \in [Ids(j) -> SessionType]
       /\ \A x \in Jobs \ {j} : /\ uploadId'[x] = uploadId[x] /\ deleting'[x] = deleting[x]
                                /\ session'[x] = session[x] /\ published'[x] = published[x]
       /\ StraysKnown'
  BY <1>12 DEF Answered
<1>15. running' = running \/ (running' = running \ {j} /\ q.pc = "none")
  BY <1>13
<1>16. q.pc # "none" => run[j].pc # "none"
  OBVIOUS
<1> HIDE DEF Answered, Proceed
<1> QED
  BY <1>6, <1>9, <1>10, <1>11, <1>12, <1>13, <1>14, <1>15, <1>16, JobStep

\* What the browser knows is a session of the job, or none, before and after onSession.
LEMMA OnSessionFacts ==
  ASSUME IInv, NEW j \in Jobs, NEW s \in Ids(j), OnSession(j, s)
  PROVE  /\ uploadId' \in [Jobs -> Nat] /\ \A x \in Jobs \ {j} : uploadId'[x] = uploadId[x]
         /\ \/ uploadId'[j] = s /\ j \notin cancelled
            \/ uploadId'[j] = uploadId[j] /\ j \in cancelled
         /\ StraysKnown'
<1>1. uploadId \in [Jobs -> Nat] /\ StraysKnown /\ s \in Nat
  BY SlotsFit, FlightFacts
<1>2. CASE j \in cancelled
  <2>1. strays' = strays \cup {<<j, s>>} /\ uploadId' = uploadId
    BY <1>2 DEF OnSession
  <2> QED
    BY <1>1, <1>2, <2>1 DEF StraysKnown, Ids
<1>3. CASE j \notin cancelled
  <2>1. uploadId' = [uploadId EXCEPT ![j] = s] /\ strays' = strays
    BY <1>3 DEF OnSession
  <2> QED
    BY <1>1, <1>3, <2>1 DEF StraysKnown, Ids
<1> QED
  BY <1>2, <1>3

\* An answer that changes nothing in the backend and of which the job learns nothing.
LEMMA NothingNew ==
  ASSUME IInv, NEW j \in Jobs,
         UNCHANGED <<list, uploadId, cancelled, deleting, strays, view, session, published>>
  PROVE  Answered(j)
<1>1. StraysKnown'
  BY FlightFacts DEF StraysKnown
<1>2. session' = [x \in Jobs |-> session'[x]]
  BY DEF IInv, Shape
<1>3. published' \in [Jobs -> {0, 1}] /\ uploadId' \in [Jobs -> Nat]
  BY DEF IInv, Shape
<1> QED
  BY <1>1, <1>2, <1>3, FlightFacts DEF Answered, Known, Honest, Spent

\* CreateSession: only a job that never published opens a session.
LEMMA CreateStep == ASSUME IInv, NEW j \in Jobs, CreateSession(j) PROVE IInv'
<1>1. run[j].pc = "open" /\ run[j].id = 0 /\ UNCHANGED <<list, cancelled, deleting, view, published>>
  BY DEF CreateSession
<1>2. published[j] = 0 /\ published \in [Jobs -> {0, 1}]
  BY <1>1, FlightFacts DEF Spent, IInv, Shape
<1>3. ASSUME NEW s \in Ids(j), Store(j, s, "active", 0)
      PROVE  /\ session' = [x \in Jobs |-> session'[x]] /\ session'[j] \in [Ids(j) -> SessionType]
             /\ \A x \in Jobs \ {j} : session'[x] = session[x]
             /\ \A t \in Ids(j) : session'[j][t].got \in 0 .. Chunks[j] /\ session'[j][t].state # "done"
  <2> DEFINE v == [state |-> "active", got |-> 0]
  <2>1. v \in SessionType /\ v.state = "active" /\ v.got = 0
    BY DEF SessionType
  <2>2. session' = [session EXCEPT ![j][s] = v]
    BY <1>3 DEF Store
  <2> HIDE DEF v
  <2>3. /\ session' = [x \in Jobs |-> session'[x]] /\ session'[j] \in [Ids(j) -> SessionType]
        /\ \A x \in Jobs \ {j} : session'[x] = session[x]
        /\ \A t \in Ids(j) : session'[j][t] = IF t = s THEN v ELSE session[j][t]
    BY <2>1, <2>2, StoreFacts
  <2>4. \A t \in Ids(j) : session[j][t].got \in 0 .. Chunks[j] /\ session[j][t].state # "done"
    BY <1>2, FlightFacts DEF Known, Honest
  <2> QED
    BY <2>1, <2>3, <2>4, FlightFacts
<1>4. ASSUME NEW s \in Fresh(j), Store(j, s, "active", 0), OnSession(j, s), Proceed(j, s, 0)
      PROVE  IInv'
  <2>1. s \in Ids(j) /\ s # 0
    BY FlightFacts DEF Fresh
  <2>2. /\ uploadId' \in [Jobs -> Nat] /\ \A x \in Jobs \ {j} : uploadId'[x] = uploadId[x]
        /\ \/ uploadId'[j] = s /\ j \notin cancelled
           \/ uploadId'[j] = uploadId[j] /\ j \in cancelled
        /\ StraysKnown'
    BY <1>4, <2>1, OnSessionFacts
  <2>3. uploadId[j] = 0
    BY <1>1, FlightFacts DEF OneSession
  <2>4. Answered(j)
    BY <1>1, <1>2, <1>3, <1>4, <2>1, <2>2, <2>3 DEF Answered
  <2>5. 0 \in 0 .. Chunks[j]
    BY FlightFacts
  <2>6. /\ uploadId'[j] = s \/ (uploadId'[j] = 0 /\ j \in cancelled)
        /\ published'[j] = 1 => session'[j][s].state # "active"
        /\ run[j].pc # "none" /\ Proceed(j, s, 0)
    BY <1>1, <1>2, <1>4, <2>2, <2>3
  <2> QED
    BY <2>1, <2>4, <2>5, <2>6, ProceedKeeps
<1>5. ASSUME NEW s \in Fresh(j), Store(j, s, "active", 0), Fail(j), UNCHANGED <<uploadId, strays>>
      PROVE  IInv'
  <2>1. s \in Ids(j)
    BY DEF Fresh
  <2>2. StraysKnown'
    BY <1>5, FlightFacts DEF StraysKnown
  <2>3. Answered(j)
    BY <1>1, <1>2, <1>3, <1>5, <2>1, <2>2, SlotsFit DEF Answered, Known
  <2> QED
    BY <1>5, <2>3, FailKeeps
<1>6. ASSUME Fail(j), UNCHANGED <<session, uploadId, strays>> PROVE IInv'
  BY <1>1, <1>6, NothingNew, FailKeeps
<1> QED
  BY <1>4, <1>5, <1>6 DEF CreateSession

\* QuerySession: the job learns the state of the session it knows.
LEMMA QueryStep == ASSUME IInv, NEW j \in Jobs, QuerySession(j) PROVE IInv'
<1> DEFINE s == run[j].id
<1>1. run[j].pc = "open" /\ s # 0
      /\ UNCHANGED <<list, cancelled, deleting, view, session, published>>
  BY DEF QuerySession, backend
<1>2. s \in Ids(j) /\ s \in Nat
  BY <1>1, FlightFacts DEF RunFits
<1>3. uploadId[j] = s \/ (uploadId[j] = 0 /\ j \in cancelled)
  BY <1>1, FlightFacts DEF OneSession
<1> HIDE DEF s
<1>4. ASSUME OnSession(j, s) PROVE Answered(j) /\ (uploadId'[j] = s \/ (uploadId'[j] = 0 /\ j \in cancelled))
  <2>1. /\ uploadId' \in [Jobs -> Nat] /\ \A x \in Jobs \ {j} : uploadId'[x] = uploadId[x]
        /\ \/ uploadId'[j] = s /\ j \notin cancelled
           \/ uploadId'[j] = uploadId[j] /\ j \in cancelled
        /\ StraysKnown'
    BY <1>2, <1>4, OnSessionFacts
  <2>2. uploadId'[j] = uploadId[j] \/ uploadId'[j] = s
    BY <2>1
  <2>3. session' = [x \in Jobs |-> session'[x]] /\ published' \in [Jobs -> {0, 1}]
    BY <1>1 DEF IInv, Shape
  <2>4. uploadId'[j] \in Ids(j) \cup {0} /\ (uploadId'[j] = 0 => uploadId[j] = 0)
        /\ (uploadId'[j] = s \/ (uploadId'[j] = 0 /\ j \in cancelled))
    BY <1>1, <1>2, <1>3, <2>1
  <2>5. published[j] = 1 => /\ uploadId[j] # 0 \/ phase[j] = "none"
                            /\ session[j][s].state # "active"
    BY <1>1, FlightFacts DEF Spent, s
  <2> QED
    BY <1>1, <1>2, <1>3, <2>1, <2>2, <2>3, <2>4, <2>5, FlightFacts DEF Answered, Known, Honest
<1>5. ASSUME session[j][s].state = "active", OnSession(j, s), Proceed(j, s, session[j][s].got)
      PROVE  IInv'
  <2>1. session[j][s].got \in 0 .. Chunks[j]
    BY <1>2, FlightFacts DEF Known
  <2>2. published[j] # 1
    BY <1>1, <1>5, FlightFacts DEF Spent, s
  <2>3. published'[j] # 1
    BY <1>1, <2>2
  <2>4. /\ published'[j] = 1 => session'[j][s].state # "active"
        /\ run[j].pc # "none" /\ Proceed(j, s, session[j][s].got)
    BY <1>1, <1>5, <2>3
  <2>5. PICK n \in 0 .. Chunks[j] : n = session[j][s].got
    BY <2>1
  <2>6. Proceed(j, s, n)
    BY <2>4, <2>5
  <2> QED
    BY <1>2, <1>4, <1>5, <2>4, <2>6, ProceedKeeps
<1>6. ASSUME session[j][s].state = "done", OnSession(j, s), Succeed(j) PROVE IInv'
  <2>1. published'[j] = 1
    BY <1>1, <1>2, <1>6, FlightFacts DEF Honest
  <2> QED
    BY <1>4, <1>6, <2>1, SucceedKeeps
<1>7. ASSUME Fail(j), UNCHANGED <<uploadId, strays>> PROVE IInv'
  BY <1>1, <1>7, NothingNew, FailKeeps
<1> QED
  BY <1>5, <1>6, <1>7 DEF QuerySession, s

\* PutChunk: a chunk that is stored is the next one of a session that is active.
LEMMA PutStep == ASSUME IInv, NEW j \in Jobs, PutChunk(j) PROVE IInv'
<1> DEFINE s == run[j].id
           n == run[j].acknowledged + 1
<1>1. /\ run[j].pc = "chunk"
      /\ UNCHANGED <<list, uploadId, cancelled, deleting, strays, view, published>>
  BY DEF PutChunk
<1>2. s \in Ids(j) /\ s \in Nat /\ s # 0 /\ n \in 1 .. Chunks[j]
      /\ (uploadId[j] = s \/ (uploadId[j] = 0 /\ j \in cancelled))
  BY <1>1, FlightFacts DEF RunFits, OneSession
<1>3. session[j][s].state = "active" => published[j] = 0
  BY <1>2, FlightFacts DEF Spent
<1>4. published' \in [Jobs -> {0, 1}] /\ uploadId' \in [Jobs -> Nat] /\ StraysKnown'
  BY <1>1, FlightFacts DEF IInv, Shape, StraysKnown
<1> HIDE DEF s, n
<1>5. ASSUME session[j][s].state = "active", Store(j, s, "active", n) PROVE Answered(j)
  <2> DEFINE v == [state |-> "active", got |-> n]
  <2>1. v \in SessionType /\ v.state = "active" /\ v.got = n
    BY <1>2 DEF SessionType
  <2>2. session' = [session EXCEPT ![j][s] = v]
    BY <1>5 DEF Store
  <2> HIDE DEF v
  <2>3. /\ session' = [x \in Jobs |-> session'[x]] /\ session'[j] \in [Ids(j) -> SessionType]
        /\ \A x \in Jobs \ {j} : session'[x] = session[x]
        /\ \A t \in Ids(j) : session'[j][t] = IF t = s THEN v ELSE session[j][t]
    BY <1>2, <2>1, <2>2, StoreFacts
  <2>4. published[j] = 0 /\ \A t \in Ids(j) : session[j][t].got \in 0 .. Chunks[j] /\ session[j][t].state # "done"
    BY <1>3, <1>5, FlightFacts DEF Known, Honest
  <2>5. n \in 0 .. Chunks[j]
    BY <1>2, FlightFacts
  <2>6. \A t \in Ids(j) : session'[j][t].got \in 0 .. Chunks[j] /\ session'[j][t].state # "done"
    BY <2>1, <2>3, <2>4, <2>5
  <2> QED
    BY <1>1, <1>4, <2>3, <2>4, <2>6, FlightFacts DEF Answered, Known
<1>6. ASSUME session[j][s].state = "active", Store(j, s, "active", n), Proceed(j, s, n) PROVE IInv'
  <2>1. n \in 0 .. Chunks[j] /\ published'[j] = 0
    BY <1>1, <1>2, <1>3, <1>6, FlightFacts
  <2> QED
    BY <1>1, <1>2, <1>5, <1>6, <2>1, ProceedKeeps
<1>7. ASSUME session[j][s].state = "active", Store(j, s, "active", n), Fail(j) PROVE IInv'
  BY <1>5, <1>7, FailKeeps
<1>8. ASSUME Fail(j), session' = session PROVE IInv'
  BY <1>1, <1>8, NothingNew, FailKeeps
<1> QED
  BY <1>6, <1>7, <1>8 DEF PutChunk, s, n

\* Complete: the session that publishes is never active again, and the job knows no other.
LEMMA CompleteStep == ASSUME IInv, NEW j \in Jobs, Complete(j) PROVE IInv'
<1> DEFINE s == run[j].id
<1>1. /\ run[j].pc = "complete"
      /\ UNCHANGED <<list, uploadId, cancelled, deleting, strays, view>>
  BY DEF Complete
<1>2. s \in Ids(j) /\ s \in Nat /\ s # 0
      /\ (uploadId[j] = s \/ (uploadId[j] = 0 /\ phase[j] = "none"))
  BY <1>1, FlightFacts DEF RunFits, OneSession
<1>3. session[j][s].state = "active" => published[j] = 0
  BY <1>2, FlightFacts DEF Spent
<1>4. uploadId' \in [Jobs -> Nat] /\ StraysKnown' /\ published \in [Jobs -> {0, 1}]
  BY <1>1, FlightFacts DEF IInv, Shape, StraysKnown
<1> HIDE DEF s
<1>5. ASSUME session[j][s].state = "active", published' = [published EXCEPT ![j] = @ + 1],
             NEW state \in {"done", "lost"}, Store(j, s, state, Chunks[j])
      PROVE  Answered(j) /\ published'[j] = 1
  <2> DEFINE v == [state |-> state, got |-> Chunks[j]]
  <2>1. v \in SessionType /\ v.state # "active" /\ v.got = Chunks[j]
    BY FlightFacts DEF SessionType
  <2>2. session' = [session EXCEPT ![j][s] = v]
    BY <1>5 DEF Store
  <2> HIDE DEF v
  <2>3. /\ session' = [x \in Jobs |-> session'[x]] /\ session'[j] \in [Ids(j) -> SessionType]
        /\ \A x \in Jobs \ {j} : session'[x] = session[x]
        /\ \A t \in Ids(j) : session'[j][t] = IF t = s THEN v ELSE session[j][t]
    BY <1>2, <2>1, <2>2, StoreFacts
  <2>4. /\ published' \in [Jobs -> {0, 1}] /\ published'[j] = 1
        /\ \A x \in Jobs \ {j} : published'[x] = published[x]
    BY <1>3, <1>4, <1>5
  <2>5. Chunks[j] \in 0 .. Chunks[j]
    BY FlightFacts
  <2>6. \A t \in Ids(j) : session'[j][t].got \in 0 .. Chunks[j]
    BY <2>1, <2>3, <2>5, FlightFacts DEF Known
  <2>7. uploadId'[j] # 0 => session'[j][uploadId'[j]].state # "active"
    BY <1>1, <1>2, <2>1, <2>3
  <2> QED
    BY <1>1, <1>2, <1>4, <2>3, <2>4, <2>6, <2>7, FlightFacts DEF Answered, Known
<1>6. ASSUME session[j][s].state = "active", published' = [published EXCEPT ![j] = @ + 1],
             \/ Store(j, s, "done", Chunks[j]) /\ (Succeed(j) \/ Fail(j))
             \/ Store(j, s, "lost", Chunks[j]) /\ Fail(j)
      PROVE  IInv'
  <2>1. Answered(j) /\ published'[j] = 1
    BY <1>5, <1>6
  <2> QED
    BY <1>6, <2>1, FailKeeps, SucceedKeeps
<1>7. ASSUME session[j][s].state = "done", Succeed(j), UNCHANGED backend PROVE IInv'
  <2>1. published[j] = 1 /\ published'[j] = 1 /\ UNCHANGED <<session, published>>
    BY <1>2, <1>7, FlightFacts DEF Honest, backend
  <2> QED
    BY <1>1, <1>7, <2>1, NothingNew, SucceedKeeps
<1>8. ASSUME Fail(j), UNCHANGED backend PROVE IInv'
  BY <1>1, <1>8, NothingNew, FailKeeps DEF backend
<1> QED
  BY <1>6, <1>7, <1>8 DEF Complete, s
-----------------------------------------------------------------------------
(* A job leaves the list *)

\* A job without a phase fits if it did before.
LEMMA GoneFits ==
  ASSUME NEW j \in Jobs, NEW q, NEW p, NEW C, JobFits(j, q, p, C)
  PROVE  JobFits(j, q, "none", C)
BY DEF JobFits, RunFits, OneSession, Spent, Honest

\* A DELETE that worked leaves no session that could publish where there was none.
LEMMA DeletedFits ==
  ASSUME IInv, NEW j \in Jobs, NEW s \in Ids(j), Delete(j, s)
  PROVE  /\ session' = [x \in Jobs |-> session'[x]] /\ session'[j] \in [Ids(j) -> SessionType]
         /\ \A x \in Jobs \ {j} : session'[x] = session[x]
         /\ \A t \in Ids(j) : /\ session'[j][t].got = session[j][t].got
                              /\ session'[j][t].state \in {session[j][t].state, "gone"}
         /\ published' = published
<1>1. published' = published
  BY DEF Delete
<1>2. CASE session' = session
  BY <1>1, <1>2 DEF IInv, Shape
<1>3. CASE session' = [session EXCEPT ![j][s].state = "gone"]
  <2> DEFINE v == [session[j][s] EXCEPT !.state = "gone"]
  <2>1. session[j][s] \in SessionType /\ session = [x \in Jobs |-> session[x]]
    BY DEF IInv, Shape
  <2>2. v \in SessionType /\ v.state = "gone" /\ v.got = session[j][s].got
    BY <2>1 DEF SessionType
  <2>3. session' = [session EXCEPT ![j][s] = v]
    BY <1>3
  <2> HIDE DEF v
  <2>4. /\ session' = [x \in Jobs |-> session'[x]] /\ session'[j] \in [Ids(j) -> SessionType]
        /\ \A x \in Jobs \ {j} : session'[x] = session[x]
        /\ \A t \in Ids(j) : session'[j][t] = IF t = s THEN v ELSE session[j][t]
    BY <2>2, <2>3, StoreFacts
  <2> QED
    BY <1>1, <2>2, <2>4
<1> QED
  BY <1>1, <1>2, <1>3 DEF Delete

\* A job fits as before after a DELETE of one of its sessions.
LEMMA DeletedJobFits ==
  ASSUME IInv, NEW j \in Jobs, NEW s \in Ids(j), Delete(j, s),
         uploadId'[j] = uploadId[j], deleting'[j] \in Ids(j) \cup {0},
         NEW q, NEW p, NEW C, JobFits(j, q, p, C)
  PROVE  Known(j)' /\ JobFits(j, q, p, C)'
<1>1. /\ \A t \in Ids(j) : /\ session'[j][t].got = session[j][t].got
                           /\ session'[j][t].state \in {session[j][t].state, "gone"}
      /\ published' = published
  BY DeletedFits
<1>2. uploadId[j] \in Ids(j) \cup {0} /\ q.id \in Ids(j) \cup {0}
  BY FlightFacts DEF Known, JobFits, RunFits
<1>3. Known(j)'
  BY <1>1, FlightFacts DEF Known
<1>4. RunFits(j, q)' /\ OneSession(j, q, p, C)'
  BY DEF JobFits, RunFits, OneSession
<1>5. Spent(j, q, p)'
  BY <1>1, <1>2 DEF JobFits, Spent
<1>6. Honest(j, p)'
  BY <1>1 DEF JobFits, Honest
<1> QED
  BY <1>3, <1>4, <1>5, <1>6 DEF JobFits

\* Expire: a completed job leaves the list.
LEMMA ExpireStep == ASSUME IInv, NEW j \in Jobs, Expire(j) PROVE IInv'
<1>1. /\ list' = Without({j}) /\ phase' = [phase EXCEPT ![j] = "none"]
      /\ UNCHANGED <<uploadId, running, run, cancelled, deleting, strays, view, session, published>>
  BY DEF Expire, backend
<1>2. PICK c \in SlotType : c.running = running /\ c.run = run /\ c.phase = phase'
  <2>1. phase' \in [Jobs -> Phases] /\ running \subseteq Jobs /\ run \in [Jobs -> RunType]
    BY <1>1, SlotsFit DEF Phases
  <2> DEFINE c == [running |-> running, run |-> run, phase |-> phase']
  <2>2. c \in SlotType /\ c.running = running /\ c.run = run /\ c.phase = phase'
    BY <2>1 DEF SlotType
  <2> QED
    BY <2>2
<1>3. \A x \in Jobs : c.phase[x] # "none" <=> phase[x] # "none" /\ x \notin {j}
  BY <1>1, <1>2, SlotsFit
<1>4. list' \in Seq(Jobs) /\ ListFits(list', c.phase)
  BY <1>1, <1>3, WithoutFits
<1>5. \A x \in Jobs : JobFits(x, c.run[x], c.phase[x], cancelled)
  <2>1. \A x \in Jobs : c.phase[x] \in {phase[x], "none"}
    BY <1>1, <1>2, SlotsFit
  <2> QED
    BY <1>2, <2>1, SlotsFit, GoneFits
<1>6. Fits(c)
  BY <1>2, SlotsFit, SlotsFacts DEF Fits
<1> QED
  BY <1>1, <1>2, <1>4, <1>5, <1>6, SlotsFit, BrowserStep

\* Cancelled: the job leaves the list whether its DELETE worked or not.
LEMMA CancelledStep == ASSUME IInv, NEW j \in Jobs, Cancelled(j) PROVE IInv'
<1> DEFINE s == deleting[j]
<1>1. /\ s # 0 /\ Delete(j, s) /\ deleting' = [deleting EXCEPT ![j] = 0]
      /\ list' = Without({j}) /\ phase' = [phase EXCEPT ![j] = "none"]
      /\ UNCHANGED <<uploadId, running, run, cancelled, strays, view>>
  BY DEF Cancelled
<1>2. s \in Ids(j)
  BY <1>1, FlightFacts DEF Known
<1> HIDE DEF s
<1>3. deleting' \in [Jobs -> Nat] /\ deleting'[j] = 0 /\ \A x \in Jobs \ {j} : deleting'[x] = deleting[x]
  BY <1>1, SlotsFit
<1>4. \A x \in Jobs : phase'[x] # "none" <=> phase[x] # "none" /\ x \notin {j}
  BY <1>1, SlotsFit
<1>5. list' \in Seq(Jobs) /\ ListFits(list, phase)'
  <2>1. PICK p \in [Jobs -> Phases] : p = phase'
    BY <1>1, SlotsFit DEF Phases
  <2>2. Without({j}) \in Seq(Jobs) /\ ListFits(Without({j}), p)
    BY <1>4, <2>1, WithoutFits
  <2> QED
    BY <1>1, <2>1, <2>2 DEF ListFits
<1>6. PICK q \in RunType : q = run[j] /\ run' = [run EXCEPT ![j] = q]
  BY <1>1, SlotsFit
<1>7. JobFits(j, q, "none", cancelled)
  BY <1>6, SlotsFit, GoneFits
<1>8. PICK C : C = cancelled
  OBVIOUS
<1>9. Known(j)' /\ JobFits(j, q, "none", C)'
  BY <1>1, <1>2, <1>3, <1>7, <1>8, DeletedJobFits
<1>10. JobFits(j, q, "none", cancelled)'
  BY <1>1, <1>8, <1>9
<1>11. StraysKnown'
  BY <1>1, FlightFacts DEF StraysKnown
<1>12. "none" \in Phases
  BY DEF Phases
<1>13. uploadId' \in [Jobs -> Nat] /\ published' \in [Jobs -> {0, 1}]
       /\ session' = [x \in Jobs |-> session'[x]] /\ session'[j] \in [Ids(j) -> SessionType]
       /\ \A x \in Jobs \ {j} : /\ uploadId'[x] = uploadId[x] /\ deleting'[x] = deleting[x]
                                /\ session'[x] = session[x] /\ published'[x] = published[x]
  BY <1>1, <1>2, <1>3, SlotsFit, DeletedFits DEF IInv, Shape
<1>14. q.pc # "none" => run[j].pc # "none"
  BY <1>6
<1>15. cancelled' = cancelled /\ view' = view /\ running' = running
  BY <1>1
<1> QED
  BY <1>1, <1>3, <1>5, <1>6, <1>9, <1>10, <1>11, <1>12, <1>13, <1>14, <1>15, JobStep

\* StrayDeleted: the DELETE of a session that nobody knows concerns its job only.
LEMMA StrayStep == ASSUME IInv, StrayDeleted PROVE IInv'
<1>1. PICK d \in strays : Delete(d[1], d[2]) /\ strays' = strays \ {d}
  BY DEF StrayDeleted
<1>2. PICK j \in Jobs : j = d[1]
  BY SlotsFit DEF IInv, Others, StraysKnown
<1>3. PICK s \in Ids(j) : s = d[2]
  BY <1>2 DEF IInv, Others, StraysKnown
<1>4. Delete(j, s)
  BY <1>1, <1>2, <1>3
<1>5. UNCHANGED <<list, phase, uploadId, running, run, cancelled, deleting, view>>
  BY DEF StrayDeleted, react
<1>6. PICK q \in RunType : q = run[j] /\ run' = [run EXCEPT ![j] = q]
  BY <1>5, SlotsFit
<1>7. PICK p \in Phases : p = phase[j] /\ phase' = [phase EXCEPT ![j] = p]
  BY <1>5, SlotsFit
<1>8. PICK C : C = cancelled
  OBVIOUS
<1>9. deleting'[j] \in Ids(j) \cup {0}
  BY <1>5, SlotsFit
<1>10. Known(j)' /\ JobFits(j, q, p, C)'
  BY <1>4, <1>5, <1>6, <1>7, <1>8, <1>9, SlotsFit, DeletedJobFits
<1>11. JobFits(j, q, p, cancelled)'
  BY <1>5, <1>8, <1>10
<1>12. StraysKnown'
  BY <1>1, FlightFacts DEF StraysKnown, IInv, Others, Ids
<1>13. uploadId' \in [Jobs -> Nat] /\ published' \in [Jobs -> {0, 1}] /\ deleting' \in [Jobs -> Nat]
       /\ session' = [x \in Jobs |-> session'[x]] /\ session'[j] \in [Ids(j) -> SessionType]
       /\ \A x \in Jobs \ {j} : /\ uploadId'[x] = uploadId[x] /\ deleting'[x] = deleting[x]
                                /\ session'[x] = session[x] /\ published'[x] = published[x]
  BY <1>4, <1>5, SlotsFit, DeletedFits DEF IInv, Shape
<1>14. list' \in Seq(Jobs) /\ ListFits(list, phase)'
  BY <1>5, SlotsFit, SlotsFacts DEF ListFits
<1>15. q.pc # "none" => run[j].pc # "none"
  BY <1>6
<1>16. cancelled' = cancelled /\ view' = view /\ running' = running
  BY <1>5
<1> QED
  BY <1>6, <1>7, <1>10, <1>11, <1>12, <1>13, <1>14, <1>15, <1>16, JobStep

\* Every step keeps the invariant.
LEMMA NextIInv == IInv /\ [Next]_vars => IInv'
<1> SUFFICES ASSUME IInv, [Next]_vars PROVE IInv'
  OBVIOUS
<1>1. CASE UNCHANGED vars
  BY <1>1 DEF vars, browser, react, backend, IInv, Shape, Slots, Fits, ListFits, JobsFit, Others,
              Known, StraysKnown, JobFits, RunFits, OneSession, Spent, Honest
<1>2. CASE Render \/ RunEffect
  BY <1>2, RenderStep, RunEffectStep
<1>3. ASSUME NEW j \in Jobs, EnqueueUploads(j) PROVE IInv'
  BY <1>3, EnqueueStep
<1>4. CASE PauseUpload \/ ResumeUpload \/ CancelUploadJob
  BY <1>4, PauseStep, ResumeStep, CancelStep
<1>5. ASSUME NEW j \in Jobs, Answer(j) \/ Expire(j) \/ Cancelled(j) PROVE IInv'
  BY <1>5, CreateStep, QueryStep, PutStep, CompleteStep, ExpireStep, CancelledStep DEF Answer
<1>6. CASE StrayDeleted
  BY <1>6, StrayStep
<1> QED
  BY <1>1, <1>2, <1>3, <1>4, <1>5, <1>6 DEF Next

\* The inductive invariant.
LEMMA Invariance == Spec => []IInv
BY InitIInv, NextIInv, PTL DEF Spec
-----------------------------------------------------------------------------
\* The list, the phases, the invocations and the sessions keep their types: a job is
\* in the list once and exactly while it has a phase, an invocation in flight holds a
\* slot, and no chunk is sent past the last.
THEOREM QueueTypeOK == Spec => []TypeOK
BY TypeFollows, Invariance, PTL

\* Never more than MAX_CONCURRENT_UPLOADS invocations talk to the backend, for any
\* number of jobs and on whatever old list the effect decides: it starts no more than
\* there are free slots, and a click that finds it overdue runs it before the new one.
THEOREM QueueSlotsRespected == Spec => []SlotsRespected
<1>1. IInv => SlotsRespected
  <2> SUFFICES ASSUME IInv PROVE SlotsRespected
    OBVIOUS
  <2> DEFINE flying == {j \in Jobs : InFlight(j)}
  <2>1. /\ IsFiniteSet(running) /\ Cardinality(running) <= MAX_CONCURRENT_UPLOADS
        /\ flying \in SUBSET running
    BY SlotsFit, SlotsFacts DEF Fits, InFlight
  <2> HIDE DEF flying
  <2>2. IsFiniteSet(flying) /\ Cardinality(flying) <= Cardinality(running)
    BY <2>1, FS_Subset
  <2>3. Cardinality(flying) \in Nat /\ Cardinality(running) \in Nat
    BY <2>1, <2>2, FS_CardinalityType
  <2>4. Cardinality(flying) <= MAX_CONCURRENT_UPLOADS
    BY <2>1, <2>2, <2>3, QueueAssumption
  <2> QED
    BY <2>4 DEF SlotsRespected, flying
<1> QED
  BY <1>1, Invariance, PTL

\* No file is published twice and none is shown as completed that was not published,
\* for any number of lost answers, pauses, retries and cancels: the job works on one
\* session, and the one that published is never active again.
THEOREM QueuePublishedOnce == Spec => []PublishedOnce
<1>1. IInv => PublishedOnce
  BY FlightFacts DEF PublishedOnce, Honest
<1> QED
  BY <1>1, Invariance, PTL
=============================================================================
