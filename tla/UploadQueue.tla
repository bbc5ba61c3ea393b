----------------------------- MODULE UploadQueue -----------------------------
(***************************************************************************)
(* The background upload manager of the browser:                           *)
(* frontend/src/components/UploadManager.tsx and uploadFormWithProgress in *)
(* frontend/src/api/client.ts.                                             *)
(*                                                                         *)
(* jobsRef always holds the newest list of jobs.  The queue effect does    *)
(* not read it: it sees the list of the render it belongs to.  After a     *)
(* click (or a drop) React renders and runs the effect before the browser  *)
(* does anything else; after an answer from the backend the render and the *)
(* effect come later, each in a task of its own.  If a click falls between *)
(* the two, its handler runs first and the overdue effect follows, on the  *)
(* list from before the click.                                             *)
(*                                                                         *)
(* The backend is what the browser sees of it: per job the sessions it     *)
(* opened, their confirmed chunks and whether the file was published       *)
(* (UploadSession says how).  Any answer may be an error, and any answer   *)
(* may be lost after the backend has done its part.                        *)
(***************************************************************************)
EXTENDS Naturals, FiniteSets, SequencesExt

CONSTANTS Jobs,        \* selected files
          MAX_CONCURRENT_UPLOADS,
          Chunks,      \* chunks of the file of each job
          MaxSessions  \* bound: sessions opened for each job

ASSUME QueueAssumption == /\ MAX_CONCURRENT_UPLOADS \in Nat \ {0}
                          /\ Chunks \in [Jobs -> Nat] /\ MaxSessions \in [Jobs -> Nat]

VARIABLES list,      \* jobsRef: the jobs in order ...
          phase,     \* ... their phase ("none": not in the list) ...
          uploadId,  \* ... and the session they know (0: undefined)
          running,   \* the ref of the same name
          run,       \* invocations of performUpload in flight
          cancelled, \* the ref of the same name
          deleting,  \* sessions of the DELETEs of cancelUploadJob in flight (0: none)
          strays,    \* DELETEs in flight that nobody waits for (onSession)
          dirty,     \* the list changed since the last render
          view,      \* queued jobs of the last render
          effect,    \* its effect has not run yet
          session,   \* backend: the sessions of each job
          published  \* backend: how often the file of each job was published

browser == <<list, phase, uploadId, running, run, cancelled, deleting, strays>>
react == <<dirty, view, effect>>
backend == <<session, published>>
vars == <<browser, react, backend>>
-----------------------------------------------------------------------------
Ids(j) == 1 .. MaxSessions[j]
NoRun == [pc |-> "none", id |-> 0, acknowledged |-> 0, aborted |-> FALSE]
\* Mutant: a retry does not know the session of the job.
NewRunAfresh(id) == [NoRun EXCEPT !.pc = "open"]

NewRun(id) == [NoRun EXCEPT !.pc = "open", !.id = id]

InFlight(j) == run[j].pc # "none"
Listed(j) == \E i \in DOMAIN list : list[i] = j

\* Array.filter: the elements of s that are in S, in their order.  (A recursive function
\* instead of SelectSeq, which the provers cannot look into.)
Filter(s, S) ==
  LET kept[i \in 0 .. Len(s)] ==
        IF i = 0 THEN <<>>
        ELSE IF s[i] \in S THEN Append(kept[i - 1], s[i]) ELSE kept[i - 1]
  IN kept[Len(s)]

Without(S) == Filter(list, Jobs \ S)

TypeOK ==
  /\ IsInjective(list) /\ \A j \in Jobs : Listed(j) <=> phase[j] # "none"
  /\ phase \in [Jobs -> {"none", "queued", "uploading", "paused", "failed", "completed", "cancelling"}]
  /\ running \subseteq Jobs /\ cancelled \subseteq Jobs
  /\ \A j \in Jobs : /\ run[j].pc \in {"none", "open", "chunk", "complete"}
                     /\ run[j].acknowledged \in 0 .. Chunks[j]
                     /\ InFlight(j) => j \in running
  /\ \A j \in Jobs : uploadId[j] \in Ids(j) \cup {0} /\ deleting[j] \in Ids(j) \cup {0}
  /\ \A d \in strays : d[1] \in Jobs /\ d[2] \in Ids(d[1])
  /\ \A j \in Jobs : \A s \in Ids(j) : session[j][s].got \in 0 .. Chunks[j]

Init ==
  /\ list = <<>> /\ view = <<>>
  /\ phase = [j \in Jobs |-> "none"]
  /\ uploadId = [j \in Jobs |-> 0]
  /\ running = {} /\ cancelled = {} /\ strays = {}
  /\ run = [j \in Jobs |-> NoRun]
  /\ deleting = [j \in Jobs |-> 0]
  /\ dirty = FALSE /\ effect = FALSE
  /\ session = [j \in Jobs |-> [s \in Ids(j) |-> [state |-> "none", got |-> 0]]]
  /\ published = [j \in Jobs |-> 0]
-----------------------------------------------------------------------------
(* Rendering and the queue effect *)

\* Mutant: the slots in use are counted by the phases of the jobs.
StartedByPhase(b, queued) ==
  LET waiting == Filter(queued, Jobs \ b.running)
      slots == MAX_CONCURRENT_UPLOADS - Cardinality({j \in Jobs : b.phase[j] = "uploading"})
      next == {waiting[i] : i \in {k \in DOMAIN waiting : k <= slots}}
      found == {j \in next : b.phase[j] # "none"}
  IN [b EXCEPT !.running = @ \cup next,
               !.run = [j \in Jobs |-> IF j \in found THEN NewRun(uploadId[j]) ELSE @[j]],
               !.phase = [j \in Jobs |-> IF j \in found THEN "uploading" ELSE @[j]]]

\* The effect of a render whose queued jobs were `queued`: fills the free slots.
\* performUpload returns at once if the job is not in jobsRef any more; only its
\* `finally` would give the slot back.
Started(b, queued) ==
  LET waiting == Filter(queued, Jobs \ b.running)
      slots == MAX_CONCURRENT_UPLOADS - Cardinality(b.running)
      next == {waiting[i] : i \in {k \in DOMAIN waiting : k <= slots}}
      found == {j \in next : b.phase[j] # "none"}
  IN [b EXCEPT !.running = @ \cup next,
               !.run = [j \in Jobs |-> IF j \in found THEN NewRun(uploadId[j]) ELSE @[j]],
               !.phase = [j \in Jobs |-> IF j \in found THEN "uploading" ELSE @[j]]]

Queued(l, p) == Filter(l, {j \in Jobs : p[j] = "queued"})

Render ==
  /\ dirty /\ ~effect
  /\ view' = Queued(list, phase)
  /\ effect' = TRUE
  /\ dirty' = FALSE
  /\ UNCHANGED <<browser, backend>>

RunEffect ==
  LET b == [running |-> running, run |-> run, phase |-> phase]
      c == Started(b, view)
  IN /\ effect
     /\ running' = c.running /\ run' = c.run /\ phase' = c.phase
     /\ effect' = FALSE
     /\ dirty' = (dirty \/ c # b)
     /\ UNCHANGED <<list, uploadId, cancelled, deleting, strays, view, backend>>

\* A click whose handler leaves list l, phases p and runs r: the overdue effect,
\* the render and its effect follow at once.
Click(l, p, r) ==
  LET b == [running |-> running, run |-> r, phase |-> p]
      c == IF effect THEN Started(b, view) ELSE b
      d == Started(c, Queued(l, c.phase))
  IN /\ list' = l
     /\ running' = d.running /\ run' = d.run /\ phase' = d.phase
     /\ view' = Queued(l, c.phase)
     /\ effect' = FALSE
     /\ dirty' = (d # c)
-----------------------------------------------------------------------------
(* Clicks.  S is one job, or all of them (the buttons of the minimized window). *)

Mark(S, value) == [j \in Jobs |-> IF j \in S THEN value ELSE phase[j]]
Abort(S) == [j \in Jobs |-> [run[j] EXCEPT !.aborted = @ \/ (j \in S /\ InFlight(j))]]
InPhase(phases) == {j \in Jobs : phase[j] \in phases}
OneOrAll(T) == {{j} : j \in T} \cup ({T} \ {{}})

EnqueueUploads(j) ==
  /\ phase[j] = "none"
  /\ j \notin cancelled /\ published[j] = 0   \* every selection is a job of its own
  /\ Click(Append(list, j), Mark({j}, "queued"), run)
  /\ UNCHANGED <<uploadId, cancelled, deleting, strays, backend>>

PauseUpload ==
  /\ \E S \in OneOrAll(InPhase({"queued", "uploading"})) : Click(list, Mark(S, "paused"), Abort(S))
  /\ UNCHANGED <<uploadId, cancelled, deleting, strays, backend>>

ResumeUpload ==
  /\ \E S \in OneOrAll(InPhase({"paused", "failed"})) : Click(list, Mark(S, "queued"), run)
  /\ UNCHANGED <<uploadId, cancelled, deleting, strays, backend>>

\* cancelUploadJob: without a session there is nothing to wait for.  (A second
\* cancel of a job only repeats the DELETE.)
CancelUploadJob ==
  \E S \in OneOrAll(InPhase({"queued", "uploading", "paused", "failed"})) :
    LET gone == {j \in S : uploadId[j] = 0}
    IN /\ cancelled' = cancelled \cup S
       /\ deleting' = [j \in Jobs |-> IF j \in S THEN uploadId[j] ELSE deleting[j]]
       /\ Click(Without(gone), [j \in Jobs |-> IF j \in gone THEN "none"
                                               ELSE IF j \in S THEN "cancelling" ELSE phase[j]], Abort(S))
       /\ UNCHANGED <<uploadId, strays, backend>>
-----------------------------------------------------------------------------
(* Answers to performUpload and uploadFormWithProgress *)

\* Mutant: the list is not set anew.
LeaveQuietly(j) ==
  /\ run' = [run EXCEPT ![j] = NoRun]
  /\ running' = running \ {j}
  /\ dirty' = (dirty \/ phase' # phase)

\* The `finally`: the controller and the slot are given back, the list is set anew.
Leave(j) ==
  /\ run' = [run EXCEPT ![j] = NoRun]
  /\ running' = running \ {j}
  /\ dirty' = TRUE

\* The catch block: a pause or a cancel is not a failure.
Fail(j) ==
  /\ phase' = IF phase[j] \in {"none", "paused", "cancelling"} \/ j \in cancelled THEN phase
              ELSE [phase EXCEPT ![j] = "failed"]
  /\ Leave(j)

Succeed(j) ==
  /\ phase' = IF phase[j] = "none" \/ j \in cancelled THEN phase
              ELSE [phase EXCEPT ![j] = "completed"]
  /\ Leave(j)

\* Mutant: one more chunk is sent after the last.
ProceedTooFar(j, id, acknowledged) ==
  /\ run' = [run EXCEPT ![j].id = id, ![j].acknowledged = acknowledged,
                        ![j].pc = IF acknowledged <= Chunks[j] THEN "chunk" ELSE "complete"]
  /\ UNCHANGED <<phase, running, dirty>>

Proceed(j, id, acknowledged) ==
  /\ run' = [run EXCEPT ![j].id = id, ![j].acknowledged = acknowledged,
                        ![j].pc = IF acknowledged < Chunks[j] THEN "chunk" ELSE "complete"]
  /\ UNCHANGED <<phase, running, dirty>>

Store(j, s, state, got) == session' = [session EXCEPT ![j][s] = [state |-> state, got |-> got]]
Fresh(j) == {s \in Ids(j) : session[j][s].state = "none" /\ \A t \in 1 .. s - 1 : session[j][t].state # "none"}

\* onSession: the session of a job that was cancelled meanwhile is deleted.
OnSession(j, s) ==
  IF j \in cancelled
  THEN strays' = strays \cup {<<j, s>>} /\ UNCHANGED uploadId
  ELSE uploadId' = [uploadId EXCEPT ![j] = s] /\ UNCHANGED strays

\* POST /files/uploads.  The answer may be lost, or the session refused.
CreateSession(j) ==
  /\ run[j].pc = "open" /\ run[j].id = 0
  /\ \/ \E s \in Fresh(j) :
          /\ Store(j, s, "active", 0)
          /\ \/ OnSession(j, s) /\ Proceed(j, s, 0) /\ UNCHANGED dirty
             \/ Fail(j) /\ UNCHANGED <<uploadId, strays>>
     \/ Fail(j) /\ UNCHANGED <<session, uploadId, strays>>
  /\ UNCHANGED <<list, cancelled, deleting, view, effect, published>>

\* GET /files/uploads/{id} of a job that knows its session.
QuerySession(j) ==
  LET s == run[j].id
  IN /\ run[j].pc = "open" /\ s # 0
     /\ \/ session[j][s].state = "active" /\ OnSession(j, s) /\ Proceed(j, s, session[j][s].got)
        \/ session[j][s].state = "done" /\ OnSession(j, s) /\ Succeed(j)
        \/ Fail(j) /\ UNCHANGED <<uploadId, strays>>
     /\ UNCHANGED <<list, cancelled, deleting, view, effect, backend>>

\* PUT of the next chunk, the one request that can be aborted.  The backend may
\* have stored the chunk all the same.
PutChunk(j) ==
  LET s == run[j].id
      stored == session[j][s].state = "active" /\ session[j][s].got = run[j].acknowledged
  IN /\ run[j].pc = "chunk"
     /\ \/ stored /\ ~run[j].aborted /\ Store(j, s, "active", run[j].acknowledged + 1)
           /\ Proceed(j, s, run[j].acknowledged + 1)
        \/ stored /\ Store(j, s, "active", run[j].acknowledged + 1) /\ Fail(j)
        \/ Fail(j) /\ UNCHANGED session
     /\ UNCHANGED <<list, uploadId, cancelled, deleting, strays, view, effect, published>>

\* POST .../complete.  It fails with the file published if the backend could not
\* record what it did ("lost") or if only the answer was lost.
Complete(j) ==
  LET s == run[j].id
      whole == session[j][s].state = "active" /\ session[j][s].got = Chunks[j]
  IN /\ run[j].pc = "complete"
     /\ \/ /\ whole
           /\ published' = [published EXCEPT ![j] = @ + 1]
           /\ \/ Store(j, s, "done", Chunks[j]) /\ (Succeed(j) \/ Fail(j))
              \/ Store(j, s, "lost", Chunks[j]) /\ Fail(j)
        \/ session[j][s].state = "done" /\ Succeed(j) /\ UNCHANGED backend
        \/ Fail(j) /\ UNCHANGED backend
     /\ UNCHANGED <<list, uploadId, cancelled, deleting, strays, view, effect>>

\* completionTimers: a completed job disappears after five seconds.
Expire(j) ==
  /\ phase[j] = "completed"
  /\ list' = Without({j})
  /\ phase' = [phase EXCEPT ![j] = "none"]
  /\ dirty' = TRUE
  /\ UNCHANGED <<uploadId, running, run, cancelled, deleting, strays, view, effect, backend>>

\* DELETE /files/uploads/{id} takes the row and the temporary object, or fails.
Delete(j, s) ==
  /\ session' = [session EXCEPT ![j][s].state = "gone"] \/ UNCHANGED session
  /\ UNCHANGED published

\* The answer to cancelUploadJob: the job leaves the list either way.
Cancelled(j) ==
  /\ deleting[j] # 0
  /\ Delete(j, deleting[j])
  /\ deleting' = [deleting EXCEPT ![j] = 0]
  /\ list' = Without({j})
  /\ phase' = [phase EXCEPT ![j] = "none"]
  /\ dirty' = TRUE
  /\ UNCHANGED <<uploadId, running, run, cancelled, strays, view, effect>>

StrayDeleted ==
  /\ \E d \in strays : Delete(d[1], d[2]) /\ strays' = strays \ {d}
  /\ UNCHANGED <<list, phase, uploadId, running, run, cancelled, deleting, react>>
-----------------------------------------------------------------------------
Answer(j) == CreateSession(j) \/ QuerySession(j) \/ PutChunk(j) \/ Complete(j)

Next ==
  \/ Render \/ RunEffect
  \/ \E j \in Jobs : EnqueueUploads(j)
  \/ PauseUpload \/ ResumeUpload \/ CancelUploadJob
  \/ \E j \in Jobs : Answer(j) \/ Expire(j) \/ Cancelled(j)
  \/ StrayDeleted

Spec == Init /\ [][Next]_vars

\* React renders what changed and runs its effects; every request is answered or fails.
Fairness == /\ WF_vars(Render \/ RunEffect)
            /\ \A j \in Jobs : WF_vars(Answer(j)) /\ WF_vars(Cancelled(j))
FairSpec == Spec /\ Fairness
-----------------------------------------------------------------------------
(* Properties *)

\* Never more than MAX_CONCURRENT_UPLOADS invocations talk to the backend,
\* although the effect decides on an old list and pausing does not wait.
SlotsRespected == Cardinality({j \in Jobs : InFlight(j)}) <= MAX_CONCURRENT_UPLOADS

\* A file is published once however often its upload is paused, resumed and
\* retried after lost answers, and it is shown as completed only if it was published.
PublishedOnce ==
  \A j \in Jobs : published[j] <= 1 /\ (phase[j] = "completed" => published[j] = 1)

\* A free slot and a queued job do not face each other for ever: every change that
\* frees a slot also leads to another run of the effect.
NoIdleSlot ==
  \A j \in Jobs : ~<>[](phase[j] = "queued" /\ Cardinality(running) < MAX_CONCURRENT_UPLOADS)
=============================================================================
