------------------------------ MODULE Schedule ------------------------------
(***************************************************************************)
(* Scheduled tasks: opencode/src/schedule/schedule.ts with its scanner     *)
(* (scheduler/index.ts) and the monitor of automated runs                  *)
(* (server/routes/automated-controller.ts).                                *)
(*                                                                         *)
(* Workers are the calls that take the lock of a task: the ticks of the    *)
(* scanner, which may overlap, the pass at startup that skips what was     *)
(* missed, and runTaskNow.  Time is a counter; an interval is one unit,    *)
(* and 0 stands for no next run.  hasActiveRun's index is left out: the    *)
(* code falls back to the runs themselves.                                 *)
(***************************************************************************)
EXTENDS Integers, Sequences, FiniteSets

CONSTANTS
  Tasks, Workers, NoTask,
  MaxTime, MaxRuns, MaxEdits, MaxOutages

ASSUME ScheduleAssumption ==
  /\ NoTask \notin Tasks
  /\ {MaxTime, MaxRuns, MaxEdits, MaxOutages} \subseteq Nat

VARIABLES
  clock,
  task,      \* the stored tasks
  runs,      \* the stored runs, with the monitor and the session of each
  worker,    \* the calls under way
  taskLock,      \* who holds and awaits the lock of each task
  scanning,  \* the scanner is registered
  startedAt, \* when the server was started
  budget     \* edits and crashes so far

scheduleVars == <<clock, task, runs, worker, taskLock, scanning, startedAt, budget>>

IdleWorker == [pc |-> "idle", kind |-> "none", now |-> 0, todo |-> {}, task |-> NoTask, slot |-> 0, run |-> 0]

StoredTask ==
  [enabled : BOOLEAN, deleted : BOOLEAN, project : BOOLEAN, rule : {"interval", "once"}, next : 0..(MaxTime + 1)]

(* The project of a stored task may have become unreadable before the server was started. *)
ScheduleInit ==
  /\ clock = 1
  /\ task \in [Tasks -> {t \in StoredTask : ~t.deleted /\ t.next \in IF t.enabled THEN {1, 2} ELSE {0}}]
  /\ runs = <<>>
  /\ worker = [w \in Workers |-> IdleWorker]
  /\ taskLock = [t \in Tasks |-> <<>>]
  /\ scanning = FALSE
  /\ startedAt = 1
  /\ budget = [edits |-> 0, crashes |-> 0]

-----------------------------------------------------------------------------
Due(t, now) == task[t].enabled /\ ~task[t].deleted /\ task[t].next # 0 /\ task[t].next <= now

(* nextRunAfter() and initialNextRunAt() *)
NextRunAfter(rule, after) == IF rule = "once" THEN 0 ELSE after + 1
InitialNextRunAt(now) == now + 1

ActiveStatus == {"accepted", "running"}

\* Mutant: a run counts as active until the controller has answered.
HasActiveRunAccepted(t) == \E i \in DOMAIN runs : runs[i].task = t /\ runs[i].status = "accepted"

HasActiveRun(t) == \E i \in DOMAIN runs : runs[i].task = t /\ runs[i].status \in ActiveStatus

WorkerAt(w, pc) == worker[w].pc = pc

WorkerGoto(w, pc) == worker' = [worker EXCEPT ![w].pc = pc]

Continue(w, record) == worker' = [worker EXCEPT ![w] = record]

NewRun(w, status, reason, slot) ==
  [task |-> worker[w].task, status |-> status, reason |-> reason, slot |-> slot, monitor |-> "none", session |-> "none", ending |-> "none"]

Create(run) == Len(runs) < MaxRuns /\ runs' = Append(runs, run)

-----------------------------------------------------------------------------
(* The calls *)

(* init(): what was missed is skipped, and then the scanner is registered. *)
Startup(w) ==
  /\ WorkerAt(w, "idle") /\ ~scanning
  /\ \A v \in Workers : worker[v].kind # "startup"
  /\ Continue(w, [IdleWorker EXCEPT !.pc = "next", !.kind = "startup", !.now = clock, !.todo = {t \in Tasks : Due(t, clock)}])
  /\ UNCHANGED <<clock, task, runs, taskLock, scanning, startedAt, budget>>

\* Mutant: the scanner does not wait for the startup pass.
MayTickAtOnce == TRUE

MayTick == scanning

(* A tick lists the tasks that are due. *)
Tick(w) ==
  /\ WorkerAt(w, "idle") /\ MayTick
  /\ {t \in Tasks : Due(t, clock)} # {}
  /\ Continue(w, [IdleWorker EXCEPT !.pc = "next", !.kind = "tick", !.now = clock, !.todo = {t \in Tasks : Due(t, clock)}])
  /\ UNCHANGED <<clock, task, runs, taskLock, scanning, startedAt, budget>>

RunTaskNow(w) ==
  /\ WorkerAt(w, "idle") /\ budget.edits < MaxEdits
  /\ \E t \in Tasks : Continue(w, [IdleWorker EXCEPT !.pc = "next", !.kind = "manual", !.now = clock, !.todo = {t}])
  /\ budget' = [budget EXCEPT !.edits = @ + 1]
  /\ UNCHANGED <<clock, task, runs, taskLock, scanning, startedAt>>

(* The tasks of a call are worked on one after the other. *)
AskForLock(w) ==
  /\ WorkerAt(w, "next")
  /\ \E t \in worker[w].todo :
       /\ Continue(w, [worker[w] EXCEPT !.pc = "waiting", !.task = t, !.todo = @ \ {t}])
       /\ taskLock' = [taskLock EXCEPT ![t] = Append(@, w)]
  /\ UNCHANGED <<clock, task, runs, scanning, startedAt, budget>>

CallEnds(w) ==
  /\ WorkerAt(w, "next") /\ worker[w].todo = {}
  /\ Continue(w, IdleWorker)
  /\ scanning' = (scanning \/ worker[w].kind = "startup")
  /\ UNCHANGED <<clock, task, runs, taskLock, startedAt, budget>>

AfterUnlock(w) == [taskLock EXCEPT ![worker[w].task] = Tail(@)]

(* The end of the locked part, after which an error takes the whole call with it. *)
Leave(w, failed) ==
  /\ taskLock' = AfterUnlock(w)
  /\ Continue(w, [worker[w] EXCEPT !.pc = "next", !.task = NoTask, !.slot = 0, !.run = 0, !.todo = IF failed THEN {} ELSE @])

-----------------------------------------------------------------------------
(* Inside the lock *)

\* Mutant: the call trusts the list it made before it had the lock.
StillDueAsListed(w) == TRUE

\* Mutant: a task is due only after its slot.
DueOnlyAfter(w) == Due(worker[w].task, worker[w].now - 1)

StillDue(w) == Due(worker[w].task, worker[w].now)

HoldsLock(w) == WorkerAt(w, "waiting") /\ Head(taskLock[worker[w].task]) = w

(* The task is read again. *)
NotDue(w) ==
  /\ HoldsLock(w) /\ worker[w].kind # "manual" /\ ~StillDue(w)
  /\ Leave(w, FALSE)
  /\ UNCHANGED <<clock, task, runs, scanning, startedAt, budget>>

TaskDue(w) ==
  /\ HoldsLock(w) /\ worker[w].kind # "manual" /\ StillDue(w)
  /\ Continue(w, [worker[w] EXCEPT !.slot = task[worker[w].task].next, !.pc = IF worker[w].kind = "tick" THEN "due" ELSE "misfire"])
  /\ UNCHANGED <<clock, task, runs, taskLock, scanning, startedAt, budget>>

TaskRequested(w) ==
  /\ HoldsLock(w) /\ worker[w].kind = "manual"
  /\ LET t == task[worker[w].task] IN
     \/ t.deleted /\ Leave(w, TRUE)
     \/ ~t.deleted /\ Continue(w, [worker[w] EXCEPT !.slot = worker[w].now, !.pc = IF t.enabled THEN "create" ELSE "disabled"]) /\ UNCHANGED taskLock
  /\ UNCHANGED <<clock, task, runs, scanning, startedAt, budget>>

CheckOverlap(w) ==
  /\ WorkerAt(w, "due")
  /\ WorkerGoto(w, IF HasActiveRun(worker[w].task) THEN "overlap" ELSE "create")
  /\ UNCHANGED <<clock, task, runs, taskLock, scanning, startedAt, budget>>

SkipRun(w) ==
  /\ worker[w].pc \in {"overlap", "misfire"}
  /\ Create(NewRun(w, "skipped", worker[w].pc, worker[w].slot))
  /\ WorkerGoto(w, "advance")
  /\ UNCHANGED <<clock, task, taskLock, scanning, startedAt, budget>>

SkipDisabled(w) ==
  /\ WorkerAt(w, "disabled")
  /\ Create(NewRun(w, "skipped", "disabled", worker[w].slot))
  /\ Leave(w, FALSE)
  /\ UNCHANGED <<clock, task, scanning, startedAt, budget>>

-----------------------------------------------------------------------------
(* triggerTaskRun() *)

NoProject(w) ==
  /\ WorkerAt(w, "create") /\ ~task[worker[w].task].project
  /\ Leave(w, TRUE)
  /\ UNCHANGED <<clock, task, runs, scanning, startedAt, budget>>

CreateRun(w) ==
  /\ WorkerAt(w, "create") /\ task[worker[w].task].project
  /\ Create(NewRun(w, "accepted", IF worker[w].kind = "manual" THEN "manual" ELSE "due", worker[w].slot))
  /\ Continue(w, [worker[w] EXCEPT !.pc = "session", !.run = Len(runs) + 1])
  /\ UNCHANGED <<clock, task, taskLock, scanning, startedAt, budget>>

UpdateRun(i, run) == runs' = [runs EXCEPT ![i] = run]

SessionCreated(w) ==
  /\ WorkerAt(w, "session")
  /\ UpdateRun(worker[w].run, [runs[worker[w].run] EXCEPT !.monitor = "watching"])
  /\ WorkerGoto(w, "sending")
  /\ UNCHANGED <<clock, task, taskLock, scanning, startedAt, budget>>

SessionFails(w) ==
  /\ WorkerAt(w, "session")
  /\ UpdateRun(worker[w].run, [runs[worker[w].run] EXCEPT !.status = "failed"])
  /\ WorkerGoto(w, "triggered")
  /\ UNCHANGED <<clock, task, taskLock, scanning, startedAt, budget>>

(* The monitor reports the end of a run once. *)
Finished(run, status) == IF run.monitor = "watching" THEN [run EXCEPT !.monitor = "finished", !.ending = status] ELSE run

MessageAccepted(w) ==
  /\ WorkerAt(w, "sending")
  /\ UpdateRun(worker[w].run, [runs[worker[w].run] EXCEPT !.session = "running"])
  /\ WorkerGoto(w, "response")
  /\ UNCHANGED <<clock, task, taskLock, scanning, startedAt, budget>>

(* The message is not accepted or cannot be sent; the session may become idle before the error gets here. *)
SendFails(w) ==
  /\ WorkerAt(w, "sending")
  /\ \E status \in {"succeeded", "failed"} : UpdateRun(worker[w].run, Finished(runs[worker[w].run], status))
  /\ WorkerGoto(w, "failing")
  /\ UNCHANGED <<clock, task, taskLock, scanning, startedAt, budget>>

(* The updates of a run are written in the order in which they were asked for. *)
NothingPending(w) == runs[worker[w].run].ending = "none"

RecordFailure(w) ==
  /\ WorkerAt(w, "failing") /\ NothingPending(w)
  /\ UpdateRun(worker[w].run, [runs[worker[w].run] EXCEPT !.status = "failed"])
  /\ WorkerGoto(w, "triggered")
  /\ UNCHANGED <<clock, task, taskLock, scanning, startedAt, budget>>

(* onControllerResponse() does not look at the status it overwrites. *)
RecordResponse(w) ==
  /\ WorkerAt(w, "response") /\ NothingPending(w)
  /\ UpdateRun(worker[w].run, [runs[worker[w].run] EXCEPT !.status = "running"])
  /\ WorkerGoto(w, "triggered")
  /\ UNCHANGED <<clock, task, taskLock, scanning, startedAt, budget>>

RunRequested(w) ==
  /\ WorkerAt(w, "triggered") /\ worker[w].kind = "manual"
  /\ Leave(w, FALSE)
  /\ UNCHANGED <<clock, task, runs, scanning, startedAt, budget>>

LaterOf(a, b) == IF a > b THEN a ELSE b

NextSlot(w) == NextRunAfter(task[worker[w].task].rule, LaterOf(worker[w].now, worker[w].slot))

(* advanceTaskAfterDue() goes by the rule that the task has by now, and by nothing else of it. *)
Advance(w) ==
  /\ WorkerAt(w, "advance") \/ (WorkerAt(w, "triggered") /\ worker[w].kind # "manual")
  /\ task' = [task EXCEPT ![worker[w].task].next = NextSlot(w)]
  /\ Leave(w, FALSE)
  /\ UNCHANGED <<clock, runs, scanning, startedAt, budget>>

-----------------------------------------------------------------------------
(* The session of a run and its monitor *)

TurnEnds(i) ==
  /\ runs[i].session = "running"
  /\ \E status \in {"succeeded", "failed"} : UpdateRun(i, [Finished(runs[i], status) EXCEPT !.session = "over"])
  /\ UNCHANGED <<clock, task, worker, taskLock, scanning, startedAt, budget>>

(* The time-out cancels the session. *)
MonitorTimesOut(i) ==
  /\ runs[i].monitor = "watching"
  /\ UpdateRun(i, [Finished(runs[i], "failed") EXCEPT !.session = IF @ = "running" THEN "over" ELSE @])
  /\ UNCHANGED <<clock, task, worker, taskLock, scanning, startedAt, budget>>

EndingRecorded(i) ==
  /\ runs[i].ending # "none"
  /\ UpdateRun(i, [runs[i] EXCEPT !.status = runs[i].ending, !.ending = "none"])
  /\ UNCHANGED <<clock, task, worker, taskLock, scanning, startedAt, budget>>

-----------------------------------------------------------------------------
(* The rest of the world *)

MayEdit == budget.edits < MaxEdits /\ budget' = [budget EXCEPT !.edits = @ + 1]

(* updateTask() and deleteTask() do not take the lock of the task. *)
UpdateTask(t) ==
  /\ MayEdit /\ ~task[t].deleted
  /\ \/ task' = [task EXCEPT ![t].enabled = FALSE, ![t].next = 0]
     \/ task' = [task EXCEPT ![t].enabled = TRUE, ![t].next = InitialNextRunAt(clock)]
     \/ /\ task[t].enabled
        /\ \E rule \in {"interval", "once"} : task' = [task EXCEPT ![t].rule = rule, ![t].next = InitialNextRunAt(clock)]
  /\ UNCHANGED <<clock, runs, worker, taskLock, scanning, startedAt>>

DeleteTask(t) ==
  /\ MayEdit /\ ~task[t].deleted
  /\ task' = [task EXCEPT ![t].enabled = FALSE, ![t].deleted = TRUE, ![t].next = 0]
  /\ UNCHANGED <<clock, runs, worker, taskLock, scanning, startedAt>>

(* The stored project of a task becomes unreadable. *)
LoseProject(t) ==
  /\ MayEdit /\ task[t].project
  /\ task' = [task EXCEPT ![t].project = FALSE]
  /\ UNCHANGED <<clock, runs, worker, taskLock, scanning, startedAt>>

TimePasses ==
  /\ clock < MaxTime
  /\ clock' = clock + 1
  /\ UNCHANGED <<task, runs, worker, taskLock, scanning, startedAt, budget>>

(* A restart forgets the calls and the monitors; nobody looks at the runs they leave behind. *)
ScheduleCrash ==
  /\ budget.crashes < MaxOutages
  /\ budget' = [budget EXCEPT !.crashes = @ + 1]
  /\ worker' = [w \in Workers |-> IdleWorker]
  /\ taskLock' = [t \in Tasks |-> <<>>]
  /\ runs' = [i \in DOMAIN runs |-> [runs[i] EXCEPT !.monitor = "none", !.ending = "none",
                                                    !.session = IF @ = "running" THEN "over" ELSE @]]
  /\ scanning' = FALSE
  /\ startedAt' = clock
  /\ UNCHANGED <<clock, task>>

Call(w) == Startup(w) \/ Tick(w)

WorkerStep(w) ==
  \/ AskForLock(w) \/ CallEnds(w) \/ NotDue(w) \/ TaskDue(w) \/ TaskRequested(w) \/ CheckOverlap(w) \/ SkipRun(w)
  \/ SkipDisabled(w) \/ NoProject(w) \/ CreateRun(w) \/ SessionCreated(w) \/ SessionFails(w) \/ MessageAccepted(w)
  \/ SendFails(w) \/ RecordFailure(w) \/ RecordResponse(w) \/ RunRequested(w) \/ Advance(w)

ScheduleNext ==
  \/ \E w \in Workers : Call(w) \/ RunTaskNow(w) \/ WorkerStep(w)
  \/ \E i \in DOMAIN runs : TurnEnds(i) \/ MonitorTimesOut(i) \/ EndingRecorded(i)
  \/ \E t \in Tasks : UpdateTask(t) \/ DeleteTask(t) \/ LoseProject(t)
  \/ TimePasses \/ ScheduleCrash

ScheduleSpec == ScheduleInit /\ [][ScheduleNext]_scheduleVars

(* The scanner ticks, and what a call awaits settles. *)
ScheduleFairSpec ==
  /\ ScheduleSpec
  /\ WF_scheduleVars(\E w \in Workers : Call(w))
  /\ \A w \in Workers : WF_scheduleVars(WorkerStep(w))
  /\ WF_scheduleVars(\E i \in DOMAIN runs : EndingRecorded(i))

-----------------------------------------------------------------------------
Statuses == {"skipped", "succeeded", "failed"} \cup ActiveStatus

ScheduleTypeOK ==
  /\ clock \in 1..MaxTime
  /\ task \in [Tasks -> StoredTask]
  /\ \A i \in DOMAIN runs : runs[i] \in
       [task : Tasks, status : Statuses, reason : {"due", "manual", "overlap", "misfire", "disabled"}, slot : 1..MaxTime,
        monitor : {"none", "watching", "finished"}, session : {"none", "running", "over"}, ending : {"none", "succeeded", "failed"}]
  /\ \A t \in Tasks : \A i \in DOMAIN taskLock[t] : worker[taskLock[t][i]].task = t
  /\ \A w \in Workers : worker[w].slot <= worker[w].now /\ worker[w].run \in 0..Len(runs)

(* A slot of a task is triggered at most once, although ticks overlap, the server restarts and the schedule is edited
   meanwhile. *)
SlotTriggeredOnce ==
  \A i, j \in DOMAIN runs :
    runs[i].reason = "due" /\ runs[j].reason = "due" /\ runs[i].task = runs[j].task /\ runs[i].slot = runs[j].slot => i = j

(* A run is working while its call is under way or its session runs. *)
Works(i) == runs[i].session = "running" \/ \E w \in Workers : worker[w].run = i

(* schedule.test.ts:116: two scheduled runs of a task never work at once. *)
DueRunsDoNotOverlap ==
  \A i, j \in DOMAIN runs :
    runs[i].reason = "due" /\ runs[j].reason = "due" /\ runs[i].task = runs[j].task /\ Works(i) /\ Works(j) => i = j

(* The promise of the ticks: a slot is run once, and alone. *)
SlotsAreKept == SlotTriggeredOnce /\ DueRunsDoNotOverlap

(* schedule.test.ts:158: a run that was missed while the server was down is skipped, and not made up for. *)
MissedIsSkipped ==
  [][\A i \in DOMAIN runs' \ DOMAIN runs : runs'[i].reason = "due" => runs'[i].slot > startedAt]_scheduleVars

(* schedule.ts:466: when a run is skipped as an overlap, the previous run is still active. *)
OverlapIsReal ==
  [][\A i \in DOMAIN runs' \ DOMAIN runs : runs'[i].reason = "overlap" =>
       \E j \in DOMAIN runs : runs[j].task = runs'[i].task /\ (Works(j) \/ runs[j].ending # "none")]_scheduleVars

(* triggerTaskRun() of a task that is due throws, as its project cannot be read (schedule.ts:566). *)
Throws(t) == Due(t, clock) /\ ~task[t].project

(* A slot that is due is triggered or skipped in the end, although other tasks are due and their sessions fail, on the
   condition that the project of every task that is due can be read.  The exception for one that cannot ends the loop over
   the due tasks (schedule.ts:471), that task stays due, and the tasks behind it in the list are never reached. *)
DueIsHandled == \A t \in Tasks : Due(t, clock) ~> (~Due(t, clock) \/ \E u \in Tasks : Throws(u))

=============================================================================
