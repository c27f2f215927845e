------------------------------ MODULE ImageTasks ------------------------------
(***************************************************************************)
(* The image tasks of the playground (web/gpt-image-playground, store.ts): *)
(* submitTask, executeTask and its watchdog, the recovery of queued fal    *)
(* and custom jobs, removal and clearing, and what a page reload makes of  *)
(* all of it (initStore).                                                  *)
(*                                                                         *)
(* JavaScript runs one callback at a time: a step is what happens between  *)
(* two awaits.  The task list is kept twice, in memory (mem) and in        *)
(* IndexedDB (db); writes is what was handed to IndexedDB and not yet      *)
(* committed, in order.  Images and texts are left out: a task is its      *)
(* status, whether the id of its remote job was recorded (falRequestId,    *)
(* customTaskId) and whether it is marked recoverable (falRecoverable,     *)
(* customRecoverable).                                                     *)
(***************************************************************************)
EXTENDS Integers, SequencesExt

CONSTANTS
    Tasks,       \* ids submitTask and retryTask may generate
    Kind,        \* how each is executed, see Kinds
    AgentTasks,  \* ended image tasks of agent rounds
    MaxTasks,    \* bound on the number of submissions of a behaviour
    Faults,      \* the kinds of fault that may happen
    MaxFaults    \* bound on the number of faults of a behaviour

Kinds == {"single",      \* one request, guarded by the watchdog
          "concurrent",  \* several requests of an OpenAI profile, no watchdog
          "fal",         \* queued at fal.ai
          "custom"}      \* queued at a custom provider with a poll mapping

FaultKinds == {"reload",   \* the page is reloaded
               "conn",     \* a connection breaks while a remote job is polled
               "stall",    \* a request, or the polling of a job, neither fails nor ends
               "quota"}    \* IndexedDB refuses the first put of a task

ASSUME TasksAssumption == Tasks # {} /\ IsFiniteSet(Tasks) /\ IsFiniteSet(AgentTasks)
ASSUME KindAssumption == Kind \in [Tasks -> Kinds]
ASSUME AgentTasksAssumption == Tasks \cap AgentTasks = {}
ASSUME ImageBoundsAssumption == Faults \subseteq FaultKinds /\ MaxFaults \in Nat /\ MaxTasks \in Nat

Ids == Tasks \cup AgentTasks

VARIABLES
    mem,        \* useStore.getState().tasks
    db,         \* the tasks object store
    writes,     \* requests to it, oldest first
    page,       \* initStore: "loading", "marking", then "ready"
    stored,     \* initStore's storedTasks
    used,       \* ids ever generated
    exec,       \* executeTask, per task
    watchdog,   \* openAIWatchdogTimers
    timers,     \* falRecoveryTimers and customRecoveryTimers
    recovery,   \* recoverFalTask or recoverCustomTask, per task
    removing,   \* a removal that is suspended in scrubAgentOutputPayloadsForDeletedTasks
    clearing,   \* clearData, between its first await and setTasks([])
    orphans,    \* tasks whose API profile or provider was removed from the settings
    spoiled,    \* tasks left without a fresh record or without anybody to end them
    faults

list   == <<mem, db, writes, used>>
init   == <<page, stored>>
runner == <<exec, watchdog, timers, recovery>>
user   == <<removing, clearing>>
vars   == <<list, init, runner, user, orphans, spoiled, faults>>

NoTask == [status |-> "absent", remote |-> FALSE, recoverable |-> FALSE]
Records == {NoTask} \cup [status : {"running", "done", "error"}, remote : BOOLEAN, recoverable : BOOLEAN]

Present(t) == mem[t] # NoTask
Running(t) == mem[t].status = "running"
NoRemoval == [ids |-> {}, list |-> [t \in Ids |-> NoTask]]

Fault(k) == /\ k \in Faults
            /\ faults < MaxFaults
            /\ faults' = faults + 1
            /\ UNCHANGED orphans
NoFault == UNCHANGED <<orphans, faults>>

(***************************************************************************)
(* The task list.  IndexedDB executes the requests of a page in the order  *)
(* they are made.                                                          *)
(***************************************************************************)
Put(op, t, r) == [op |-> op, task |-> t, rec |-> r]
\* The rewritten response of another task, which leaves its status alone, and
\* the clearing of the store name no task.
Scrub == [op |-> "scrub"]
Clear == [op |-> "clear"]
WriteOps == [op : {"insert", "put", "mark", "delete"}, task : Ids, rec : Records] \cup {Scrub, Clear}
AwaitsWrite(op) == \E i \in DOMAIN writes : writes[i].op = op

\* MUTANT: updateTaskInStore changes the list and forgets the database.
UpdateMemoryOnly(t, r) ==
    /\ mem' = IF Present(t) THEN [mem EXCEPT ![t] = r] ELSE mem
    /\ UNCHANGED <<db, writes, used>>

\* MUTANT: updateTaskInStore inserts a task it does not find.
UpdateInserts(t, r) ==
    /\ mem' = [mem EXCEPT ![t] = r]
    /\ writes' = Append(writes, Put("put", t, r))
    /\ UNCHANGED <<db, used>>

\* updateTaskInStore: a task that is gone is neither changed nor written.
UpdateTask(t, r) ==
    /\ mem' = IF Present(t) THEN [mem EXCEPT ![t] = r] ELSE mem
    /\ writes' = IF Present(t) THEN Append(writes, Put("put", t, r)) ELSE writes
    /\ UNCHANGED <<db, used>>

\* The record of a task that ended, with the recoverable flag set or reset.
Ended(t, status, recoverable) ==
    [mem[t] EXCEPT !.status = status, !.recoverable = recoverable]

\* submitTask and retryTask, from setTasks to the awaited put.
Submit(t) ==
    LET r == [status |-> "running", remote |-> FALSE, recoverable |-> FALSE]
    IN  /\ t \notin used /\ Cardinality(used) < MaxTasks
        /\ mem' = [mem EXCEPT ![t] = r]
        /\ writes' = Append(writes, Put("insert", t, r))
        /\ used' = used \cup {t}
        /\ exec' = [exec EXCEPT ![t] = "inserting"]
        /\ NoFault
        /\ UNCHANGED <<db, init, watchdog, timers, recovery, user, spoiled>>

\* executeTask up to its first await.  A task removed meanwhile is not executed;
\* one whose profile was removed fails (ExecFails).
Execute(t) ==
    /\ exec' = [exec EXCEPT ![t] = IF Present(t) THEN "loading" ELSE "idle"]
    /\ watchdog' = IF Running(t) /\ Kind[t] = "single" THEN watchdog \cup {t} ELSE watchdog

\* A request is committed, and whoever awaits it goes on.
CommitWrite ==
    /\ writes # <<>>
    /\ writes' = Tail(writes)
    /\ LET w == Head(writes)
       IN  /\ db' = CASE w.op = "clear" -> [t \in Ids |-> NoTask]
                    [] w.op = "scrub" -> db
                    [] OTHER -> [db EXCEPT ![w.task] = w.rec]
           /\ IF w.op = "insert" THEN Execute(w.task) ELSE UNCHANGED <<exec, watchdog>>
    /\ NoFault
    /\ UNCHANGED <<mem, used, init, timers, recovery, user, spoiled>>

\* The put of submitTask is refused: the submission stops there and the task
\* stays in the list, running.
InsertFails ==
    /\ writes # <<>> /\ Head(writes).op = "insert"
    /\ writes' = Tail(writes)
    /\ exec' = [exec EXCEPT ![Head(writes).task] = "idle"]
    /\ spoiled' = spoiled \cup {Head(writes).task}
    /\ Fault("quota")
    /\ UNCHANGED <<mem, db, used, init, watchdog, timers, recovery, user>>

(***************************************************************************)
(* executeTask.                                                            *)
(***************************************************************************)
\* The input images are loaded and callImageApi is under way.
CallApi(t) ==
    /\ exec[t] = "loading"
    /\ exec' = [exec EXCEPT ![t] = "calling"]
    /\ NoFault
    /\ UNCHANGED <<list, init, watchdog, timers, recovery, user, spoiled>>

\* onFalRequestEnqueued, onCustomTaskEnqueued.
Enqueued(t) ==
    /\ exec[t] = "calling" /\ Kind[t] \in {"fal", "custom"}
    /\ exec' = [exec EXCEPT ![t] = "polling"]
    /\ UpdateTask(t, [mem[t] EXCEPT !.remote = TRUE, !.recoverable = FALSE])
    /\ NoFault
    /\ UNCHANGED <<init, watchdog, timers, recovery, user, spoiled>>

Answerable(t) == exec[t] = IF Kind[t] \in {"fal", "custom"} THEN "polling" ELSE "calling"

\* The images arrive; a task that is no longer running does not want them.
ApiResult(t) ==
    /\ Answerable(t)
    /\ exec' = [exec EXCEPT ![t] = IF Running(t) THEN "storing" ELSE "idle"]
    /\ NoFault
    /\ UNCHANGED <<list, init, watchdog, timers, recovery, user, spoiled>>

\* MUTANT: no second look at the status after the images were stored.
OutputStoredUnchecked(t) ==
    /\ exec[t] = "storing"
    /\ exec' = [exec EXCEPT ![t] = "idle"]
    /\ watchdog' = watchdog \ {t}
    /\ UpdateTask(t, Ended(t, "done", FALSE))
    /\ NoFault
    /\ UNCHANGED <<init, timers, recovery, user, spoiled>>

\* storeTaskOutputImages is through: look again, then the task is done.
OutputStored(t) ==
    /\ exec[t] = "storing"
    /\ exec' = [exec EXCEPT ![t] = "idle"]
    /\ IF Running(t)
       THEN watchdog' = watchdog \ {t} /\ UpdateTask(t, Ended(t, "done", FALSE))
       ELSE UNCHANGED <<watchdog, list>>
    /\ NoFault
    /\ UNCHANGED <<init, timers, recovery, user, spoiled>>

\* The catch clause for an error that is not a lost connection to a known job:
\* a missing input image, a refused request, a failed store.
ExecFails(t) ==
    /\ exec[t] \in {"loading", "calling", "polling", "storing"}
    /\ exec' = [exec EXCEPT ![t] = "idle"]
    /\ watchdog' = watchdog \ {t}
    /\ IF Running(t) THEN UpdateTask(t, Ended(t, "error", FALSE)) ELSE UNCHANGED list
    /\ NoFault
    /\ UNCHANGED <<init, timers, recovery, user, spoiled>>

\* The catch clause for a lost connection to a queued job.  A task that was
\* removed counts as running here (latestTask = task), and gets a timer.
ExecDisconnected(t) ==
    /\ exec[t] = "polling"
    /\ exec' = [exec EXCEPT ![t] = "idle"]
    /\ watchdog' = watchdog \ {t}
    /\ IF Running(t) \/ ~Present(t)
       THEN UpdateTask(t, Ended(t, "error", TRUE)) /\ timers' = timers \cup {t}
       ELSE UNCHANGED <<list, timers>>
    /\ Fault("conn")
    /\ UNCHANGED <<init, recovery, user, spoiled>>

\* The request never ends.  The timeout of an OpenAI request is cleared when the
\* headers arrive, which leaves the watchdog, if there is one; that of a custom
\* provider when the job is queued; the fal client has none.
Stall(t) ==
    /\ exec[t] = "polling" \/ (exec[t] = "calling" /\ Kind[t] # "custom")
    /\ exec' = [exec EXCEPT ![t] = "stalled"]
    /\ Fault("stall")
    /\ UNCHANGED <<list, init, watchdog, timers, recovery, user, spoiled>>

\* scheduleOpenAIWatchdog's timer, failOpenAITaskIfStillRunning.
WatchdogFires(t) ==
    /\ t \in watchdog
    /\ watchdog' = watchdog \ {t}
    /\ IF Running(t) THEN UpdateTask(t, Ended(t, "error", mem[t].recoverable)) ELSE UNCHANGED list
    /\ NoFault
    /\ UNCHANGED <<init, exec, timers, recovery, user, spoiled>>

(***************************************************************************)
(* recoverFalTask and recoverCustomTask.                                   *)
(***************************************************************************)
\* The user deletes the profile or the provider of a queued job in the settings,
\* or sets it up again.
ChangeProfile(t) ==
    /\ t \in used /\ Kind[t] \in {"fal", "custom"}
    /\ orphans' = IF t \in orphans THEN orphans \ {t} ELSE orphans \cup {t}
    /\ UNCHANGED <<list, init, runner, user, spoiled, faults>>

\* The task is in the list, its job is known and not done.
Wanted(t) == Present(t) /\ mem[t].remote /\ mem[t].status # "done"

\* MUTANT: the timer's entry outlives the timer.
TimerFiresKept(t) ==
    /\ t \in timers
    /\ recovery' = [recovery EXCEPT ![t] = IF Wanted(t) /\ t \notin orphans THEN "querying" ELSE @]
    /\ NoFault
    /\ UNCHANGED <<list, init, exec, watchdog, timers, user, spoiled>>

\* Without a profile to ask with, the recovery only sets its timer again.
TimerFires(t) ==
    /\ t \in timers
    /\ timers' = IF Wanted(t) /\ t \in orphans THEN timers ELSE timers \ {t}
    /\ recovery' = [recovery EXCEPT ![t] = IF Wanted(t) /\ t \notin orphans THEN "querying" ELSE @]
    /\ NoFault
    /\ UNCHANGED <<list, init, exec, watchdog, user, spoiled>>

\* MUTANT: the timer is set again although the result is there.
RecoveryResultRetried(t) ==
    /\ recovery[t] = "querying"
    /\ timers' = timers \cup {t}
    /\ recovery' = [recovery EXCEPT ![t] = "idle"]
    /\ NoFault
    /\ UNCHANGED <<list, init, exec, watchdog, user, spoiled>>

RecoveryResult(t) ==
    /\ recovery[t] = "querying"
    /\ timers' = timers \ {t}
    /\ recovery' = [recovery EXCEPT ![t] =
           IF Present(t) /\ mem[t].status # "done" THEN "storing" ELSE "idle"]
    /\ NoFault
    /\ UNCHANGED <<list, init, exec, watchdog, user, spoiled>>

\* completeRecoveredFalTask, completeRecoveredCustomTask: no second look.
RecoveryStored(t) ==
    /\ recovery[t] = "storing"
    /\ recovery' = [recovery EXCEPT ![t] = "idle"]
    /\ UpdateTask(t, Ended(t, "done", FALSE))
    /\ NoFault
    /\ UNCHANGED <<init, exec, watchdog, timers, user, spoiled>>

\* A lost connection to fal.ai is tried again; the poll of a custom job goes on
\* by itself (pollCustomTaskResult), which is no step.
RecoveryDisconnected(t) ==
    /\ recovery[t] = "querying" /\ Kind[t] = "fal"
    /\ recovery' = [recovery EXCEPT ![t] = "idle"]
    /\ timers' = timers \cup {t}
    /\ Fault("conn")
    /\ UNCHANGED <<list, init, exec, watchdog, user, spoiled>>

\* Nothing bounds the query of a recovery either.
RecoveryStalls(t) ==
    /\ recovery[t] = "querying"
    /\ recovery' = [recovery EXCEPT ![t] = "stalled"]
    /\ Fault("stall")
    /\ UNCHANGED <<list, init, exec, watchdog, timers, user, spoiled>>

RecoveryFails(t) ==
    /\ recovery[t] \in {"querying", "storing"}
    /\ recovery' = [recovery EXCEPT ![t] = "idle"]
    /\ timers' = timers \ {t}
    /\ UpdateTask(t, Ended(t, "error", FALSE))
    /\ NoFault
    /\ UNCHANGED <<init, exec, watchdog, user, spoiled>>

(***************************************************************************)
(* Removing and clearing.  The image files go with the tasks; they are not *)
(* modelled.                                                               *)
(***************************************************************************)
Without(ids) == [t \in Ids |-> IF t \in ids THEN NoTask ELSE mem[t]]
Deletes(ids) == SetToSeq({Put("delete", t, NoTask) : t \in ids})

\* What the user may choose: one task, or all failed ones (clearFailedTasks).
Selections == {{t} : t \in {x \in Ids : Present(x)}}
              \cup ({{t \in Ids : mem[t].status = "error"}} \ {{}})

\* removeTask and removeMultipleTasks when no response has to be rewritten:
\* nothing else runs between the reading of the list and setTasks.
RemoveTasks ==
    /\ removing = NoRemoval
    /\ \E ids \in Selections : mem' = Without(ids) /\ writes' = writes \o Deletes(ids)
    /\ NoFault
    /\ UNCHANGED <<db, used, init, runner, user, spoiled>>

\* The removal of an agent task whose call is named in the stored response of
\* another task of its round: scrubAgentOutputPayloadsForDeletedTasks awaits the
\* put of that task, while the list as it is now is kept.
RemoveBegin ==
    /\ removing = NoRemoval
    /\ \E ids \in Selections :
        /\ ids \cap AgentTasks # {}
        /\ removing' = [ids |-> ids, list |-> Without(ids)]
    /\ writes' = Append(writes, Scrub)
    /\ NoFault
    /\ UNCHANGED <<mem, db, used, init, runner, clearing, spoiled>>

\* setTasks(remaining): whatever happened to the other tasks meanwhile is lost.
RemoveFinish ==
    /\ removing # NoRemoval /\ ~AwaitsWrite("scrub")
    /\ mem' = removing.list
    /\ spoiled' = spoiled \cup {t \in Ids \ removing.ids : mem[t] # removing.list[t]}
    /\ writes' = writes \o Deletes(removing.ids)
    /\ removing' = NoRemoval
    /\ NoFault
    /\ UNCHANGED <<db, used, init, runner, clearing>>

\* clearData: the stores are cleared first, the list last.  What initStore has
\* read and not yet shown comes back.
ClearBegin ==
    /\ ~clearing
    /\ writes' = Append(writes, Clear)
    /\ clearing' = TRUE
    /\ spoiled' = spoiled \cup {t \in Ids : stored[t] # NoTask}
    /\ NoFault
    /\ UNCHANGED <<mem, db, used, init, runner, removing>>

ClearFinish ==
    /\ clearing /\ ~AwaitsWrite("clear")
    /\ mem' = [t \in Ids |-> NoTask]
    /\ clearing' = FALSE
    /\ NoFault
    /\ UNCHANGED <<db, writes, used, init, runner, removing, spoiled>>

(***************************************************************************)
(* A page reload and initStore.                                            *)
(***************************************************************************)
\* The page goes away with its requests; the new one reads the tasks first.
Reload ==
    /\ mem' = [t \in Ids |-> NoTask]
    /\ writes' = <<>>
    /\ page' = "loading"
    /\ stored' = db
    /\ exec' = [t \in Tasks |-> "idle"]
    /\ recovery' = [t \in Tasks |-> "idle"]
    /\ watchdog' = {} /\ timers' = {}
    /\ removing' = NoRemoval /\ clearing' = FALSE
    /\ Fault("reload")
    /\ UNCHANGED <<db, used, spoiled>>

\* markInterruptedOpenAIRunningTasks.
Interrupted(t) ==
    /\ t \in Tasks /\ stored[t].status = "running"
    /\ Kind[t] # "fal" /\ ~stored[t].remote

Marked == [t \in Ids |-> IF Interrupted(t) THEN [stored[t] EXCEPT !.status = "error"] ELSE stored[t]]

\* The interrupted tasks are written back, and awaited.
InitMark ==
    /\ page = "loading"
    /\ page' = "marking"
    /\ stored' = Marked
    /\ writes' = writes \o SetToSeq({Put("mark", t, Marked[t]) : t \in {x \in Ids : Interrupted(x)}})
    /\ NoFault
    /\ UNCHANGED <<mem, db, used, runner, user, spoiled>>

\* MUTANT: only the tasks marked recoverable are taken up again.
ResumableMarked(t) == t \in Tasks /\ stored[t].remote /\ stored[t].recoverable

\* The jobs initStore schedules a recovery for.
Resumable(t) ==
    /\ t \in Tasks /\ stored[t].remote
    /\ stored[t].status = "running" \/ stored[t].recoverable

\* setTasks(tasks) replaces the list, tasks submitted while it loaded included,
\* and recoveries are scheduled.  A fal task without a request id is left running.
InitFinish ==
    /\ page = "marking" /\ ~AwaitsWrite("mark")
    /\ page' = "ready"
    /\ mem' = stored
    /\ timers' = timers \cup {t \in Ids : Resumable(t)}
    /\ spoiled' = spoiled \cup {t \in Ids : stored[t].status = "running" /\ ~stored[t].remote}
    /\ stored' = [t \in Ids |-> NoTask]
    /\ NoFault
    /\ UNCHANGED <<db, writes, used, exec, watchdog, recovery, user>>

-----------------------------------------------------------------------------
Init ==
    /\ mem \in [Ids -> Records]
    /\ \A t \in Tasks : mem[t] = NoTask
    /\ \A t \in AgentTasks :
        mem[t] \in {[NoTask EXCEPT !.status = "done"], [NoTask EXCEPT !.status = "error"]}
    /\ db = mem
    /\ writes = <<>>
    /\ page = "ready"
    /\ stored = [t \in Ids |-> NoTask]
    /\ used = {}
    /\ exec = [t \in Tasks |-> "idle"]
    /\ watchdog = {} /\ timers = {}
    /\ recovery = [t \in Tasks |-> "idle"]
    /\ removing = NoRemoval
    /\ clearing = FALSE
    /\ orphans = {} /\ spoiled = {}
    /\ faults = 0

ExecStep(t) == \/ CallApi(t) \/ Enqueued(t) \/ ApiResult(t) \/ OutputStored(t)
               \/ ExecFails(t) \/ ExecDisconnected(t) \/ Stall(t) \/ WatchdogFires(t)
RecoveryStep(t) == \/ TimerFires(t) \/ RecoveryResult(t) \/ RecoveryStored(t)
                   \/ RecoveryDisconnected(t) \/ RecoveryStalls(t) \/ RecoveryFails(t)
UserStep == \/ (\E t \in Tasks : Submit(t) \/ ChangeProfile(t)) \/ RemoveTasks \/ RemoveBegin \/ ClearBegin
PageStep == \/ CommitWrite \/ InsertFails \/ RemoveFinish \/ ClearFinish
            \/ Reload \/ InitMark \/ InitFinish

Next == UserStep \/ PageStep \/ \E t \in Tasks : ExecStep(t) \/ RecoveryStep(t)

Spec == Init /\ [][Next]_vars

-----------------------------------------------------------------------------
(***************************************************************************)
(* Safety.  spoiled holds the tasks that are known to go wrong: the first  *)
(* put was refused, a fal task was reloaded before its request id was      *)
(* recorded, or a removal wrote an old list over it.  The properties are   *)
(* about all others.                                                       *)
(***************************************************************************)
Settled(r) == r.status = "done" \/ (r.status = "error" /\ ~r.recoverable)

\* Every variable has its type.
TypeOK ==
    /\ mem \in [Ids -> Records] /\ db \in [Ids -> Records] /\ stored \in [Ids -> Records]
    /\ writes \in Seq(WriteOps)
    /\ page \in {"loading", "marking", "ready"}
    /\ used \subseteq Tasks
    /\ exec \in [Tasks -> {"idle", "inserting", "loading", "calling", "polling", "storing", "stalled"}]
    /\ recovery \in [Tasks -> {"idle", "querying", "storing", "stalled"}]
    /\ watchdog \subseteq Tasks /\ timers \subseteq Tasks
    /\ orphans \subseteq Tasks /\ spoiled \subseteq Ids
    /\ removing \in [ids : SUBSET Ids, list : [Ids -> Records]]
    /\ clearing \in BOOLEAN
    /\ faults \in Nat

\* A call without any timeout never returns; a reload takes such a job up again.
Hangs(t) == recovery[t] = "stalled" \/ (exec[t] = "stalled" /\ Kind[t] # "single")

\* A task that is shown as running, or as failed but to be recovered, has
\* somebody who will end it: its execution, its recovery or the timer of one,
\* the watchdog if a request it guards stalls, or else a call that hangs.
\* Reloads, late answers and removals of other tasks do not strand it.
UnsettledHasRunner ==
    \A t \in Tasks \ spoiled :
        Present(t) /\ ~Settled(mem[t]) =>
            \/ exec[t] \notin {"idle", "stalled"} \/ t \in watchdog
            \/ t \in timers \/ recovery[t] \notin {"idle", "stalled"} \/ Hangs(t)

\* Nobody else does the same work: the execution of a task, its recovery and
\* the timer of one exclude each other, so that a result is stored once.
OneRunner ==
    \A t \in Tasks :
        /\ t \in timers => exec[t] = "idle" /\ recovery[t] = "idle"
        /\ recovery[t] # "idle" => exec[t] = "idle"

\* What the user sees is what a reload will bring back: once its writes are
\* through, the stored record of a task is the one in memory
\* (updateTaskInStore, whose put nobody awaits).
StoredMatchesMemory ==
    page = "ready" /\ removing = NoRemoval /\ ~clearing =>
        \A t \in Ids \ spoiled :
            /\ Present(t)
            /\ \A i \in DOMAIN writes : writes[i].op = "scrub" \/ (writes[i].op # "clear" /\ writes[i].task # t)
            => db[t] = mem[t]

\* A task that ended keeps its outcome as long as the page lives: an answer
\* that comes after the watchdog failed the task, or after another outcome, is
\* dropped (the two looks at the status in executeTask).
SettledStays ==
    [][\A t \in Ids \ spoiled' :
        Present(t) /\ Settled(mem[t]) /\ mem'[t] # NoTask => mem'[t] = mem[t]]_vars

\* clearFailedTasks keeps the tasks that failed after it read the list.
CleanupKeepsFailed ==
    [][/\ removing # NoRemoval /\ removing' = NoRemoval /\ page' = "ready"
       /\ \A t \in removing.ids : mem[t].status = "error"
       => \A t \in Ids \ removing.ids : mem[t].status = "error" => mem'[t] = mem[t]]_vars

-----------------------------------------------------------------------------
(***************************************************************************)
(* Liveness.  IndexedDB answers, timers fire, and a call ends or fails     *)
(* unless it is one of those that stall; the faults of a behaviour are     *)
(* finite.                                                                 *)
(***************************************************************************)
ExecProgress(t) == CallApi(t) \/ Enqueued(t) \/ ApiResult(t) \/ OutputStored(t) \/ ExecFails(t)
RecoveryProgress(t) == RecoveryResult(t) \/ RecoveryStored(t) \/ RecoveryFails(t)

Fairness ==
    /\ WF_vars(CommitWrite) /\ WF_vars(InitMark) /\ WF_vars(InitFinish)
    /\ WF_vars(RemoveFinish) /\ WF_vars(ClearFinish)
    /\ \A t \in Tasks :
        /\ WF_vars(ExecProgress(t)) /\ WF_vars(WatchdogFires(t))
        /\ WF_vars(TimerFires(t)) /\ WF_vars(RecoveryProgress(t))

FairSpec == Spec /\ Fairness

\* Every task that is shown is in the end done, failed for good, or removed,
\* unless a call without a timeout hangs, or a queued job cannot be asked for
\* because its profile is missing.
EventuallySettled ==
    \A t \in Tasks :
        Present(t) ~> \/ ~Present(t) \/ Settled(mem[t]) \/ t \in spoiled
                      \/ Hangs(t) \/ (t \in timers /\ t \in orphans)
=============================================================================
