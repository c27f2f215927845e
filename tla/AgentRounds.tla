----------------------------- MODULE AgentRounds -----------------------------
(***************************************************************************)
(* The rounds of one agent conversation (store.ts): submitAgentMessage,    *)
(* regenerateAgentAssistantMessage, executeAgentRound with its streamed    *)
(* image tasks, its batches and its tool budget, stopAgentResponse, the    *)
(* deletion of a round, and a page reload.                                 *)
(*                                                                         *)
(* A step is what happens between two awaits.  Several executions of the   *)
(* same round may be alive: a stopped one that is still storing an image,  *)
(* and the one that regenerates the round.  Texts, images and messages are *)
(* left out: a round is its status, a task its status, its round and       *)
(* whether it belongs to a batch.  The streamed events of a response       *)
(* (streamImages) are steps that may or may not happen.                    *)
(***************************************************************************)
EXTENDS Integers, FiniteSets

CONSTANTS
    MaxRounds,    \* bound on the rounds of the conversation
    MaxExecs,     \* bound on the executions of a behaviour
    MaxTasks,     \* bound on the image tasks of a behaviour
    MaxTurns,     \* bound on the turns the model asks for in an execution
    MaxToolCalls, \* the tool budget (agentMaxToolRounds)
    MaxDeletes,   \* bound on the rounds that are deleted
    MaxReloads    \* bound on the page reloads of a behaviour

ASSUME AgentBoundsAssumption ==
    /\ MaxRounds \in Nat /\ MaxExecs \in Nat /\ MaxTasks \in Nat
    /\ MaxTurns \in Nat /\ MaxToolCalls \in Nat \ {0}
    /\ MaxDeletes \in Nat /\ MaxReloads \in Nat

Rounds == 1 .. MaxRounds
Execs  == 1 .. MaxExecs
Tasks  == 1 .. MaxTasks

VARIABLES
    round,       \* status of each round
    task,        \* the image tasks
    exec,        \* the calls of submitAgentMessage and executeAgentRound
    controllers, \* agentRoundControllers: the execution a stop would abort, 0 when none
    loading,     \* initStore has not yet normalised the conversations
    reloads

vars == <<round, task, exec, controllers, loading, reloads>>

NoTask == [status |-> "absent", round |-> 0, batch |-> FALSE, exec |-> 0]
Removed == [NoTask EXCEPT !.status = "removed"]
NewExec(pc, r) == [pc |-> pc, round |-> r, aborted |-> FALSE, turns |-> 0]
NoExec == NewExec("unused", 0)
Ended  == NewExec("ended", 0)
Live(e) == exec[e].pc \notin {"unused", "submitting", "ended"}

\* Ids are generated in order.
NextExec(e) == exec[e] = NoExec /\ \A d \in Execs : d < e => exec[d] # NoExec
NextTask(t) == task[t] = NoTask /\ \A s \in Tasks : s < t => task[s] # NoTask
NextRound(r) == round[r] = "unused" /\ \A s \in Rounds : s < r => round[s] # "unused"

SomeRunning == \E r \in Rounds : round[r] = "running"
Own(e) == {t \in Tasks : task[t].exec = e}

\* The part of toolCallsUsed that tasks show: countResponseToolCalls counts every
\* built-in image call of a response, also one without a task or whose task was
\* removed, and the images of a batch are added.
ToolCallsKnown(e) == Cardinality({t \in Own(e) : ~task[t].batch})

Go(e, pc) == exec' = [exec EXCEPT ![e].pc = pc]
End(e) == exec' = [exec EXCEPT ![e] = Ended]

-----------------------------------------------------------------------------
(***************************************************************************)
(* Starting a round.                                                       *)
(***************************************************************************)
\* MUTANT: the controller is not registered before the first await.
StartUnregistered(e, r) ==
    /\ round' = [round EXCEPT ![r] = "running"]
    /\ exec' = [exec EXCEPT ![e] = NewExec("preparing", r)]
    /\ UNCHANGED <<controllers, task, loading, reloads>>

\* executeAgentRound up to its first await.
Start(e, r) ==
    /\ round' = [round EXCEPT ![r] = "running"]
    /\ exec' = [exec EXCEPT ![e] = NewExec("preparing", r)]
    /\ controllers' = [controllers EXCEPT ![r] = e]
    /\ UNCHANGED <<task, loading, reloads>>

\* submitAgentMessage up to the awaits for the mask and the input images: the
\* only look at whether a round is running.  A round that failed may be edited.
SubmitCheck(e) ==
    /\ NextExec(e) /\ ~SomeRunning
    /\ \E r \in {0} \cup {x \in Rounds : round[x] = "error"} :
        exec' = [exec EXCEPT ![e] = NewExec("submitting", r)]
    /\ UNCHANGED <<round, task, controllers, loading, reloads>>

\* The rest of it: the round is added, or the edited one is overwritten.
SubmitCommit(e) ==
    /\ exec[e].pc = "submitting"
    /\ \E r \in Rounds :
        /\ IF exec[e].round = 0 THEN NextRound(r) ELSE r = exec[e].round /\ round[r] # "deleted"
        /\ Start(e, r)

\* The mask does not fit, or an image cannot be stored.
SubmitFails(e) ==
    /\ exec[e].pc = "submitting"
    /\ End(e)
    /\ UNCHANGED <<round, task, controllers, loading, reloads>>

\* regenerateAgentAssistantMessage: a failed round is run again, any other one
\* gets a sibling.
Regenerate(e) ==
    /\ NextExec(e) /\ ~SomeRunning
    /\ \E source \in Rounds, r \in Rounds :
        /\ round[source] \in {"done", "error"}
        /\ IF round[source] = "error" THEN r = source ELSE NextRound(r)
        /\ Start(e, r)

-----------------------------------------------------------------------------
(***************************************************************************)
(* How an execution ends.                                                  *)
(***************************************************************************)
\* MUTANT: the controller of the round is deleted, whoever set it.
ReleaseAny(e) == [controllers EXCEPT ![exec[e].round] = 0]

\* The finally clause: the controller is deleted by the execution that set it.
Release(e) == [r \in Rounds |-> IF controllers[r] = e THEN 0 ELSE controllers[r]]

\* MUTANT: the tasks that already ended are marked as well.
EndTasksAll(r, ts) ==
    [t \in Tasks |-> IF task[t].round = r /\ t \in ts THEN [task[t] EXCEPT !.status = "error"] ELSE task[t]]

\* markAgentRoundTasksStopped and markAgentRoundTasksFailed: by round, not by
\* execution.
EndTasks(r, ts) ==
    [t \in Tasks |-> IF task[t].round = r /\ task[t].status = "running" /\ t \in ts
                     THEN [task[t] EXCEPT !.status = "error"] ELSE task[t]]

BuiltIn == {t \in Tasks : ~task[t].batch}
SetStatus(r, from, status) == [round EXCEPT ![r] = IF @ \in from THEN status ELSE @]
Existing == {"running", "done", "error"}

\* MUTANT: the tasks of a round that is done are left alone.
FinishLeavesTasks(e) ==
    /\ round' = SetStatus(exec[e].round, Existing, "done")
    /\ controllers' = Release(e)
    /\ End(e)
    /\ UNCHANGED <<task, loading, reloads>>

\* The end of the try block.  The round becomes done whether or not it was
\* stopped or started again meanwhile: the status is found by the id of the
\* round, so that a late execution ends the round of the one that replaced it.
Finish(e) ==
    /\ task' = EndTasks(exec[e].round, BuiltIn)
    /\ round' = SetStatus(exec[e].round, Existing, "done")
    /\ controllers' = Release(e)
    /\ End(e)
    /\ UNCHANGED <<loading, reloads>>

\* The catch clause: after an abort the round and its tasks are marked stopped,
\* if they are running; any other error fails them.
Throw(e) ==
    /\ task' = EndTasks(exec[e].round, Tasks)
    /\ round' = SetStatus(exec[e].round, IF exec[e].aborted THEN {"running"} ELSE Existing, "error")
    /\ controllers' = Release(e)
    /\ End(e)
    /\ UNCHANGED <<loading, reloads>>

-----------------------------------------------------------------------------
(***************************************************************************)
(* executeAgentRound.                                                      *)
(***************************************************************************)
Keep == UNCHANGED <<controllers, loading, reloads>>

\* MUTANT: the loop calls the API without a look at the signal.
CallApiUnchecked(e) == Go(e, "calling") /\ UNCHANGED <<round, task>> /\ Keep

\* The checks for an abort, after the input was built and at the top of the loop.
CallApi(e) ==
    IF exec[e].aborted THEN Throw(e) ELSE Go(e, "calling") /\ UNCHANGED <<round, task>> /\ Keep

Prepared(e) == exec[e].pc = "preparing" /\ CallApi(e)

\* MUTANT: the task goes to whichever execution holds the controller.
AddTaskToController(e, t, status, batch) ==
    /\ NextTask(t)
    /\ task' = [task EXCEPT ![t] = [status |-> status, round |-> exec[e].round, batch |-> batch,
                                    exec |-> controllers[exec[e].round]]]

AddTask(e, t, status, batch) ==
    /\ NextTask(t)
    /\ task' = [task EXCEPT ![t] = [status |-> status, round |-> exec[e].round, batch |-> batch, exec |-> e]]

\* onImageToolStarted, ensureStreamingAgentTask.
ToolStarted(e) ==
    /\ exec[e].pc = "calling" /\ ~exec[e].aborted
    /\ \E t \in Tasks : AddTask(e, t, "running", FALSE)
    /\ UNCHANGED <<round, exec>> /\ Keep

\* onImageToolFailed, failAgentImageTask.
ToolFailed(e) ==
    /\ exec[e].pc = "calling" /\ ~exec[e].aborted
    /\ \E t \in Own(e) : /\ task[t].status = "running" /\ ~task[t].batch
                         /\ task' = [task EXCEPT ![t].status = "error"]
    /\ UNCHANGED <<round, exec>> /\ Keep

\* completeAgentImageTask, after storeImage: the task is done even if it was
\* stopped while the image was stored.
ToolCompleted(e) ==
    /\ exec[e].pc \in {"calling", "storing"}
    /\ \E t \in Own(e) : /\ task[t].status \in {"running", "error"} /\ ~task[t].batch
                         /\ task' = [task EXCEPT ![t].status = "done"]
    /\ UNCHANGED <<round, exec>> /\ Keep

\* The response is complete.
ApiReturned(e) ==
    /\ exec[e].pc = "calling"
    /\ IF exec[e].aborted THEN Throw(e) ELSE Go(e, "storing") /\ UNCHANGED <<round, task>> /\ Keep

\* The stream falls silent after its headers: callAgentResponsesApi returns the
\* promise of the stream without awaiting it, and its finally clause clears the
\* timeout.  Requests without a stream and the items of a batch keep theirs.
Stall(e) ==
    /\ exec[e].pc = "calling" /\ ~exec[e].aborted
    /\ Go(e, "stalled")
    /\ UNCHANGED <<round, task>> /\ Keep

\* A stop cancels the reader of the stream (readJsonServerSentEvents).
StallStopped(e) == exec[e].pc = "stalled" /\ exec[e].aborted /\ Throw(e)

\* An image of the response for which there is no task yet.
ImageStored(e) ==
    /\ exec[e].pc = "storing"
    /\ \E t \in Tasks : AddTask(e, t, "done", FALSE)
    /\ UNCHANGED <<round, exec>> /\ Keep

\* The images are stored.  The model asked for nothing more, for a batch (several
\* batches of one response are one here), or for another turn
\* (continue_generation).
NothingMore(e) == exec[e].pc = "storing" /\ Finish(e)

AskedForMore(e) ==
    /\ exec[e].pc = "storing" /\ exec[e].turns < MaxTurns
    /\ \E pc \in {"carding", "deciding"} :
        exec' = [exec EXCEPT ![e] = [exec[e] EXCEPT !.pc = pc, !.turns = exec[e].turns + 1]]
    /\ UNCHANGED <<round, task>> /\ Keep

\* executeBatchFunctionCall: one card after the other, with no look at the
\* signal, then all requests at once.
BatchCard(e) ==
    /\ exec[e].pc = "carding"
    /\ \E t \in Tasks : AddTask(e, t, "running", TRUE)
    /\ UNCHANGED <<round, exec>> /\ Keep

BatchCalled(e) ==
    /\ exec[e].pc = "carding"
    /\ Go(e, "batching")
    /\ UNCHANGED <<round, task>> /\ Keep

\* completeAgentImageTask for an item of the batch.
BatchCompleted(e) ==
    /\ exec[e].pc = "batching"
    /\ \E t \in Own(e) : /\ task[t].batch /\ task[t].status \in {"running", "error"}
                         /\ task' = [task EXCEPT ![t].status = "done"]
    /\ UNCHANGED <<round, exec>> /\ Keep

\* MUTANT: the batch waits for every item to end by itself.
BatchSettledWaits(e) ==
    /\ exec[e].pc = "batching"
    /\ \A t \in Own(e) : task[t].batch => task[t].status # "running"
    /\ Go(e, "deciding")
    /\ UNCHANGED <<round, task>> /\ Keep

\* Promise.allSettled: the items without an image are failed.
BatchSettled(e) ==
    /\ exec[e].pc = "batching"
    /\ task' = [t \in Tasks |-> IF t \in Own(e) /\ task[t].batch /\ task[t].status = "running"
                                THEN [task[t] EXCEPT !.status = "error"] ELSE task[t]]
    /\ Go(e, "deciding")
    /\ UNCHANGED round /\ Keep

\* The budget is used up, which calls without a task may do, or the round is
\* gone: the loop ends.  Otherwise the input of the next turn is built.
Decided(e) ==
    /\ exec[e].pc = "deciding"
    /\ \/ Finish(e)
       \/ /\ ToolCallsKnown(e) < MaxToolCalls /\ round[exec[e].round] # "deleted"
          /\ CallApi(e)

\* A refused request, a lost connection, a missing mask, a failed store; the
\* items of a batch fail one by one (BatchSettled).
ExecFails(e) ==
    /\ Live(e) /\ exec[e].pc # "batching"
    /\ Throw(e)

-----------------------------------------------------------------------------
(***************************************************************************)
(* The user, and the page.                                                 *)
(***************************************************************************)
\* stopAgentResponse.
Stop ==
    /\ \E r \in Rounds :
        /\ round[r] = "running"
        /\ exec' = [e \in Execs |-> IF controllers[r] = e THEN [exec[e] EXCEPT !.aborted = TRUE] ELSE exec[e]]
        /\ task' = EndTasks(r, Tasks)
        /\ round' = [round EXCEPT ![r] = "error"]
    /\ Keep

\* The deletion of a round, which may be running, and of the tasks it names when
\* the user is asked: a round that was run again no longer names the old ones.
DeleteRound ==
    /\ Cardinality({r \in Rounds : round[r] = "deleted"}) < MaxDeletes
    /\ \E r \in Rounds :
        /\ round[r] \in Existing
        /\ round' = [round EXCEPT ![r] = "deleted"]
        /\ \E named \in SUBSET {t \in Tasks : task[t].round = r} :
            task' = [t \in Tasks |-> IF t \in named THEN Removed ELSE task[t]]
    /\ UNCHANGED exec /\ Keep

\* initStore takes a round that is running for one that was interrupted
\* (normalizeAgentRound), even when it was started while the page loaded.
Normalise ==
    /\ loading
    /\ loading' = FALSE
    /\ round' = [r \in Rounds |-> IF round[r] = "running" THEN "error" ELSE round[r]]
    /\ UNCHANGED <<task, exec, controllers, reloads>>

\* The page is loaded again: executions are gone, rounds and tasks that were
\* running are marked as interrupted.  So is what ended just before, if the write
\* of its end, which nobody awaits, did not get through (updateTaskInStore,
\* updateAgentConversation).
Reload ==
    /\ reloads < MaxReloads
    /\ reloads' = reloads + 1
    /\ loading' = TRUE
    /\ exec' = [e \in Execs |-> IF exec[e] = NoExec THEN NoExec ELSE Ended]
    /\ controllers' = [r \in Rounds |-> 0]
    /\ \E lost \in SUBSET {r \in Rounds : round[r] = "done"} :
        round' = [r \in Rounds |-> IF round[r] = "running" \/ r \in lost THEN "error" ELSE round[r]]
    /\ \E lost \in SUBSET {t \in Tasks : task[t].status = "done"} :
        task' = [t \in Tasks |-> IF task[t].status = "running" \/ t \in lost
                                 THEN [task[t] EXCEPT !.status = "error"] ELSE task[t]]

-----------------------------------------------------------------------------
Init ==
    /\ round = [r \in Rounds |-> "unused"]
    /\ task = [t \in Tasks |-> NoTask]
    /\ exec = [e \in Execs |-> NoExec]
    /\ controllers = [r \in Rounds |-> 0]
    /\ loading = TRUE
    /\ reloads = 0

Turn(e) ==
    \/ Prepared(e) \/ ApiReturned(e) \/ NothingMore(e) \/ AskedForMore(e)
    \/ BatchCalled(e) \/ BatchSettled(e) \/ Decided(e) \/ StallStopped(e)

Next ==
    \/ \E e \in Execs :
        \/ SubmitCheck(e) \/ SubmitCommit(e) \/ SubmitFails(e) \/ Regenerate(e)
        \/ Turn(e) \/ ExecFails(e) \/ Stall(e)
        \/ ToolStarted(e) \/ ToolFailed(e) \/ ToolCompleted(e) \/ ImageStored(e)
        \/ BatchCard(e) \/ BatchCompleted(e)
    \/ Stop \/ DeleteRound \/ Normalise \/ Reload

Spec == Init /\ [][Next]_vars

-----------------------------------------------------------------------------
\* Every variable has its type.
TypeOK ==
    /\ round \in [Rounds -> {"unused", "deleted"} \cup Existing]
    /\ task \in [Tasks -> {NoTask, Removed} \cup [status : {"running", "done", "error"},
                                                  round : Rounds, batch : BOOLEAN, exec : Execs]]
    /\ exec \in [Execs -> [pc : {"unused", "submitting", "preparing", "calling", "stalled",
                                 "storing", "carding", "batching", "deciding", "ended"},
                           round : {0} \cup Rounds, aborted : BOOLEAN,
                           turns : 0 .. MaxTurns]]
    /\ controllers \in [Rounds -> {0} \cup Execs]
    /\ loading \in BOOLEAN
    /\ reloads \in 0 .. MaxReloads

\* A round that is shown as running can be stopped: its controller belongs to an
\* execution of this round that is alive and was not stopped before, also after
\* a stop, a second start and the late end of the first execution.
RunningCanBeStopped ==
    \A r \in Rounds : round[r] = "running" =>
        /\ controllers[r] \in Execs
        /\ Live(controllers[r]) /\ exec[controllers[r]].round = r /\ ~exec[controllers[r]].aborted

\* No task keeps spinning: a running task belongs to an execution that is alive
\* and will end it, whatever was stopped, deleted, failed or run twice.
RunningTaskHasExecution ==
    \A t \in Tasks : task[t].status = "running" =>
        Live(task[t].exec) /\ exec[task[t].exec].round = task[t].round

\* After a stop the execution makes no further request of the model: a batch or
\* an image that was being stored may end, the next turn never starts.
StoppedMakesNoCall ==
    [][\A e \in Execs : exec[e].aborted /\ exec'[e].pc = "calling" => exec[e].pc = "calling"]_vars

\* A controller is given up only with the execution that registered it: a stopped
\* execution of the round that ends late, while the round was started again,
\* leaves the controller of the new one alone (the comparison in the finally
\* clause of executeAgentRound).
LateEndKeepsController ==
    [][\A r \in Rounds : controllers[r] # 0 /\ controllers'[r] = 0
                          => exec'[controllers[r]].pc \in {"unused", "ended"}]_vars

\* An image that was generated stays while the page is open: no stop, failure or
\* late end of another execution takes a task back that is done.
DoneStays ==
    [][reloads' = reloads =>
        \A t \in Tasks : task[t].status = "done" => task'[t].status \in {"done", "removed"}]_vars

-----------------------------------------------------------------------------
(***************************************************************************)
(* Liveness.  Images are stored, the model asks for finitely many turns,   *)
(* and requests end or are timed out.  A stream may stall (Stall is not    *)
(* fair and may happen wherever a stream is read); only a stop ends it     *)
(* then, and nobody has to press it.                                       *)
(***************************************************************************)
Fairness ==
    /\ \A e \in Execs : WF_vars(Turn(e) \/ SubmitCommit(e) \/ SubmitFails(e))
    /\ WF_vars(Normalise)

FairSpec == Spec /\ Fairness

\* The stream of the execution is silent and the user did not stop it.
Hangs(e) == exec[e].pc = "stalled" /\ ~exec[e].aborted

\* In the end only silent streams are left: a round that still runs is one whose
\* execution hangs and can be stopped, and a card that still spins belongs to an
\* execution that hangs.  Everything else came to its end, also after stops,
\* deletions, failed batches and second executions of a round.
EventuallyIdle ==
    <>[](/\ \A r \in Rounds : round[r] = "running" => Hangs(controllers[r])
         /\ \A t \in Tasks : task[t].status = "running" => Hangs(task[t].exec))
=============================================================================
