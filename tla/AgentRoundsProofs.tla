-------------------------- MODULE AgentRoundsProofs --------------------------
(***************************************************************************)
(* The safety of agent rounds for any number of rounds, executions, tasks, *)
(* turns and reloads.  RunningCanBeStopped is inductive with the types; a  *)
(* running task has its execution because Finish only leaves the tasks of  *)
(* batches alone, and an execution that finishes has no open batch.        *)
(***************************************************************************)
EXTENDS AgentRounds, TLAPS

\* An execution of executeAgentRound knows its round.
LiveHasRound == \A e \in Execs : Live(e) => exec[e].round \in Rounds

\* The items of a batch only run while their execution makes the batch.
BatchOpen ==
    \A t \in Tasks : task[t].status = "running" /\ task[t].batch
                     => exec[task[t].exec].pc \in {"carding", "batching"}

AgentInv == /\ TypeOK /\ LiveHasRound /\ BatchOpen
            /\ RunningCanBeStopped /\ RunningTaskHasExecution

TaskRecords == [status : {"running", "done", "error"}, round : Rounds, batch : BOOLEAN, exec : Execs]
ExecRecords == [pc : {"unused", "submitting", "preparing", "calling", "stalled",
                      "storing", "carding", "batching", "deciding", "ended"},
                round : {0} \cup Rounds, aborted : BOOLEAN, turns : 0 .. MaxTurns]

LEMMA ZeroIsNone == 0 \notin Rounds /\ 0 \notin Execs
  BY AgentBoundsAssumption, SMT DEF Rounds, Execs

LEMMA NewExecType ==
  ASSUME NEW pc \in {"unused", "submitting", "preparing", "ended"}, NEW r \in {0} \cup Rounds
  PROVE  /\ NewExec(pc, r) \in ExecRecords
         /\ NewExec(pc, r).pc = pc /\ NewExec(pc, r).round = r /\ NewExec(pc, r).aborted = FALSE
<1>1. 0 \in 0 .. MaxTurns
  BY AgentBoundsAssumption
<1>2. NewExec(pc, r) \in ExecRecords
  BY <1>1 DEF NewExec, ExecRecords
<1>3. NewExec(pc, r).pc = pc /\ NewExec(pc, r).round = r /\ NewExec(pc, r).aborted = FALSE
  BY DEF NewExec
<1> QED BY <1>2, <1>3

LEMMA Defaults ==
    /\ NoExec \in ExecRecords /\ Ended \in ExecRecords
    /\ NoTask.status = "absent" /\ Removed.status = "removed"
    /\ NoExec.pc = "unused" /\ Ended.pc = "ended"
  BY NewExecType DEF NoExec, Ended, NoTask, Removed

LEMMA InitInv == Init => AgentInv
  BY AgentBoundsAssumption, ZeroIsNone, Defaults, SMT DEF Init, AgentInv, TypeOK, LiveHasRound, BatchOpen,
     RunningCanBeStopped, RunningTaskHasExecution, Live, ExecRecords, NoTask

-----------------------------------------------------------------------------
\* A step that changes no execution but e, which stays alive in its round and is
\* not stopped, and no round, controller or task.
LEMMA GoStep ==
  ASSUME AgentInv, NEW e \in Execs, Live(e), NEW p \in ExecRecords,
         p.pc \notin {"unused", "submitting", "ended"}, p.round = exec[e].round,
         p.aborted = exec[e].aborted,
         exec[e].pc \in {"carding", "batching"} => p.pc \in {"carding", "batching"},
         exec' = [exec EXCEPT ![e] = p], UNCHANGED <<round, task, controllers, loading, reloads>>
  PROVE  AgentInv'
<1> USE DEF AgentInv
<1>1. TypeOK'
  BY SMT DEF TypeOK, ExecRecords
<1>2. LiveHasRound'
  BY SMT DEF TypeOK, ExecRecords, LiveHasRound, Live
<1>3. BatchOpen'
  BY SMT DEF TypeOK, BatchOpen, RunningTaskHasExecution, NoTask, Removed
<1>4. RunningCanBeStopped'
  BY SMT DEF TypeOK, RunningCanBeStopped, Live
<1>5. RunningTaskHasExecution'
  BY SMT DEF TypeOK, RunningTaskHasExecution, Live
<1> QED BY <1>1, <1>2, <1>3, <1>4, <1>5

\* The task list changes and nothing else.
LEMMA TaskStep ==
  ASSUME AgentInv, task' \in [Tasks -> {NoTask, Removed} \cup TaskRecords],
         \A t \in Tasks : task'[t].status = "running" =>
            \/ task'[t] = task[t]
            \/ /\ Live(task'[t].exec) /\ exec[task'[t].exec].round = task'[t].round
               /\ task'[t].batch => exec[task'[t].exec].pc \in {"carding", "batching"},
         UNCHANGED <<round, exec, controllers, loading, reloads>>
  PROVE  AgentInv'
<1> USE DEF AgentInv
<1>1. TypeOK'
  BY SMT DEF TypeOK, TaskRecords
<1>2. LiveHasRound' /\ RunningCanBeStopped'
  BY SMT DEF TypeOK, LiveHasRound, RunningCanBeStopped, Live
<1>3. BatchOpen' /\ RunningTaskHasExecution'
  BY SMT DEF BatchOpen, RunningTaskHasExecution, Live
<1> QED BY <1>1, <1>2, <1>3

\* What marking the tasks of a round does to each of them.
LEMMA EndTasksTypes ==
  ASSUME TypeOK, NEW r, NEW ts
  PROVE  /\ EndTasks(r, ts) \in [Tasks -> {NoTask, Removed} \cup TaskRecords]
         /\ \A t \in Tasks :
              EndTasks(r, ts)[t].status = "running" =>
                 EndTasks(r, ts)[t] = task[t] /\ ~(task[t].round = r /\ t \in ts)
<1>1. ASSUME NEW t \in Tasks
      PROVE  /\ EndTasks(r, ts)[t] \in {NoTask, Removed} \cup TaskRecords
             /\ EndTasks(r, ts)[t].status = "running" =>
                   EndTasks(r, ts)[t] = task[t] /\ ~(task[t].round = r /\ t \in ts)
  <2>1. CASE task[t].round = r /\ task[t].status = "running" /\ t \in ts
    <3>1. task[t] \in TaskRecords
      BY <2>1, Defaults, SMT DEF TypeOK, TaskRecords
    <3>2. EndTasks(r, ts)[t] = [task[t] EXCEPT !.status = "error"]
      BY <2>1, SMT DEF EndTasks
    <3> QED BY <3>1, <3>2, SMT DEF TaskRecords
  <2>2. CASE ~(task[t].round = r /\ task[t].status = "running" /\ t \in ts)
    BY <2>2, SMT DEF EndTasks, TypeOK, TaskRecords
  <2> QED BY <2>1, <2>2
<1> QED BY <1>1, SMT DEF EndTasks

\* A round starts: e was not alive, so no running task or round was its own.
LEMMA StartInv ==
  ASSUME AgentInv, NEW e \in Execs, NEW r \in Rounds, ~Live(e), Start(e, r)
  PROVE  AgentInv'
<1> USE DEF AgentInv
<1> DEFINE p == NewExec("preparing", r)
<1>1. p \in ExecRecords /\ p.pc = "preparing" /\ p.round = r /\ p.aborted = FALSE
  BY NewExecType
<1>2. exec' = [exec EXCEPT ![e] = p]
  BY DEF Start
<1> HIDE DEF p
<1>3. TypeOK'
  BY <1>1, <1>2, SMT DEF TypeOK, Start, ExecRecords, Existing
<1>4. LiveHasRound'
  BY <1>1, <1>2, SMT DEF TypeOK, LiveHasRound, Live
<1>5. RunningCanBeStopped'
  BY <1>1, <1>2, SMT DEF TypeOK, RunningCanBeStopped, Live, Start
<1>6. RunningTaskHasExecution' /\ BatchOpen'
  BY <1>1, <1>2, SMT DEF TypeOK, RunningTaskHasExecution, BatchOpen, Live, Start
<1> QED BY <1>3, <1>4, <1>5, <1>6

\* An execution ends: whichever tasks of its round it leaves running belong to
\* others, and if it held the controller the round no longer runs.
LEMMA EndInv ==
  ASSUME AgentInv, NEW e \in Execs, NEW ts, NEW from, NEW s \in {"done", "error"},
         from \subseteq Existing, ~exec[e].aborted => "running" \in from,
         \A t \in Own(e) : task[t].status = "running" => t \in ts,
         Live(e),
         task' = EndTasks(exec[e].round, ts),
         round' = SetStatus(exec[e].round, from, s),
         controllers' = Release(e), End(e), UNCHANGED <<loading, reloads>>
  PROVE  AgentInv'
<1> USE DEF AgentInv
<1>1. exec' = [exec EXCEPT ![e] = Ended] /\ Ended \in ExecRecords /\ Ended.pc = "ended"
  BY Defaults DEF End
<1>2. exec[e].round \in Rounds
  BY DEF LiveHasRound
<1>3. TypeOK'
  <2>1. round' \in [Rounds -> {"unused", "deleted"} \cup Existing]
    BY <1>2, SMT DEF TypeOK, SetStatus, Existing
  <2>2. task' \in [Tasks -> {NoTask, Removed} \cup TaskRecords]
    BY EndTasksTypes
  <2>3. exec' \in [Execs -> ExecRecords]
    BY <1>1, SMT DEF TypeOK, ExecRecords
  <2>4. controllers' \in [Rounds -> {0} \cup Execs]
    BY SMT DEF TypeOK, Release
  <2> QED BY <2>1, <2>2, <2>3, <2>4 DEF TypeOK, TaskRecords, ExecRecords
<1>4. LiveHasRound'
  BY <1>1, SMT DEF TypeOK, LiveHasRound, Live
<1>5. RunningCanBeStopped'
  <2> SUFFICES ASSUME NEW r \in Rounds, round'[r] = "running"
               PROVE  /\ controllers'[r] \in Execs
                      /\ exec'[controllers'[r]].pc \notin {"unused", "submitting", "ended"}
                      /\ exec'[controllers'[r]].round = r /\ ~exec'[controllers'[r]].aborted
    BY DEF RunningCanBeStopped, Live
  <2>1. round[r] = "running"
    BY <1>2, SMT DEF SetStatus, TypeOK
  <2>2. controllers[r] \in Execs /\ Live(controllers[r]) /\ exec[controllers[r]].round = r
        /\ ~exec[controllers[r]].aborted
    BY <2>1 DEF RunningCanBeStopped
  <2>3. controllers[r] # e
    BY <1>2, <2>1, <2>2, SMT DEF SetStatus, TypeOK
  <2>4. controllers'[r] = controllers[r]
    BY <2>3, SMT DEF Release
  <2>5. exec'[controllers[r]] = exec[controllers[r]]
    BY <1>1, <2>2, <2>3, SMT DEF TypeOK
  <2> QED BY <2>2, <2>4, <2>5 DEF Live
<1>6. RunningTaskHasExecution' /\ BatchOpen'
  <2> SUFFICES ASSUME NEW t \in Tasks, task'[t].status = "running"
               PROVE  /\ exec'[task'[t].exec].pc \notin {"unused", "submitting", "ended"}
                      /\ exec'[task'[t].exec].round = task'[t].round
                      /\ task'[t].batch => exec'[task'[t].exec].pc \in {"carding", "batching"}
    BY DEF RunningTaskHasExecution, BatchOpen, Live
  <2>1. task'[t] = task[t] /\ ~(task[t].round = exec[e].round /\ t \in ts)
    BY EndTasksTypes
  <2>2. /\ Live(task[t].exec) /\ exec[task[t].exec].round = task[t].round
        /\ task[t].batch => exec[task[t].exec].pc \in {"carding", "batching"}
    BY <2>1 DEF RunningTaskHasExecution, BatchOpen
  <2>3. task[t].exec # e
    BY <2>1, <2>2 DEF Own
  <2>4. task[t].exec \in Execs
    BY <2>1, Defaults, SMT DEF TypeOK
  <2>5. exec'[task[t].exec] = exec[task[t].exec]
    BY <1>1, <2>3, <2>4, SMT DEF TypeOK
  <2> QED BY <2>1, <2>2, <2>5 DEF Live
<1> QED BY <1>3, <1>4, <1>5, <1>6

LEMMA FinishInv ==
  ASSUME AgentInv, NEW e \in Execs, exec[e].pc \in {"storing", "deciding"}, Finish(e)
  PROVE  AgentInv'
<1>1. Live(e)
  BY SMT DEF Live
<1>2. \A t \in Own(e) : task[t].status = "running" => t \in BuiltIn
  BY SMT DEF AgentInv, BatchOpen, Own, BuiltIn
<1>3. Existing \subseteq Existing /\ "running" \in Existing
  BY DEF Existing
<1> HIDE DEF Existing
<1> QED BY <1>1, <1>2, <1>3, EndInv DEF Finish

LEMMA ThrowInv ==
  ASSUME AgentInv, NEW e \in Execs, Live(e), Throw(e)
  PROVE  AgentInv'
<1> DEFINE from == IF exec[e].aborted THEN {"running"} ELSE Existing
<1>1. \A t \in Own(e) : task[t].status = "running" => t \in Tasks
  BY DEF Own
<1>2. from \subseteq Existing /\ "running" \in from
  BY DEF Existing
<1>3. round' = SetStatus(exec[e].round, from, "error")
  BY DEF Throw
<1> HIDE DEF from
<1> QED BY <1>1, <1>2, <1>3, EndInv DEF Throw

\* An execution goes on to its next await.
LEMMA GoInv ==
  ASSUME AgentInv, NEW e \in Execs, Live(e), NEW pc \in {"calling", "stalled", "storing", "carding", "batching", "deciding"},
         exec[e].pc \in {"carding", "batching"} => pc \in {"carding", "batching"},
         Go(e, pc), UNCHANGED <<round, task>>, Keep
  PROVE  AgentInv'
<1> DEFINE p == [exec[e] EXCEPT !.pc = pc]
<1>1. exec[e] \in ExecRecords /\ exec \in [Execs -> ExecRecords]
  BY DEF AgentInv, TypeOK, ExecRecords
<1>2. p \in ExecRecords
  BY <1>1, SMT DEF ExecRecords
<1>3. p.pc = pc /\ p.round = exec[e].round
  BY <1>1, SMT DEF ExecRecords
<1>4. p.aborted = exec[e].aborted
  BY <1>1 DEF ExecRecords
<1>5. exec' = [exec EXCEPT ![e] = p]
  BY DEF Go
<1>6. pc \notin {"unused", "submitting", "ended"}
  OBVIOUS
<1> HIDE DEF p
<1> QED BY <1>2, <1>3, <1>4, <1>5, <1>6, GoStep DEF Keep

LEMMA AskedInv ==
  ASSUME AgentInv, NEW e \in Execs, AskedForMore(e)
  PROVE  AgentInv'
<1>1. PICK pc \in {"carding", "deciding"} :
        exec' = [exec EXCEPT ![e] = [exec[e] EXCEPT !.pc = pc, !.turns = exec[e].turns + 1]]
  BY DEF AskedForMore
<1> DEFINE q == [exec[e] EXCEPT !.pc = pc]
           n == exec[e].turns + 1
           p == [q EXCEPT !.turns = n]
<1>2. exec[e] \in ExecRecords /\ exec \in [Execs -> ExecRecords]
  BY DEF AgentInv, TypeOK, ExecRecords
<1>3. n \in 0 .. MaxTurns
  BY <1>2, AgentBoundsAssumption, SMT DEF AskedForMore, ExecRecords
<1>4. q \in ExecRecords /\ q.pc = pc /\ q.round = exec[e].round
  BY <1>2, SMT DEF ExecRecords
<1>5. q.aborted = exec[e].aborted
  BY <1>2 DEF ExecRecords
<1>6. exec' = [exec EXCEPT ![e] = p]
  BY <1>1
<1> HIDE DEF n, q
<1>7. p \in ExecRecords /\ p.pc = pc /\ p.round = q.round
  BY <1>3, <1>4, SMT DEF ExecRecords
<1>8. p.aborted = q.aborted
  BY <1>4 DEF ExecRecords
<1> HIDE DEF p
<1>9. Live(e) /\ pc \notin {"unused", "submitting", "ended"} /\ exec[e].pc = "storing"
  BY SMT DEF AskedForMore, Live
<1> QED BY <1>4, <1>5, <1>6, <1>7, <1>8, <1>9, GoStep DEF AskedForMore, Keep

LEMMA CallApiInv ==
  ASSUME AgentInv, NEW e \in Execs, exec[e].pc \in {"preparing", "deciding"}, CallApi(e)
  PROVE  AgentInv'
<1>1. Live(e)
  BY SMT DEF Live
<1>2. CASE exec[e].aborted
  BY <1>1, <1>2, ThrowInv DEF CallApi
<1>3. CASE ~exec[e].aborted
  <2>1. Go(e, "calling") /\ UNCHANGED <<round, task>> /\ Keep
    BY <1>3 DEF CallApi
  <2> QED BY <1>1, <2>1, GoInv
<1> QED BY <1>2, <1>3

LEMMA AddTaskInv ==
  ASSUME AgentInv, NEW e \in Execs, NEW t \in Tasks, NEW status \in {"running", "done"},
         NEW batch \in BOOLEAN, Live(e), batch => exec[e].pc = "carding",
         AddTask(e, t, status, batch), UNCHANGED <<round, exec>>, Keep
  PROVE  AgentInv'
<1> DEFINE p == [status |-> status, round |-> exec[e].round, batch |-> batch, exec |-> e]
<1>1. p \in TaskRecords /\ p.exec = e /\ p.round = exec[e].round /\ p.batch = batch
  BY DEF AgentInv, LiveHasRound, TaskRecords
<1>2. task' = [task EXCEPT ![t] = p]
  BY DEF AddTask
<1>3. task \in [Tasks -> {NoTask, Removed} \cup TaskRecords]
  BY DEF AgentInv, TypeOK, TaskRecords
<1> HIDE DEF p
<1>4. task' \in [Tasks -> {NoTask, Removed} \cup TaskRecords]
  BY <1>1, <1>2, <1>3, SMT
<1>5. \A x \in Tasks : task'[x] = IF x = t THEN p ELSE task[x]
  BY <1>2, <1>3, SMT
<1> QED BY <1>1, <1>4, <1>5, TaskStep DEF Keep

\* A task ends, well or not.
LEMMA TaskEndsInv ==
  ASSUME AgentInv, NEW e \in Execs, NEW t \in Own(e), NEW status \in {"done", "error"},
         task[t].status \in {"running", "error"},
         task' = [task EXCEPT ![t].status = status], UNCHANGED <<round, exec>>, Keep
  PROVE  AgentInv'
<1>1. t \in Tasks
  BY DEF Own
<1>2. task \in [Tasks -> {NoTask, Removed} \cup TaskRecords]
  BY DEF AgentInv, TypeOK, TaskRecords
<1>3. task[t] \in TaskRecords
  BY <1>1, <1>2, Defaults, SMT
<1>4. [task[t] EXCEPT !.status = status] \in TaskRecords
      /\ [task[t] EXCEPT !.status = status].status = status
  BY <1>3, SMT DEF TaskRecords
<1>5. task' = [task EXCEPT ![t] = [task[t] EXCEPT !.status = status]]
  BY <1>1, <1>2
<1>6. task' \in [Tasks -> {NoTask, Removed} \cup TaskRecords]
  BY <1>1, <1>2, <1>4, <1>5, SMT
<1>7. \A x \in Tasks : task'[x].status = "running" => task'[x] = task[x]
  BY <1>1, <1>2, <1>4, <1>5, SMT
<1> QED BY <1>6, <1>7, TaskStep DEF Keep

\* The user stops a running round: the execution that is aborted is the one of
\* this round, and no other round's.
LEMMA StopInv ==
  ASSUME AgentInv, Stop
  PROVE  AgentInv'
<1> USE DEF AgentInv
<1>1. PICK r \in Rounds :
        /\ round[r] = "running"
        /\ exec' = [e \in Execs |-> IF controllers[r] = e THEN [exec[e] EXCEPT !.aborted = TRUE] ELSE exec[e]]
        /\ task' = EndTasks(r, Tasks)
        /\ round' = [round EXCEPT ![r] = "error"]
  BY DEF Stop
<1>2. exec \in [Execs -> ExecRecords]
  BY DEF TypeOK, ExecRecords
<1>3. \A e \in Execs : exec'[e] \in ExecRecords
  <2>1. \A x \in ExecRecords : [x EXCEPT !.aborted = TRUE] \in ExecRecords
    BY DEF ExecRecords
  <2> TAKE e \in Execs
  <2>2. exec[e] \in ExecRecords
    BY <1>2
  <2>3. exec'[e] = exec[e] \/ exec'[e] = [exec[e] EXCEPT !.aborted = TRUE]
    BY <1>1
  <2> QED BY <2>1, <2>2, <2>3
<1>4. \A e \in Execs : exec'[e].pc = exec[e].pc /\ exec'[e].round = exec[e].round
  BY <1>1, <1>2, SMT DEF ExecRecords
<1>5. \A e \in Execs : controllers[r] # e => exec'[e] = exec[e]
  BY <1>1, SMT
<1>6. exec' \in [Execs -> ExecRecords]
  BY <1>1, <1>3, SMT
<1>7. TypeOK'
  <2>1. round' \in [Rounds -> {"unused", "deleted"} \cup Existing]
    BY <1>1, SMT DEF TypeOK, Existing
  <2>2. task' \in [Tasks -> {NoTask, Removed} \cup TaskRecords]
    BY <1>1, EndTasksTypes
  <2> QED BY <1>6, <2>1, <2>2 DEF TypeOK, Stop, Keep, ExecRecords, TaskRecords
<1>8. LiveHasRound'
  BY <1>4, SMT DEF LiveHasRound, Live
<1>9. RunningCanBeStopped'
  <2> SUFFICES ASSUME NEW x \in Rounds, round'[x] = "running"
               PROVE  /\ controllers'[x] \in Execs
                      /\ exec'[controllers'[x]].pc \notin {"unused", "submitting", "ended"}
                      /\ exec'[controllers'[x]].round = x /\ ~exec'[controllers'[x]].aborted
    BY DEF RunningCanBeStopped, Live
  <2>1. x # r /\ round[x] = "running"
    BY <1>1, SMT DEF TypeOK
  <2>2. controllers[x] \in Execs /\ Live(controllers[x]) /\ exec[controllers[x]].round = x
        /\ ~exec[controllers[x]].aborted
    BY <2>1 DEF RunningCanBeStopped
  <2>3. controllers[r] # controllers[x]
    BY <1>1, <2>1, <2>2 DEF RunningCanBeStopped
  <2>4. exec'[controllers[x]] = exec[controllers[x]] /\ controllers' = controllers
    BY <1>5, <2>2, <2>3 DEF Stop, Keep
  <2> QED BY <2>2, <2>4 DEF Live
<1>10. RunningTaskHasExecution' /\ BatchOpen'
  <2> SUFFICES ASSUME NEW t \in Tasks, task'[t].status = "running"
               PROVE  /\ exec'[task'[t].exec].pc \notin {"unused", "submitting", "ended"}
                      /\ exec'[task'[t].exec].round = task'[t].round
                      /\ task'[t].batch => exec'[task'[t].exec].pc \in {"carding", "batching"}
    BY DEF RunningTaskHasExecution, BatchOpen, Live
  <2>1. task'[t] = task[t]
    BY <1>1, EndTasksTypes
  <2>2. task[t].exec \in Execs
    BY <2>1, Defaults, SMT DEF TypeOK
  <2> QED BY <1>4, <2>1, <2>2 DEF RunningTaskHasExecution, BatchOpen, Live
<1> QED BY <1>7, <1>8, <1>9, <1>10

LEMMA DeleteInv ==
  ASSUME AgentInv, DeleteRound
  PROVE  AgentInv'
<1> USE DEF AgentInv
<1>1. PICK r \in Rounds, named \in SUBSET Tasks :
        /\ round' = [round EXCEPT ![r] = "deleted"]
        /\ task' = [t \in Tasks |-> IF t \in named THEN Removed ELSE task[t]]
  <2>1. PICK r \in Rounds : round' = [round EXCEPT ![r] = "deleted"] /\
             \E named \in SUBSET {t \in Tasks : task[t].round = r} :
                task' = [t \in Tasks |-> IF t \in named THEN Removed ELSE task[t]]
    BY DEF DeleteRound
  <2>2. PICK named \in SUBSET {t \in Tasks : task[t].round = r} :
             task' = [t \in Tasks |-> IF t \in named THEN Removed ELSE task[t]]
    BY <2>1
  <2>3. named \in SUBSET Tasks
    OBVIOUS
  <2> QED BY <2>1, <2>2, <2>3
<1>2. TypeOK'
  BY <1>1, SMT DEF TypeOK, DeleteRound, Keep, Existing
<1>3. LiveHasRound' /\ RunningCanBeStopped'
  BY <1>1, SMT DEF TypeOK, LiveHasRound, RunningCanBeStopped, Live, DeleteRound, Keep
<1>4. \A t \in Tasks : task'[t].status = "running" => task'[t] = task[t]
  BY <1>1, Defaults
<1>5. RunningTaskHasExecution' /\ BatchOpen'
  BY <1>4, SMT DEF RunningTaskHasExecution, BatchOpen, Live, DeleteRound
<1> QED BY <1>2, <1>3, <1>5

LEMMA NormaliseInv ==
  ASSUME AgentInv, Normalise
  PROVE  AgentInv'
<1> USE DEF AgentInv
<1>1. TypeOK'
  <2>1. round' \in [Rounds -> {"unused", "deleted"} \cup Existing]
    BY SMT DEF TypeOK, Normalise, Existing
  <2>2. loading' \in BOOLEAN
    BY DEF Normalise
  <2> QED BY <2>1, <2>2 DEF TypeOK, Normalise
<1>2. RunningCanBeStopped'
  BY SMT DEF RunningCanBeStopped, Normalise, Live
<1>3. LiveHasRound' /\ RunningTaskHasExecution' /\ BatchOpen'
  BY SMT DEF LiveHasRound, RunningTaskHasExecution, BatchOpen, Live, Normalise
<1> QED BY <1>1, <1>2, <1>3

LEMMA ReloadInv ==
  ASSUME AgentInv, Reload
  PROVE  AgentInv'
<1> USE DEF AgentInv
<1>a. PICK lost \in SUBSET {t \in Tasks : task[t].status = "done"} :
         task' = [t \in Tasks |-> IF task[t].status = "running" \/ t \in lost
                                  THEN [task[t] EXCEPT !.status = "error"] ELSE task[t]]
  BY DEF Reload
<1>b. PICK old \in SUBSET {r \in Rounds : round[r] = "done"} :
         round' = [r \in Rounds |-> IF round[r] = "running" \/ r \in old THEN "error" ELSE round[r]]
  BY DEF Reload
<1>1. \A t \in Tasks : task'[t] \in {NoTask, Removed} \cup TaskRecords /\ task'[t].status # "running"
  <2> TAKE t \in Tasks
  <2>1. CASE task[t].status = "running" \/ t \in lost
    <3>1. task[t] \in TaskRecords
      BY <2>1, Defaults, SMT DEF TypeOK, TaskRecords
    <3>2. task'[t] = [task[t] EXCEPT !.status = "error"]
      BY <1>a, <2>1, SMT
    <3> QED BY <3>1, <3>2, SMT DEF TaskRecords
  <2>2. CASE ~(task[t].status = "running" \/ t \in lost)
    BY <1>a, <2>2, SMT DEF TypeOK, TaskRecords
  <2> QED BY <2>1, <2>2
<1>2. \A e \in Execs : exec'[e] \in ExecRecords /\ exec'[e].pc \in {"unused", "ended"}
  BY Defaults, SMT DEF Reload
<1>3. TypeOK'
  <2>1. round' \in [Rounds -> {"unused", "deleted"} \cup Existing]
    BY <1>b, SMT DEF TypeOK, Existing
  <2>2. task' \in [Tasks -> {NoTask, Removed} \cup TaskRecords]
    BY <1>a, <1>1, SMT
  <2>5. exec' \in [Execs -> ExecRecords]
    BY <1>2, SMT DEF Reload
  <2>3. controllers' \in [Rounds -> {0} \cup Execs] /\ loading' \in BOOLEAN
    BY SMT DEF Reload
  <2>4. reloads' \in 0 .. MaxReloads
    BY AgentBoundsAssumption, SMT DEF TypeOK, Reload
  <2> QED BY <2>1, <2>2, <2>3, <2>4, <2>5 DEF TypeOK, TaskRecords, ExecRecords
<1>4. RunningCanBeStopped'
  BY <1>b, SMT DEF RunningCanBeStopped
<1>5. LiveHasRound' /\ RunningTaskHasExecution' /\ BatchOpen'
  BY <1>1, <1>2 DEF LiveHasRound, RunningTaskHasExecution, BatchOpen, Live
<1> QED BY <1>3, <1>4, <1>5

\* Calls of submitAgentMessage that add no round.
LEMMA SubmittingInv ==
  ASSUME AgentInv, NEW e \in Execs, ~Live(e), NEW p \in ExecRecords, p.pc \in {"submitting", "ended"},
         exec' = [exec EXCEPT ![e] = p], UNCHANGED <<round, task, controllers, loading, reloads>>
  PROVE  AgentInv'
<1> USE DEF AgentInv
<1>1. TypeOK'
  BY SMT DEF TypeOK, ExecRecords
<1>2. LiveHasRound'
  BY SMT DEF TypeOK, LiveHasRound, Live
<1>3. RunningCanBeStopped'
  BY SMT DEF TypeOK, RunningCanBeStopped, Live
<1>4. RunningTaskHasExecution' /\ BatchOpen'
  BY SMT DEF TypeOK, RunningTaskHasExecution, BatchOpen, Live
<1> QED BY <1>1, <1>2, <1>3, <1>4

-----------------------------------------------------------------------------
LEMMA TurnInv ==
  ASSUME AgentInv, NEW e \in Execs, Turn(e)
  PROVE  AgentInv'
<1>1. CASE Prepared(e)
  BY <1>1, CallApiInv DEF Prepared
<1>2. CASE ApiReturned(e)
  <2>1. Live(e) /\ exec[e].pc = "calling"
    BY <1>2, SMT DEF ApiReturned, Live
  <2>2. CASE exec[e].aborted
    BY <1>2, <2>1, <2>2, ThrowInv DEF ApiReturned
  <2>3. CASE ~exec[e].aborted
    <3>1. Go(e, "storing") /\ UNCHANGED <<round, task>> /\ Keep
      BY <1>2, <2>3 DEF ApiReturned
    <3> QED BY <2>1, <3>1, GoInv
  <2> QED BY <2>2, <2>3
<1>3. CASE NothingMore(e)
  BY <1>3, FinishInv DEF NothingMore
<1>4. CASE AskedForMore(e)
  BY <1>4, AskedInv
<1>5. CASE BatchCalled(e)
  <2>1. Live(e)
    BY <1>5, SMT DEF BatchCalled, Live
  <2> QED BY <1>5, <2>1, GoInv DEF BatchCalled
<1>6. CASE BatchSettled(e)
  <2> DEFINE mid == [t \in Tasks |-> IF t \in Own(e) /\ task[t].batch /\ task[t].status = "running"
                                     THEN [task[t] EXCEPT !.status = "error"] ELSE task[t]]
  <2>1. Live(e) /\ exec[e].pc = "batching" /\ task' = mid
    BY <1>6, SMT DEF BatchSettled, Live
  <2>2. ASSUME NEW t \in Tasks
        PROVE  /\ mid[t] \in {NoTask, Removed} \cup TaskRecords
               /\ mid[t].status = "running" => mid[t] = task[t]
               /\ mid[t].status = "running" => ~(t \in Own(e) /\ task[t].batch)
    <3>1. CASE t \in Own(e) /\ task[t].batch /\ task[t].status = "running"
      <4>1. task[t] \in TaskRecords
        BY <3>1, Defaults, SMT DEF AgentInv, TypeOK, TaskRecords
      <4>2. mid[t] = [task[t] EXCEPT !.status = "error"]
        BY <3>1
      <4> QED BY <4>1, <4>2, SMT DEF TaskRecords
    <3>2. CASE ~(t \in Own(e) /\ task[t].batch /\ task[t].status = "running")
      BY <3>2 DEF AgentInv, TypeOK, TaskRecords
    <3> QED BY <3>1, <3>2
  <2> DEFINE p == [exec[e] EXCEPT !.pc = "deciding"]
  <2>3. exec[e] \in ExecRecords /\ exec \in [Execs -> ExecRecords]
    BY DEF AgentInv, TypeOK, ExecRecords
  <2>4. p \in ExecRecords /\ p.pc = "deciding" /\ p.round = exec[e].round
    BY <2>3, SMT DEF ExecRecords
  <2>5. p.aborted = exec[e].aborted
    BY <2>3 DEF ExecRecords
  <2>6. exec' = [exec EXCEPT ![e] = p]
    BY <1>6 DEF BatchSettled, Go
  <2>7. mid \in [Tasks -> {NoTask, Removed} \cup TaskRecords]
    <3> DEFINE M(t) == mid[t]
    <3>1. mid = [t \in Tasks |-> M(t)]
      OBVIOUS
    <3>2. \A t \in Tasks : M(t) \in {NoTask, Removed} \cup TaskRecords
      BY <2>2
    <3> HIDE DEF M, mid
    <3> QED BY <3>1, <3>2
  <2> HIDE DEF mid, p
  <2>8. \A x \in Execs : exec'[x] = IF x = e THEN p ELSE exec[x]
    BY <2>3, <2>6
  <2>9. UNCHANGED <<round, controllers, loading, reloads>>
    BY <1>6 DEF BatchSettled, Keep
  <2>10. TypeOK'
    <3>1. exec' \in [Execs -> ExecRecords]
      BY <2>3, <2>4, <2>6, SMT
    <3> QED BY <2>1, <2>7, <2>9, <3>1 DEF AgentInv, TypeOK, TaskRecords, ExecRecords
  <2>11. LiveHasRound'
    BY <2>1, <2>4, <2>8, SMT DEF AgentInv, LiveHasRound, Live
  <2>12. RunningCanBeStopped'
    BY <2>1, <2>4, <2>5, <2>8, <2>9 DEF AgentInv, RunningCanBeStopped, Live
  <2>13. RunningTaskHasExecution' /\ BatchOpen'
    <3> SUFFICES ASSUME NEW t \in Tasks, task'[t].status = "running"
                 PROVE  /\ exec'[task'[t].exec].pc \notin {"unused", "submitting", "ended"}
                        /\ exec'[task'[t].exec].round = task'[t].round
                        /\ task'[t].batch => exec'[task'[t].exec].pc \in {"carding", "batching"}
      BY DEF RunningTaskHasExecution, BatchOpen, Live
    <3>1. task'[t] = task[t] /\ ~(t \in Own(e) /\ task[t].batch)
      BY <2>1, <2>2
    <3>2. task[t].exec \in Execs
      BY <3>1, Defaults, SMT DEF AgentInv, TypeOK
    <3>3. CASE task[t].exec = e
      BY <2>4, <2>8, <3>1, <3>2, <3>3 DEF AgentInv, RunningTaskHasExecution, Own
    <3>4. CASE task[t].exec # e
      BY <2>8, <3>1, <3>2, <3>4 DEF AgentInv, RunningTaskHasExecution, BatchOpen, Live
    <3> QED BY <3>3, <3>4
  <2> QED BY <2>10, <2>11, <2>12, <2>13 DEF AgentInv
<1>7. CASE Decided(e)
  BY <1>7, FinishInv, CallApiInv DEF Decided
<1>8. CASE StallStopped(e)
  <2>1. Live(e)
    BY <1>8, SMT DEF StallStopped, Live
  <2> QED BY <1>8, <2>1, ThrowInv DEF StallStopped
<1> QED BY <1>1, <1>2, <1>3, <1>4, <1>5, <1>6, <1>7, <1>8 DEF Turn

LEMMA NextInv == AgentInv /\ [Next]_vars => AgentInv'
<1> SUFFICES ASSUME AgentInv, [Next]_vars PROVE AgentInv'
  OBVIOUS
<1>1. CASE UNCHANGED vars
  <2>1. TypeOK'
    BY <1>1, SMT DEF AgentInv, TypeOK, vars
  <2>2. (LiveHasRound /\ RunningCanBeStopped /\ RunningTaskHasExecution /\ BatchOpen)'
    BY <1>1 DEF AgentInv, LiveHasRound, BatchOpen, RunningCanBeStopped, RunningTaskHasExecution, Live, vars
  <2> QED BY <2>1, <2>2 DEF AgentInv
<1>2. ASSUME NEW e \in Execs, SubmitCheck(e) PROVE AgentInv'
  <2>1. PICK r \in {0} \cup Rounds : exec' = [exec EXCEPT ![e] = NewExec("submitting", r)]
    BY <1>2 DEF SubmitCheck
  <2>2. ~Live(e)
    BY <1>2, Defaults DEF SubmitCheck, NextExec, Live
  <2>3. NewExec("submitting", r) \in ExecRecords /\ NewExec("submitting", r).pc \in {"submitting", "ended"}
    BY NewExecType
  <2>4. UNCHANGED <<round, task, controllers, loading, reloads>>
    BY <1>2 DEF SubmitCheck
  <2> QED BY <2>1, <2>2, <2>3, <2>4, SubmittingInv
<1>3. ASSUME NEW e \in Execs, SubmitCommit(e) PROVE AgentInv'
  <2>1. ~Live(e)
    BY <1>3, SMT DEF SubmitCommit, Live
  <2> QED BY <1>3, <2>1, StartInv DEF SubmitCommit
<1>4. ASSUME NEW e \in Execs, SubmitFails(e) PROVE AgentInv'
  <2>1. ~Live(e)
    BY <1>4, SMT DEF SubmitFails, Live
  <2> QED BY <1>4, <2>1, Defaults, SubmittingInv DEF SubmitFails, End
<1>5. ASSUME NEW e \in Execs, Regenerate(e) PROVE AgentInv'
  <2>1. ~Live(e)
    BY <1>5, Defaults DEF Regenerate, NextExec, Live
  <2> QED BY <1>5, <2>1, StartInv DEF Regenerate
<1>6. ASSUME NEW e \in Execs, ExecFails(e) PROVE AgentInv'
  BY <1>6, ThrowInv DEF ExecFails
<1>7. ASSUME NEW e \in Execs, ToolStarted(e) PROVE AgentInv'
  <2>1. Live(e)
    BY <1>7, SMT DEF ToolStarted, Live
  <2> QED BY <1>7, <2>1, AddTaskInv DEF ToolStarted
<1>8. ASSUME NEW e \in Execs, ToolFailed(e) PROVE AgentInv'
  BY <1>8, TaskEndsInv DEF ToolFailed
<1>9. ASSUME NEW e \in Execs, ToolCompleted(e) PROVE AgentInv'
  BY <1>9, TaskEndsInv DEF ToolCompleted
<1>10. ASSUME NEW e \in Execs, ImageStored(e) PROVE AgentInv'
  <2>1. Live(e)
    BY <1>10, SMT DEF ImageStored, Live
  <2> QED BY <1>10, <2>1, AddTaskInv DEF ImageStored
<1>11. ASSUME NEW e \in Execs, BatchCard(e) PROVE AgentInv'
  <2>1. Live(e)
    BY <1>11, SMT DEF BatchCard, Live
  <2> QED BY <1>11, <2>1, AddTaskInv DEF BatchCard
<1>12. ASSUME NEW e \in Execs, BatchCompleted(e) PROVE AgentInv'
  BY <1>12, TaskEndsInv DEF BatchCompleted
<1>13. ASSUME NEW e \in Execs, Stall(e) PROVE AgentInv'
  <2>1. Live(e) /\ exec[e].pc = "calling"
    BY <1>13, SMT DEF Stall, Live
  <2> QED BY <1>13, <2>1, GoInv DEF Stall
<1> QED
  BY <1>1, <1>2, <1>3, <1>4, <1>5, <1>6, <1>7, <1>8, <1>9, <1>10, <1>11, <1>12, <1>13,
     TurnInv, StopInv, DeleteInv, NormaliseInv, ReloadInv DEF Next

\* The inductive invariant of the agent rounds (executeAgentRound and everything
\* that may interfere with it).
THEOREM AgentInvariant == Spec => []AgentInv
<1> QED BY InitInv, NextInv, PTL DEF Spec

\* Every variable of the rounds model keeps its type.
THEOREM AgentTypes == Spec => []TypeOK
<1>1. AgentInv => TypeOK
  BY DEF AgentInv
<1> QED BY <1>1, AgentInvariant, PTL

\* A round shown as running can always be stopped: its controller is the one of
\* a live execution of this round (agentRoundControllers, the finally clause).
THEOREM StopCorrect == Spec => []RunningCanBeStopped
<1>1. AgentInv => RunningCanBeStopped
  BY DEF AgentInv
<1> QED BY <1>1, AgentInvariant, PTL

\* No task keeps spinning: a running task belongs to a live execution of its
\* round.
THEOREM TaskExecutionCorrect == Spec => []RunningTaskHasExecution
<1>1. AgentInv => RunningTaskHasExecution
  BY DEF AgentInv
<1> QED BY <1>1, AgentInvariant, PTL

-----------------------------------------------------------------------------
\* No step takes an execution that was stopped to another request of the model.
LEMMA NoCallStep ==
  ASSUME AgentInv, Next, NEW x \in Execs, exec[x].aborted, exec'[x].pc = "calling"
  PROVE  exec[x].pc = "calling"
<1>1. exec \in [Execs -> ExecRecords]
  BY DEF AgentInv, TypeOK, ExecRecords
<1>2. ASSUME NEW e \in Execs, NEW p, p.pc # "calling", exec' = [exec EXCEPT ![e] = p]
      PROVE  exec[x].pc = "calling"
  BY <1>1, <1>2
<1>3. ASSUME NEW e \in Execs, End(e) PROVE exec[x].pc = "calling"
  BY <1>2, <1>3, Defaults DEF End
<1>4. ASSUME NEW e \in Execs, NEW pc, Go(e, pc), pc # "calling" PROVE exec[x].pc = "calling"
  BY <1>1, <1>4, SMT DEF Go, ExecRecords
<1>5. ASSUME NEW e \in Execs, CallApi(e) PROVE exec[x].pc = "calling"
  <2>1. CASE exec[e].aborted
    BY <1>3, <1>5, <2>1 DEF CallApi, Throw
  <2>2. CASE ~exec[e].aborted
    <3>1. x # e /\ Go(e, "calling")
      BY <1>5, <2>2 DEF CallApi
    <3> QED BY <1>1, <3>1, SMT DEF Go
  <2> QED BY <2>1, <2>2
<1>6. ASSUME NEW e \in Execs, NEW pc \in {"submitting", "preparing"}, NEW r \in {0} \cup Rounds,
             exec' = [exec EXCEPT ![e] = NewExec(pc, r)]
      PROVE  exec[x].pc = "calling"
  <2>1. NewExec(pc, r).pc # "calling"
    BY <1>6, NewExecType
  <2> QED BY <1>2, <1>6, <2>1
<1>7. ASSUME NEW e \in Execs, SubmitCheck(e) \/ SubmitCommit(e) \/ SubmitFails(e) \/ Regenerate(e)
      PROVE  exec[x].pc = "calling"
  <2>1. CASE SubmitCheck(e)
    <3>1. PICK r \in {0} \cup Rounds : exec' = [exec EXCEPT ![e] = NewExec("submitting", r)]
      BY <2>1 DEF SubmitCheck
    <3> QED BY <1>6, <3>1
  <2>2. CASE SubmitCommit(e) \/ Regenerate(e)
    <3>1. PICK r \in Rounds : Start(e, r)
      BY <2>2 DEF SubmitCommit, Regenerate
    <3> QED BY <1>6, <3>1 DEF Start
  <2>3. CASE SubmitFails(e)
    BY <1>3, <2>3 DEF SubmitFails
  <2> QED BY <1>7, <2>1, <2>2, <2>3
<1>8. ASSUME NEW e \in Execs, Turn(e) PROVE exec[x].pc = "calling"
  <2>1. CASE Prepared(e)
    BY <1>5, <2>1 DEF Prepared
  <2>2. CASE ApiReturned(e)
    BY <1>3, <1>4, <2>2 DEF ApiReturned, Throw
  <2>3. CASE NothingMore(e)
    BY <1>3, <2>3 DEF NothingMore, Finish
  <2>4. CASE AskedForMore(e)
    <3>1. PICK pc \in {"carding", "deciding"} :
            exec' = [exec EXCEPT ![e] = [exec[e] EXCEPT !.pc = pc, !.turns = exec[e].turns + 1]]
      BY <2>4 DEF AskedForMore
    <3>2. [exec[e] EXCEPT !.pc = pc, !.turns = exec[e].turns + 1].pc # "calling"
      BY <1>1, SMT DEF ExecRecords
    <3> QED BY <1>2, <3>1, <3>2
  <2>5. CASE BatchCalled(e) \/ BatchSettled(e)
    BY <1>4, <2>5 DEF BatchCalled, BatchSettled
  <2>6. CASE Decided(e)
    BY <1>3, <1>5, <2>6 DEF Decided, Finish
  <2>7. CASE StallStopped(e)
    BY <1>3, <2>7 DEF StallStopped, Throw
  <2> QED BY <1>8, <2>1, <2>2, <2>3, <2>4, <2>5, <2>6, <2>7 DEF Turn
<1>9. ASSUME NEW e \in Execs, \/ ToolStarted(e) \/ ToolFailed(e) \/ ToolCompleted(e)
                              \/ ImageStored(e) \/ BatchCard(e) \/ BatchCompleted(e)
      PROVE  exec[x].pc = "calling"
  BY <1>9 DEF ToolStarted, ToolFailed, ToolCompleted, ImageStored, BatchCard, BatchCompleted
<1>10. ASSUME NEW e \in Execs, ExecFails(e) PROVE exec[x].pc = "calling"
  BY <1>3, <1>10 DEF ExecFails, Throw
<1>11. CASE Stop
  <2>1. PICK r \in Rounds :
          exec' = [e \in Execs |-> IF controllers[r] = e THEN [exec[e] EXCEPT !.aborted = TRUE] ELSE exec[e]]
    BY <1>11 DEF Stop
  <2> QED BY <1>1, <2>1, SMT DEF ExecRecords
<1>12. CASE Reload
  <2>1. exec'[x] = NoExec \/ exec'[x] = Ended
    BY <1>12 DEF Reload
  <2> QED BY <2>1, Defaults
<1>13. CASE DeleteRound \/ Normalise
  BY <1>13 DEF DeleteRound, Normalise
<1>14. ASSUME NEW e \in Execs, Stall(e) PROVE exec[x].pc = "calling"
  BY <1>4, <1>14 DEF Stall
<1> QED BY <1>7, <1>8, <1>9, <1>10, <1>11, <1>12, <1>13, <1>14 DEF Next

\* After a stop an execution makes no further request of the model (the checks
\* of controller.signal.aborted before every request).
THEOREM StoppedCorrect == Spec => StoppedMakesNoCall
<1>1. AgentInv /\ [Next]_vars =>
        [\A e \in Execs : exec[e].aborted /\ exec'[e].pc = "calling" => exec[e].pc = "calling"]_vars
  BY NoCallStep DEF vars
<1> QED BY <1>1, AgentInvariant, PTL DEF Spec, StoppedMakesNoCall

-----------------------------------------------------------------------------
LEMMA EndTasksKeepsDone ==
  ASSUME NEW r, NEW ts, NEW t \in Tasks, task[t].status = "done"
  PROVE  EndTasks(r, ts)[t] = task[t]
  BY SMT DEF EndTasks

\* No step of the page takes back a task that is done, except that it may be
\* removed.
LEMMA DoneStep ==
  ASSUME AgentInv, Next, reloads' = reloads, NEW t \in Tasks, task[t].status = "done"
  PROVE  task'[t].status \in {"done", "removed"}
<1>1. task \in [Tasks -> {NoTask, Removed} \cup TaskRecords]
  BY DEF AgentInv, TypeOK, TaskRecords
<1>2. ASSUME NEW e \in Execs, Throw(e) \/ Finish(e) PROVE task'[t].status = "done"
  BY <1>2, EndTasksKeepsDone DEF Throw, Finish
<1>3. ASSUME NEW e \in Execs, NEW x \in Tasks, NEW status, NEW batch, AddTask(e, x, status, batch)
      PROVE  task'[t].status = "done"
  BY <1>1, <1>3, Defaults, SMT DEF AddTask, NextTask
<1>4. ASSUME NEW x \in Tasks, task[x].status # "done" \/ task'[x].status = "done", NEW status,
             task' = [task EXCEPT ![x].status = status]
      PROVE  task'[t].status = "done"
  BY <1>1, <1>4, SMT
<1>5. ASSUME UNCHANGED task PROVE task'[t].status = "done"
  BY <1>5
<1>6. ASSUME NEW e \in Execs, CallApi(e) PROVE task'[t].status = "done"
  BY <1>2, <1>6 DEF CallApi
<1>7. ASSUME NEW e \in Execs, Turn(e) PROVE task'[t].status = "done"
  <2>1. CASE Prepared(e)
    BY <1>6, <2>1 DEF Prepared
  <2>2. CASE ApiReturned(e)
    BY <1>2, <2>2 DEF ApiReturned
  <2>3. CASE NothingMore(e)
    BY <1>2, <2>3 DEF NothingMore
  <2>4. CASE AskedForMore(e) \/ BatchCalled(e)
    BY <2>4 DEF AskedForMore, BatchCalled
  <2>5. CASE BatchSettled(e)
    <3>1. task'[t] = task[t]
      BY <2>5, SMT DEF BatchSettled
    <3> QED BY <3>1
  <2>6. CASE Decided(e) \/ StallStopped(e)
    BY <1>2, <1>6, <2>6 DEF Decided, StallStopped
  <2> QED BY <1>7, <2>1, <2>2, <2>3, <2>4, <2>5, <2>6 DEF Turn
<1>8. ASSUME NEW e \in Execs, SubmitCheck(e) \/ SubmitCommit(e) \/ SubmitFails(e) \/ Regenerate(e)
      PROVE  task'[t].status = "done"
  BY <1>8 DEF SubmitCheck, SubmitCommit, SubmitFails, Regenerate, Start
<1>9. ASSUME NEW e \in Execs, ToolStarted(e) \/ ImageStored(e) \/ BatchCard(e)
      PROVE  task'[t].status = "done"
  BY <1>3, <1>9 DEF ToolStarted, ImageStored, BatchCard
<1>10. ASSUME NEW e \in Execs, ToolFailed(e) \/ ToolCompleted(e) \/ BatchCompleted(e)
      PROVE  task'[t].status = "done"
  <2>1. PICK x \in Own(e), status \in {"done", "error"} :
          task[x].status \in {"running", "error"} /\ task' = [task EXCEPT ![x].status = status]
    BY <1>10, SMT DEF ToolFailed, ToolCompleted, BatchCompleted
  <2>2. x \in Tasks /\ task[x].status # "done"
    BY <2>1, SMT DEF Own
  <2> QED BY <1>4, <2>1, <2>2
<1>11. ASSUME NEW e \in Execs, ExecFails(e) PROVE task'[t].status = "done"
  BY <1>2, <1>11 DEF ExecFails
<1>12. CASE Stop
  <2>1. PICK r \in Rounds : task' = EndTasks(r, Tasks)
    BY <1>12 DEF Stop
  <2> QED BY <2>1, EndTasksKeepsDone
<1>13. CASE Reload
  BY <1>13, AgentBoundsAssumption, SMT DEF AgentInv, TypeOK, Reload
<1>14. CASE DeleteRound
  <2>1. task'[t] = task[t] \/ task'[t] = Removed
    BY <1>14 DEF DeleteRound
  <2> QED BY <2>1, Defaults
<1>15. CASE Normalise
  BY <1>15 DEF Normalise
<1>16. ASSUME NEW e \in Execs, Stall(e) PROVE task'[t].status = "done"
  BY <1>16 DEF Stall
<1> QED BY <1>7, <1>8, <1>9, <1>10, <1>11, <1>12, <1>13, <1>14, <1>15, <1>16 DEF Next

\* An image that was generated stays while the page is open: no stop, failure or
\* late end takes a done task back (the status checks of markAgentRoundTasksStopped and
\* markAgentRoundTasksFailed).
THEOREM DoneCorrect == Spec => DoneStays
<1>1. AgentInv /\ [Next]_vars =>
        [reloads' = reloads =>
            \A t \in Tasks : task[t].status = "done" => task'[t].status \in {"done", "removed"}]_vars
  BY DoneStep DEF vars
<1> QED BY <1>1, AgentInvariant, PTL DEF Spec, DoneStays

-----------------------------------------------------------------------------
\* A step that frees a controller ends the execution that registered it.
LEMMA ReleaseStep ==
  ASSUME AgentInv, Next, NEW r \in Rounds, controllers[r] # 0, controllers'[r] = 0
  PROVE  exec'[controllers[r]].pc \in {"unused", "ended"}
<1>1. exec \in [Execs -> ExecRecords] /\ controllers[r] \in Execs
  BY DEF AgentInv, TypeOK, ExecRecords
<1>2. ASSUME NEW e \in Execs, Throw(e) \/ Finish(e)
      PROVE  exec'[controllers[r]].pc \in {"unused", "ended"}
  <2>1. controllers' = Release(e) /\ exec' = [exec EXCEPT ![e] = Ended]
    BY <1>2 DEF Throw, Finish, End
  <2>2. controllers[r] = e
    BY <2>1, SMT DEF Release
  <2> QED BY <1>1, <2>1, <2>2, Defaults
<1>3. controllers' # controllers
  OBVIOUS
<1>4. ASSUME NEW e \in Execs, CallApi(e) PROVE exec'[controllers[r]].pc \in {"unused", "ended"}
  BY <1>2, <1>3, <1>4 DEF CallApi, Keep
<1>5. ASSUME NEW e \in Execs, Turn(e) PROVE exec'[controllers[r]].pc \in {"unused", "ended"}
  <2>1. CASE Prepared(e) \/ Decided(e)
    BY <1>2, <1>4, <2>1 DEF Prepared, Decided
  <2>2. CASE ApiReturned(e) \/ NothingMore(e) \/ StallStopped(e)
    BY <1>2, <1>3, <2>2 DEF ApiReturned, NothingMore, StallStopped, Keep
  <2>3. CASE AskedForMore(e) \/ BatchCalled(e) \/ BatchSettled(e)
    BY <1>3, <2>3 DEF AskedForMore, BatchCalled, BatchSettled, Keep
  <2> QED BY <1>5, <2>1, <2>2, <2>3 DEF Turn
<1>6. ASSUME NEW e \in Execs, SubmitCommit(e) \/ Regenerate(e)
      PROVE  exec'[controllers[r]].pc \in {"unused", "ended"}
  <2>1. PICK x \in Rounds : controllers' = [controllers EXCEPT ![x] = e]
    BY <1>6 DEF SubmitCommit, Regenerate, Start
  <2>2. controllers'[r] # 0
    BY <2>1, ZeroIsNone, SMT DEF AgentInv, TypeOK
  <2> QED BY <2>2
<1>7. ASSUME NEW e \in Execs, \/ SubmitCheck(e) \/ SubmitFails(e) \/ Stall(e)
                              \/ ToolStarted(e) \/ ToolFailed(e) \/ ToolCompleted(e)
                              \/ ImageStored(e) \/ BatchCard(e) \/ BatchCompleted(e)
      PROVE  FALSE
  BY <1>3, <1>7 DEF SubmitCheck, SubmitFails, Stall, ToolStarted, ToolFailed, ToolCompleted,
     ImageStored, BatchCard, BatchCompleted, Keep
<1>8. ASSUME NEW e \in Execs, ExecFails(e) PROVE exec'[controllers[r]].pc \in {"unused", "ended"}
  BY <1>2, <1>8 DEF ExecFails
<1>9. CASE Stop \/ DeleteRound \/ Normalise
  BY <1>3, <1>9 DEF Stop, DeleteRound, Normalise, Keep
<1>10. CASE Reload
  <2>1. exec'[controllers[r]] = NoExec \/ exec'[controllers[r]] = Ended
    BY <1>1, <1>10 DEF Reload
  <2> QED BY <2>1, Defaults
<1> QED BY <1>5, <1>6, <1>7, <1>8, <1>9, <1>10 DEF Next

\* A controller is given up only with the execution that registered it: the late
\* end of a stopped execution does not delete the controller of the one that runs
\* the round again (the comparison in the finally clause of executeAgentRound).
THEOREM ReleaseCorrect == Spec => LateEndKeepsController
<1>1. AgentInv /\ [Next]_vars =>
        [\A r \in Rounds : controllers[r] # 0 /\ controllers'[r] = 0
                            => exec'[controllers[r]].pc \in {"unused", "ended"}]_vars
  BY ReleaseStep DEF vars
<1> QED BY <1>1, AgentInvariant, PTL DEF Spec, LateEndKeepsController

=============================================================================
