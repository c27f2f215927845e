--------------------------- MODULE BillingOutbox ----------------------------
(***************************************************************************)
(* Delivery of the billing outbox: ProcessBillingOutboxOnce and            *)
(* deliverBillingOutbox (service/task_billing_durable.go) with             *)
(* RecordTaskBillingLogIdempotent (model/log.go).                          *)
(*                                                                         *)
(* applyDurableTaskBilling inserts the events of a row in the transaction  *)
(* that settles or refunds it (DurableBilling, cacheEvent and logEvent).   *)
(* Passes of several nodes deliver them: each claims an event by a guarded *)
(* UPDATE, performs its effects, and then writes the result to the event   *)
(* by id only, whoever holds its lease by then.                            *)
(*                                                                         *)
(* Redis is enabled: without it the invalidations return at once.  Each    *)
(* cache event is about a token of its own, which may be deleted.          *)
(***************************************************************************)
EXTENDS Naturals, FiniteSets

CONSTANTS
    CacheEvents,    \* "quota-cache:<id>" events
    LogEvents,      \* "task-billing:<id>" events
    Workers,        \* goroutines running ProcessBillingOutboxOnce
    LogEnabled,     \* common.LogConsumeEnabled
    Faults,         \* the kinds of fault that may happen
    MaxFaults       \* bound on the number of faults of a behaviour

Events == CacheEvents \cup LogEvents
FaultKinds == {"crash",   \* a worker's process dies
               "slow",    \* a lease expires under its live holder
               "error",   \* a database or cache operation fails
               "ack"}     \* the log transaction commits and reports an error

ASSUME EventsAssumption == Events # {} /\ CacheEvents \cap LogEvents = {}
ASSUME EnabledAssumption == LogEnabled \in BOOLEAN
ASSUME FaultsAssumption == Faults \subseteq FaultKinds /\ MaxFaults \in Nat

VARIABLES
    event,      \* state of each event, "none" before it is inserted
    leased,     \* lease_until is ahead
    backoff,    \* next_retry_at is ahead
    userDropped, tokenDropped,  \* cache entries removed since the event was inserted
    logs,       \* log rows written for an event
    receipt,    \* events with a BillingLogReceipt
    linked,     \* events whose log id is in the task's private data
    deleted,    \* cache events whose token has been deleted
    pc, job,    \* the workers: where each is, and its event
    faults

table  == <<event, leased, backoff>>
caches == <<userDropped, tokenDropped>>
logdb  == <<logs, receipt>>
vars   == <<table, caches, logdb, linked, deleted, pc, job, faults>>

Fault(k) == /\ k \in Faults
            /\ faults < MaxFaults
            /\ faults' = faults + 1
            /\ UNCHANGED deleted
NoFault == UNCHANGED <<deleted, faults>>

Goto(w, there) == pc' = [pc EXCEPT ![w] = there]
NoEvent == CHOOSE e \in Events : TRUE
EndPass(w) == Goto(w, "idle") /\ job' = [job EXCEPT ![w] = NoEvent]

\* The event is inserted by the transaction that applies its row.
Emit(e) ==
    /\ event[e] = "none"
    /\ event' = [event EXCEPT ![e] = "pending"]
    /\ NoFault
    /\ UNCHANGED <<leased, backoff, caches, logdb, linked, pc, job>>

\* The user deletes the token (softly: a query does not find it any more).
DeleteToken(e) ==
    /\ e \in CacheEvents \ deleted
    /\ deleted' = deleted \cup {e}
    /\ UNCHANGED <<table, caches, logdb, linked, pc, job, faults>>

\* MUTANT: the events of a worker that died while delivering are never due again.
DuePendingOnly(e) == event[e] = "pending" /\ e \notin backoff

\* The SELECT of a pass and the WHERE clause of its claim.
Due(e) == \/ event[e] = "pending" /\ e \notin backoff
          \/ event[e] = "delivering" /\ e \notin leased

Pick(w, e) ==
    /\ pc[w] = "idle"
    /\ Due(e)
    /\ Goto(w, "picked")
    /\ job' = [job EXCEPT ![w] = e]
    /\ NoFault
    /\ UNCHANGED <<table, caches, logdb, linked>>

Claim(w) ==
    /\ pc[w] = "picked"
    /\ Due(job[w])
    /\ event' = [event EXCEPT ![job[w]] = "delivering"]
    /\ leased' = leased \cup {job[w]}
    /\ Goto(w, IF job[w] \in CacheEvents THEN "user" ELSE "receipt")
    /\ NoFault
    /\ UNCHANGED <<backoff, caches, logdb, linked, job>>

\* Another pass has the event, or the UPDATE failed.
ClaimLost(w) ==
    /\ pc[w] = "picked"
    /\ \/ ~Due(job[w]) /\ NoFault
       \/ Fault("error")
    /\ EndPass(w)
    /\ UNCHANGED <<table, caches, logdb, linked>>

(***************************************************************************)
(* deliverBillingOutbox.                                                   *)
(***************************************************************************)
InvalidateUserCache(w) ==
    /\ pc[w] = "user"
    /\ userDropped' = userDropped \cup {job[w]}
    /\ Goto(w, "token")
    /\ NoFault
    /\ UNCHANGED <<table, tokenDropped, logdb, linked, job>>

InvalidateTokenCache(w) ==
    /\ pc[w] = "token"
    /\ job[w] \notin deleted
    /\ tokenDropped' = tokenDropped \cup {job[w]}
    /\ Goto(w, "ok")
    /\ NoFault
    /\ UNCHANGED <<table, userDropped, logdb, linked, job>>

\* InvalidateTokenCacheByID does not find a deleted token, at any attempt.
TokenMissing(w) ==
    /\ pc[w] = "token"
    /\ job[w] \in deleted
    /\ Goto(w, "failed")
    /\ NoFault
    /\ UNCHANGED <<table, caches, logdb, linked, job>>

\* RecordTaskBillingLogIdempotent up to its SELECT of the receipt; without
\* consume logs there is nothing to record.
FindReceipt(w) ==
    /\ pc[w] = "receipt"
    /\ Goto(w, IF ~LogEnabled THEN "ok" ELSE IF job[w] \in receipt THEN "link" ELSE "insert")
    /\ NoFault
    /\ UNCHANGED <<table, caches, logdb, linked, job>>

\* MUTANT: the receipt's event id is not unique.
CanInsertAlways(e) == TRUE

\* The unique index on the receipt's event id.
CanInsert(e) == e \notin receipt

InsertLog(w) ==
    /\ CanInsert(job[w])
    /\ logs' = [logs EXCEPT ![job[w]] = @ + 1]
    /\ receipt' = receipt \cup {job[w]}
    /\ UNCHANGED <<table, caches, linked, job>>

InsertCommit(w) == pc[w] = "insert" /\ InsertLog(w) /\ Goto(w, "link") /\ NoFault
InsertAckLost(w) == pc[w] = "insert" /\ InsertLog(w) /\ Goto(w, "failed") /\ Fault("ack")

InsertConflict(w) ==
    /\ pc[w] = "insert"
    /\ ~CanInsert(job[w])
    /\ Goto(w, "failed")
    /\ NoFault
    /\ UNCHANGED <<table, caches, logdb, linked, job>>

LinkTask(w) ==
    /\ pc[w] = "link"
    /\ linked' = linked \cup {job[w]}
    /\ Goto(w, "ok")
    /\ NoFault
    /\ UNCHANGED <<table, caches, logdb, job>>

\* The task cannot be read: the event counts as delivered all the same.
LinkSkipped(w) ==
    /\ pc[w] = "link"
    /\ Goto(w, "ok")
    /\ Fault("error")
    /\ UNCHANGED <<table, caches, logdb, linked, job>>

\* Any other operation of the delivery fails.
DeliverError(w) ==
    /\ pc[w] \in {"user", "token", "receipt", "insert", "link"}
    /\ Goto(w, "failed")
    /\ Fault("error")
    /\ UNCHANGED <<table, caches, logdb, linked, job>>

(***************************************************************************)
(* The result is written by id only; an error of that write is ignored.    *)
(***************************************************************************)
\* MUTANT: the event is marked delivered before its effects are certain.
DeliverableAfterError(w) == pc[w] \in {"ok", "failed"}

Deliverable(w) == pc[w] = "ok"

MarkDelivered(w) ==
    /\ Deliverable(w)
    /\ event' = [event EXCEPT ![job[w]] = "delivered"]
    /\ leased' = leased \ {job[w]}
    /\ EndPass(w)
    /\ NoFault
    /\ UNCHANGED <<backoff, caches, logdb, linked>>

\* MUTANT: a failed delivery is recorded in a state no SELECT looks for.
MarkFailed(w) ==
    /\ pc[w] = "failed"
    /\ event' = [event EXCEPT ![job[w]] = "failed"]
    /\ leased' = leased \ {job[w]}
    /\ backoff' = backoff \cup {job[w]}
    /\ EndPass(w)
    /\ NoFault
    /\ UNCHANGED <<caches, logdb, linked>>

MarkPending(w) ==
    /\ pc[w] = "failed"
    /\ event' = [event EXCEPT ![job[w]] = "pending"]
    /\ leased' = leased \ {job[w]}
    /\ backoff' = backoff \cup {job[w]}
    /\ EndPass(w)
    /\ NoFault
    /\ UNCHANGED <<caches, logdb, linked>>

MarkLost(w) ==
    /\ pc[w] \in {"ok", "failed"}
    /\ EndPass(w)
    /\ Fault("error")
    /\ UNCHANGED <<table, caches, logdb, linked>>

Crash(w) ==
    /\ pc[w] # "idle"
    /\ EndPass(w)
    /\ Fault("crash")
    /\ UNCHANGED <<table, caches, logdb, linked>>

(***************************************************************************)
(* The clock.                                                              *)
(***************************************************************************)
Busy(e) == \E w \in Workers : pc[w] # "idle" /\ job[w] = e

ExpireLease(e) ==
    /\ e \in leased
    /\ leased' = leased \ {e}
    /\ UNCHANGED <<event, backoff, caches, logdb, linked, pc, job>>

LeaseTimeout(e) == ~Busy(e) /\ ExpireLease(e) /\ NoFault
LeaseLost(e)    == Busy(e) /\ ExpireLease(e) /\ Fault("slow")

RetryDue(e) ==
    /\ e \in backoff
    /\ backoff' = backoff \ {e}
    /\ NoFault
    /\ UNCHANGED <<event, leased, caches, logdb, linked, pc, job>>

-----------------------------------------------------------------------------
Init ==
    /\ event = [e \in Events |-> "none"]
    /\ leased = {} /\ backoff = {}
    /\ userDropped = {} /\ tokenDropped = {}
    /\ logs = [e \in Events |-> 0]
    /\ receipt = {} /\ linked = {} /\ deleted = {}
    /\ pc = [w \in Workers |-> "idle"]
    /\ job = [w \in Workers |-> NoEvent]
    /\ faults = 0

Deliver(w) ==
    \/ InvalidateUserCache(w) \/ InvalidateTokenCache(w) \/ TokenMissing(w)
    \/ FindReceipt(w) \/ InsertCommit(w) \/ InsertConflict(w) \/ LinkTask(w)
    \/ MarkDelivered(w) \/ MarkPending(w)
Disturb(w) ==
    \/ InsertAckLost(w) \/ LinkSkipped(w) \/ DeliverError(w) \/ MarkLost(w) \/ Crash(w)

WorkerStep(w) == Claim(w) \/ ClaimLost(w) \/ Deliver(w) \/ Disturb(w)
ClockStep(e)  == LeaseTimeout(e) \/ LeaseLost(e) \/ RetryDue(e)

Next == \/ \E e \in Events : Emit(e) \/ DeleteToken(e) \/ ClockStep(e)
        \/ \E w \in Workers : WorkerStep(w) \/ (\E e \in Events : Pick(w, e))

Spec == Init /\ [][Next]_vars

\* A pass runs on every second of every live node; the clock moves.
Fairness ==
    /\ \A w \in Workers : WF_vars(Claim(w) \/ ClaimLost(w) \/ Deliver(w))
    /\ \A e \in Events :
        /\ SF_vars(\E w \in Workers : Pick(w, e))
        /\ WF_vars(LeaseTimeout(e))
        /\ WF_vars(RetryDue(e))

FairSpec == Spec /\ Fairness

-----------------------------------------------------------------------------
\* Every variable has its type.
TypeOK ==
    /\ event \in [Events -> {"none", "pending", "delivering", "delivered"}]
    /\ leased \subseteq Events /\ backoff \subseteq Events
    /\ userDropped \subseteq Events /\ tokenDropped \subseteq Events
    /\ logs \in [Events -> Nat]
    /\ receipt \subseteq Events /\ linked \subseteq Events /\ deleted \subseteq Events
    /\ pc \in [Workers -> {"idle", "picked", "user", "token", "receipt", "insert",
                           "link", "ok", "failed"}]
    /\ job \in [Workers -> Events]
    /\ faults \in Nat

\* However many passes deliver an event, at once or again after a crash, a lost
\* lease or a lost acknowledgement, the user gets one log for it, and a task is
\* linked only to a log that exists (model/log.go RecordTaskBillingLogIdempotent).
OneLogPerEvent ==
    \A e \in Events :
        /\ logs[e] = IF e \in receipt THEN 1 ELSE 0
        /\ e \in linked => logs[e] = 1

\* What has to have happened for an event that is marked delivered.
Effects(e) ==
    /\ e \in CacheEvents => e \in userDropped /\ e \in tokenDropped
    /\ (e \in LogEvents /\ LogEnabled) => e \in receipt

\* An event is marked delivered only after all its effects, although the mark
\* is written without looking at the lease (ProcessBillingOutboxOnce).
DeliveredMeansDone == \A e \in Events : event[e] = "delivered" => Effects(e)

\* Every event is delivered and in the end stays delivered, although a late
\* worker may put a delivered one back to pending; only the cache event of a
\* deleted token may be retried for ever, having dropped the user's entry
\* (ProcessBillingOutboxOnce, InvalidateTokenCacheByID).
EventuallyDelivered ==
    \A e \in Events :
        (event[e] # "none") ~>
            [](event[e] = "delivered" \/ (e \in deleted /\ e \in userDropped))
=============================================================================
