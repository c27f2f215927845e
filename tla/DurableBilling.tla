--------------------------- MODULE DurableBilling ---------------------------
(***************************************************************************)
(* Durable billing of asynchronous tasks: the billing_transactions table   *)
(* (model/durable_billing.go), the request goroutine that reserves, holds, *)
(* binds and refunds a reservation (service/durable_billing.go, the task   *)
(* path of controller/relay.go), the terminal-state transition that queues *)
(* the settlement or refund, and the workers that apply it                 *)
(* (service/task_billing_durable.go).                                      *)
(*                                                                         *)
(* One request owns at most one row (BusinessKey is unique), so rows are   *)
(* indexed by request.  A database statement or transaction is one step,   *)
(* except where the code reads a row without a lock and writes it in a     *)
(* later statement of the same transaction: there the read is a step of    *)
(* its own, and what other transactions commit in between is visible to    *)
(* the WHERE clauses of the later statements (READ COMMITTED).             *)
(*                                                                         *)
(* The balance columns are represented by what each row has moved:         *)
(* charged[r] is the net amount row r's transactions took from its funding *)
(* source, tokenCharged[r] from the token; a balance is the capacity minus *)
(* the sum.                                                                *)
(*                                                                         *)
(* Tasks of the channels in Realtime can be fetched by their user in any   *)
(* status (relay/relay_task.go tryRealtimeFetch); the other tasks, Polled, *)
(* are ended only by pollers and sweepers, which read unfinished tasks.    *)
(***************************************************************************)
EXTENDS Integers, FiniteSets, FiniteSetsExt, Sequences

CONSTANTS
    Requests,       \* async task submissions of one user with one token
    Workers,        \* goroutines running ProcessDurableBillingOnce
    Quotas,         \* amounts a price calculation can produce
    Capacity,       \* funds of each source before any request
    TokenCapacity,  \* remain_quota of the token before any request
    Unlimited,      \* the token's unlimited_quota
    Playground,     \* requests with IsPlayground (SkipTokenQuota)
    Realtime,       \* requests to channels with supportsRealtimeTaskFetch
    SourceOrder,    \* the sources choose() tries, in order
    MaxAttempts,    \* failed attempts before action_required (20 in the code)
    Faults,         \* the kinds of fault that may happen
    MaxFetches,     \* bound on the number of realtime fetches
    MaxFaults       \* bound on the number of faults of a behaviour

Sources == {"wallet", "subscription"}

Polled == Requests \ Realtime

\* Rows somebody may delete: the user's ("wallet"), the subscription, the token.
Deletable == Sources \cup {"token"}

FaultKinds == {"crash",         \* a goroutine's process dies
               "slow",          \* a lease expires under its live holder
               "dberr",         \* a statement or transaction fails
               "ack",           \* a commit succeeds and reports an error
               "count",         \* the COUNT of taskHasDurableBilling fails before a transition
               "recount",       \* it fails only when it is repeated after one
               "slow_request",  \* a live request outlasts the one-hour grace
               "delete"}        \* the user, the subscription or the token is deleted

ASSUME RequestsAssumption == Requests # {} /\ IsFiniteSet(Requests)
ASSUME QuotasAssumption == Quotas \subseteq Nat
ASSUME CapacityAssumption ==
    /\ Capacity \in [Sources -> Nat]
    /\ TokenCapacity \in Nat
    /\ Unlimited \in BOOLEAN
ASSUME PlaygroundAssumption == Playground \subseteq Requests
ASSUME RealtimeAssumption == Realtime \subseteq Requests
ASSUME SourceOrderAssumption ==
    SourceOrder \in {<<"wallet">>, <<"subscription">>,
                     <<"wallet", "subscription">>, <<"subscription", "wallet">>}
ASSUME BoundsAssumption ==
    MaxAttempts \in Nat \ {0} /\ MaxFetches \in Nat /\ MaxFaults \in Nat
ASSUME FaultsAssumption == Faults \subseteq FaultKinds

VARIABLES
    \* the row of each request
    state, bound, source, reserved, final, target, version, leased, attempts,
    backoff,        \* next_retry_at is still ahead
    aged,           \* updated_at is more than an hour old
    \* money moved by the row's transactions, and usage counted for it
    charged, tokenCharged, usage,
    unguarded,      \* history: what settlements outside the row charged on top
    \* outbox events, by row: "quota-cache:<id>" and "task-billing:<id>"
    cacheEvent, logEvent,
    \* the persisted task
    taskStatus, taskQuota, taskBilling,
    \* the request goroutine: where it is, session.preConsumedQuota, result.Quota
    req, session, want,
    \* the workers: where each is, its candidate row, the row its transaction read
    wpc, job, view,
    copy,           \* the task as a realtime fetch in flight has read it
    fetches,        \* how many there have been
    gone,           \* the deleted ones of Deletable
    faults

row   == <<state, bound, source, reserved, final, target, version, leased, attempts, backoff, aged>>
money == <<charged, tokenCharged, usage, unguarded>>
outbox == <<cacheEvent, logEvent>>
task  == <<taskStatus, taskQuota, taskBilling>>
request == <<req, session, want>>
worker == <<wpc, job, view>>
vars  == <<row, money, outbox, task, request, worker, copy, fetches, gone, faults>>

States == {"none", "reserved", "settle_pending", "refund_pending", "applying",
           "settled", "refunded", "action_required"}
Pending == {"settle_pending", "refund_pending"}
Done    == {"settled", "refunded"}

RequestLive(r) == req[r] \in {"upstream", "accepted", "holding", "held", "refunding"}

Count(k) == /\ k \in Faults
            /\ faults < MaxFaults
            /\ faults' = faults + 1
Fault(k) == Count(k) /\ UNCHANGED <<copy, fetches, gone>>
NoFault == UNCHANGED <<copy, fetches, gone, faults>>

(***************************************************************************)
(* Balances and the guarded UPDATEs that move them.                        *)
(***************************************************************************)
Available(s) ==
    Capacity[s] - MapThenSumSet(LAMBDA r : charged[r], {r \in Requests : source[r] = s})
TokenRemain == TokenCapacity - MapThenSumSet(LAMBDA r : tokenCharged[r], Requests)

\* MUTANT: AdjustUserQuotaTx without "quota >= ?".
CanFundUnguarded(s, delta) == TRUE

\* adjustDurableFundingTx: any change needs the row, since an UPDATE that hits
\* none is an error, and a positive delta that much left in the source.
CanFund(s, delta) ==
    delta # 0 => s \notin gone /\ (delta > 0 => Available(s) >= delta)

\* AdjustTokenQuotaTx: likewise, but an unlimited token may go below zero.
CanToken(r, delta) ==
    (r \notin Playground /\ delta # 0) =>
        "token" \notin gone /\ (delta > 0 => Unlimited \/ TokenRemain >= delta)

CanMove(r, s, delta) == CanFund(s, delta) /\ CanToken(r, delta)

\* The funding source, and the token unless the request skips its quota.
Move(r, delta) ==
    /\ charged' = [charged EXCEPT ![r] = @ + delta]
    /\ tokenCharged' = IF r \in Playground THEN tokenCharged
                       ELSE [tokenCharged EXCEPT ![r] = @ + delta]
    /\ UNCHANGED unguarded

(***************************************************************************)
(* The request goroutine.                                                  *)
(***************************************************************************)
\* The source choose() ends with: the first one whose transaction succeeds.
Chosen(r, q, s) ==
    \E i \in 1..Len(SourceOrder) :
        /\ SourceOrder[i] = s
        /\ CanMove(r, s, q)
        /\ \A j \in 1..(i - 1) : ~CanMove(r, SourceOrder[j], q)

CreateRow(r, q, s) ==
    /\ state' = [state EXCEPT ![r] = "reserved"]
    /\ source' = [source EXCEPT ![r] = s]
    /\ reserved' = [reserved EXCEPT ![r] = q]
    /\ final' = [final EXCEPT ![r] = q]
    /\ version' = [version EXCEPT ![r] = 1]
    /\ Move(r, q)
    /\ UNCHANGED <<bound, target, leased, attempts, backoff, aged, usage, outbox, task, want, worker>>

Reserve(r) ==
    /\ req[r] = "idle"
    /\ \E q \in Quotas \ {0}, s \in Sources :
        /\ Chosen(r, q, s)
        /\ CreateRow(r, q, s)
        /\ session' = [session EXCEPT ![r] = q]
    /\ req' = [req EXCEPT ![r] = "upstream"]
    /\ NoFault

\* The reservation commits but reports an error: the request gives up without
\* a session, so nothing of it will refund the row.
ReserveAckLost(r) ==
    /\ req[r] = "idle"
    /\ \E q \in Quotas \ {0}, s \in Sources : Chosen(r, q, s) /\ CreateRow(r, q, s)
    /\ req' = [req EXCEPT ![r] = "done"]
    /\ Fault("ack")
    /\ UNCHANGED session

ReserveRefused(r) ==
    /\ req[r] = "idle"
    /\ \E q \in Quotas \ {0} : \A i \in 1..Len(SourceOrder) : ~CanMove(r, SourceOrder[i], q)
    /\ req' = [req EXCEPT ![r] = "done"]
    /\ NoFault
    /\ UNCHANGED <<row, money, outbox, task, session, want, worker>>

\* RelayTaskSubmit returned a result: its quota may differ from the estimate.
UpstreamAccepts(r) ==
    /\ req[r] = "upstream"
    /\ \E q \in Quotas : want' = [want EXCEPT ![r] = q]
    /\ req' = [req EXCEPT ![r] = "accepted"]
    /\ NoFault
    /\ UNCHANGED <<row, money, outbox, task, session, worker>>

\* Every attempt of the retry loop failed: the deferred Refund runs.
UpstreamFails(r) ==
    /\ req[r] = "upstream"
    /\ req' = [req EXCEPT ![r] = "refunding"]
    /\ NoFault
    /\ UNCHANGED <<row, money, outbox, task, session, want, worker>>

\* holdForAsyncTask up to the SELECT of adjustDurableReservation.  An unchanged
\* quota needs no adjustment; a row that is not reserved is an error, which the
\* controller only logs.
HoldRead(r) ==
    /\ req[r] = "accepted"
    /\ req' = [req EXCEPT ![r] =
                  IF want[r] # session[r] /\ state[r] = "reserved" THEN "holding" ELSE "held"]
    /\ NoFault
    /\ UNCHANGED <<row, money, outbox, task, session, want, worker>>

\* The rest of adjustDurableReservation: its final UPDATE names the row by id only.
AdjustReservation(r) ==
    LET delta == want[r] - session[r]
    IN  /\ CanMove(r, source[r], delta)
        /\ Move(r, delta)
        /\ reserved' = [reserved EXCEPT ![r] = want[r]]
        /\ final' = [final EXCEPT ![r] = want[r]]
        /\ aged' = aged \ {r}
        /\ req' = [req EXCEPT ![r] = "held"]
        /\ UNCHANGED <<state, bound, source, target, version, leased, attempts, backoff,
                       usage, outbox, task, want, worker>>

HoldCommit(r) ==
    /\ req[r] = "holding"
    /\ AdjustReservation(r)
    /\ session' = [session EXCEPT ![r] = want[r]]
    /\ NoFault

HoldAckLost(r) ==
    /\ req[r] = "holding"
    /\ AdjustReservation(r)
    /\ Fault("ack")
    /\ UNCHANGED session

\* Insufficient quota or a database error rolls the adjustment back; the error
\* is logged and the submission continues.
HoldRollback(r) ==
    /\ req[r] = "holding"
    /\ \/ ~CanMove(r, source[r], want[r] - session[r]) /\ NoFault
       \/ Fault("dberr")
    /\ req' = [req EXCEPT ![r] = "held"]
    /\ UNCHANGED <<row, money, outbox, task, session, want, worker>>

\* InsertTaskWithBilling: insert the task and bind the row, or neither.
Bindable(r) == ~bound[r] /\ state[r] \in {"reserved", "settled"}

BindTask(r) ==
    /\ Bindable(r)
    /\ bound' = [bound EXCEPT ![r] = TRUE]
    /\ aged' = aged \ {r}
    /\ taskStatus' = [taskStatus EXCEPT ![r] = "LIVE"]
    /\ taskQuota' = [taskQuota EXCEPT ![r] = want[r]]
    /\ UNCHANGED <<state, source, reserved, final, target, version, leased, attempts,
                   backoff, money, outbox, taskBilling, session, want, worker>>

Bind(r) ==
    /\ req[r] = "held"
    /\ BindTask(r)
    /\ req' = [req EXCEPT ![r] = "done"]
    /\ NoFault

\* The insert commits but reports an error: the controller refunds.
BindAckLost(r) ==
    /\ req[r] = "held"
    /\ BindTask(r)
    /\ req' = [req EXCEPT ![r] = "refunding"]
    /\ Fault("ack")

BindRollback(r) ==
    /\ req[r] = "held"
    /\ \/ ~Bindable(r) /\ NoFault
       \/ Fault("dberr")
    /\ req' = [req EXCEPT ![r] = "refunding"]
    /\ UNCHANGED <<row, money, outbox, task, session, want, worker>>

\* Rows whose state a refund intent sets, with the target and quota it records.
RefundIntent(R) ==
    /\ state' = [r \in Requests |-> IF r \in R THEN "refund_pending" ELSE state[r]]
    /\ target' = [r \in Requests |-> IF r \in R THEN "FAILURE" ELSE target[r]]
    /\ final' = [r \in Requests |-> IF r \in R THEN 0 ELSE final[r]]
    /\ backoff' = backoff \ R
    /\ aged' = aged \ R

\* MUTANT: refundDurableRequestBilling without "task_db_id = 0".
RefundEvenBound(r) ==
    /\ req[r] = "refunding"
    /\ RefundIntent(IF state[r] = "reserved" THEN {r} ELSE {})
    /\ req' = [req EXCEPT ![r] = "done"]
    /\ NoFault
    /\ UNCHANGED <<bound, source, reserved, version, leased, attempts,
                   money, outbox, task, session, want, worker>>

\* refundDurableRequestBilling, called by Session.Refund and by
\* RefundUnboundDurableBilling: only an unbound reservation is refunded.  The
\* pass it runs afterwards is a worker's.
Refund(r) ==
    /\ req[r] = "refunding"
    /\ RefundIntent(IF ~bound[r] /\ state[r] = "reserved" THEN {r} ELSE {})
    /\ req' = [req EXCEPT ![r] = "done"]
    /\ NoFault
    /\ UNCHANGED <<bound, source, reserved, version, leased, attempts,
                   money, outbox, task, session, want, worker>>

\* The UPDATE fails: logged by the callers, never retried by the request.
RefundError(r) ==
    /\ req[r] = "refunding"
    /\ req' = [req EXCEPT ![r] = "done"]
    /\ Fault("dberr")
    /\ UNCHANGED <<row, money, outbox, task, session, want, worker>>

RequestCrash(r) ==
    /\ RequestLive(r)
    /\ req' = [req EXCEPT ![r] = "dead"]
    /\ Fault("crash")
    /\ UNCHANGED <<row, money, outbox, task, session, want, worker>>

(***************************************************************************)
(* Terminal task transitions by pollers and sweepers.                      *)
(***************************************************************************)
\* MUTANT: the task's billing_state is saved, the row's update is forgotten.
TaskIntentRowForgotten(r, from, status, q) ==
    /\ taskStatus[r] = from
    /\ bound[r]
    /\ taskStatus' = [taskStatus EXCEPT ![r] = status]
    /\ taskBilling' = [taskBilling EXCEPT ![r] =
           IF status = "FAILURE" THEN "refund_pending" ELSE "settle_pending"]
    /\ UNCHANGED <<row, outbox, request, worker>>

\* CreateTaskBillingIntent after winning the status CAS on the status the
\* caller has read, with the final quota q it computed (0 for a failure).
TaskIntent(r, from, status, q) ==
    LET pend    == IF status = "FAILURE" THEN "refund_pending" ELSE "settle_pending"
        already == state[r] = "settled" /\ pend = "settle_pending"
    IN  /\ taskStatus[r] = from
        /\ bound[r]
        /\ state[r] \in {"reserved", "settled", pend}
        /\ taskStatus' = [taskStatus EXCEPT ![r] = status]
        /\ taskBilling' = [taskBilling EXCEPT ![r] = IF already THEN "settled" ELSE pend]
        /\ state' = [state EXCEPT ![r] = IF already THEN @ ELSE pend]
        /\ final' = [final EXCEPT ![r] = IF already THEN @ ELSE q]
        /\ target' = [target EXCEPT ![r] = IF already THEN @ ELSE status]
        /\ backoff' = IF already THEN backoff ELSE backoff \ {r}
        /\ UNCHANGED <<bound, source, reserved, version, leased, attempts, aged,
                       outbox, request, worker>>

\* The final quota of a success is the task's, or one recalculated from usage.
TaskSucceeds(r) ==
    /\ \E q \in Quotas : TaskIntent(r, "LIVE", "SUCCESS", q)
    /\ NoFault
    /\ UNCHANGED <<money, taskQuota>>
TaskFails(r) ==
    /\ TaskIntent(r, "LIVE", "FAILURE", 0)
    /\ NoFault
    /\ UNCHANGED <<money, taskQuota>>

(***************************************************************************)
(* A failing COUNT makes taskHasDurableBilling answer "no", and the task   *)
(* is billed, or not, as one without a row.                                *)
(***************************************************************************)
\* The plain status CAS.
TaskEnds(r, status) ==
    /\ taskStatus[r] = "LIVE"
    /\ taskStatus' = [taskStatus EXCEPT ![r] = status]
    /\ Fault("count")
    /\ UNCHANGED <<row, outbox, taskBilling, request, worker>>

\* The sweepers count again after the transition; if that works they skip the
\* refund.  A music task that succeeds has no billing after the transition.
TaskEndsUntracked(r) ==
    /\ \E status \in {"SUCCESS", "FAILURE"} : TaskEnds(r, status)
    /\ UNCHANGED <<money, taskQuota>>

\* taskAdjustFunding and taskAdjustTokenQuota: no balance is looked at, and a
\* deleted user or token is skipped.
LegacyMove(r, delta) ==
    /\ charged' = [charged EXCEPT ![r] = IF source[r] \in gone THEN @ ELSE @ + delta]
    /\ tokenCharged' = [tokenCharged EXCEPT ![r] =
           IF r \in Playground \/ "token" \in gone THEN @ ELSE @ + delta]
    /\ unguarded' = [unguarded EXCEPT ![r] = IF delta > 0 THEN @ + delta ELSE @]

\* settleTaskBillingOnComplete and FinalizeTaskPreAuthorization for a task of
\* quota old: the difference to a recalculated quota that is not 0 is charged;
\* a subscription that is missing or cannot pay keeps the old quota.
LegacySettle(r, old) ==
    \E q \in Quotas \cup {0} :
        LET kept == q = 0 \/ (source[r] = "subscription" /\ ~CanFund(source[r], q - old))
            fin  == IF kept THEN old ELSE q
        IN  /\ LegacyMove(r, fin - old)
            /\ taskQuota' = [taskQuota EXCEPT ![r] = fin]
            /\ usage' = [usage EXCEPT ![r] = @ + fin]

\* RefundTaskQuota of the quota q in the caller's copy of the task; a missing
\* subscription ends it before the task's quota is reset.
RefundLost(r) == source[r] = "subscription" /\ source[r] \in gone
LegacyRefund(r, q) ==
    /\ LegacyMove(r, IF RefundLost(r) THEN 0 ELSE -q)
    /\ taskQuota' = [taskQuota EXCEPT ![r] = IF RefundLost(r) THEN q ELSE 0]
    /\ UNCHANGED usage

TaskSettlesUntracked(r) == TaskEnds(r, "SUCCESS") /\ LegacySettle(r, taskQuota[r])

\* The pollers, and the sweepers if the COUNT fails twice, refund by themselves.
TaskRefundsUntracked(r) == TaskEnds(r, "FAILURE") /\ LegacyRefund(r, taskQuota[r])

\* The intent is queued, and the sweeper whose second COUNT fails refunds too.
TaskRefundsTwice(r) ==
    /\ TaskIntent(r, "LIVE", "FAILURE", 0)
    /\ LegacyRefund(r, taskQuota[r])
    /\ Fault("recount")

\* updateVideoTasks does not look at whether it won the transition: its copy
\* of the task, whose quota is still the one it was inserted with, is refunded
\* when the second COUNT fails.
LostRaceRefund(r) ==
    /\ taskStatus[r] \in {"SUCCESS", "FAILURE"}
    /\ want[r] # 0 /\ ~RefundLost(r)
    /\ LegacyRefund(r, want[r])
    /\ Fault("recount")
    /\ UNCHANGED <<row, outbox, taskStatus, taskBilling, request, worker>>

(***************************************************************************)
(* A realtime fetch: it reads the task in whatever status, asks the        *)
(* upstream and hands the answer to ApplyTaskResult with the task it read. *)
(* The result is compared with that copy, and what is saved is the whole   *)
(* copy, if the status in the database is still the copy's.  Bound: one    *)
(* fetch of a task is in flight at a time.                                 *)
(***************************************************************************)
NoCopy == [status |-> "none", quota |-> 0, billing |-> ""]

FetchTask(r) ==
    /\ taskStatus[r] # "none" /\ copy[r] = NoCopy
    /\ copy' = [copy EXCEPT ![r] =
          [status |-> taskStatus[r], quota |-> taskQuota[r], billing |-> taskBilling[r]]]
    /\ fetches < MaxFetches /\ fetches' = fetches + 1
    /\ UNCHANGED <<row, money, outbox, task, request, worker, gone, faults>>

\* The fetch is over.
FetchEnds(r) ==
    /\ copy[r] # NoCopy
    /\ copy' = [copy EXCEPT ![r] = NoCopy]
    /\ UNCHANGED <<fetches, gone>>

\* The upstream cannot be asked, answers what the copy says, or the status CAS
\* is lost: nothing is saved.
FetchDropped(r) ==
    /\ FetchEnds(r)
    /\ UNCHANGED <<row, money, outbox, task, request, worker, faults>>

\* An end the copy has not seen goes through CreateTaskBillingIntent: the end of
\* a live task, and a failure of one that had succeeded or the reverse.
FetchChangesEnd(r) ==
    /\ FetchEnds(r)
    /\ \/ /\ copy[r].status # "SUCCESS"
          /\ \E q \in Quotas \cup {copy[r].quota} : TaskIntent(r, copy[r].status, "SUCCESS", q)
       \/ copy[r].status # "FAILURE" /\ TaskIntent(r, copy[r].status, "FAILURE", 0)
    /\ taskQuota' = [taskQuota EXCEPT ![r] = copy[r].quota]
    /\ UNCHANGED <<money, faults>>

\* UpdateWithStatus of the copy with status, and the settlement or refund after it.
SaveCopy(r, status) ==
    /\ taskStatus[r] = copy[r].status
    /\ taskStatus' = [taskStatus EXCEPT ![r] = status]
    /\ taskBilling' = [taskBilling EXCEPT ![r] = copy[r].billing]
    /\ \/ status = "SUCCESS" /\ LegacySettle(r, copy[r].quota)
       \/ status = "FAILURE" /\ LegacyRefund(r, copy[r].quota)
       \/ /\ status \in {"LIVE", copy[r].status}
          /\ taskQuota' = [taskQuota EXCEPT ![r] = copy[r].quota]
          /\ UNCHANGED money
    /\ UNCHANGED <<row, outbox, request, worker>>

\* Any other answer is saved without a look at the row: an unfinished status,
\* which revives an ended task, or the copy's own end with other data, which is
\* billed again.  TryRecoverFailedVideoTask saves the copy as unfinished, or
\* with its old status if the recovery fails, and bills nothing.
FetchSaves(r) ==
    /\ FetchEnds(r)
    /\ \E status \in {"LIVE", copy[r].status} : SaveCopy(r, status)
    /\ UNCHANGED faults

\* So is an end the copy has not seen, if the COUNT fails.
FetchSavesUntracked(r) ==
    /\ FetchEnds(r)
    /\ \E status \in {"SUCCESS", "FAILURE"} \ {copy[r].status} : SaveCopy(r, status)
    /\ Count("count")

\* An administrator or the user deletes the account, the subscription or the token.
Delete(x) ==
    /\ x \notin gone
    /\ gone' = gone \cup {x}
    /\ Count("delete")
    /\ UNCHANGED <<row, money, outbox, task, request, worker, copy, fetches>>

(***************************************************************************)
(* ProcessDurableBillingOnce, one candidate row at a time.  A pass is run  *)
(* by the coordinator of every node each second and inline by requests and *)
(* pollers; the rows of one pass are independent of each other, and a      *)
(* candidate may be arbitrarily old when it is claimed.                    *)
(***************************************************************************)
\* MUTANT: rows of a worker that died while applying are never due again.
DueUnclaimedOnly(r) == state[r] \in Pending /\ r \notin backoff

\* GetDueBillingTransactions and the WHERE clause of ClaimBillingTransaction.
Due(r) == \/ state[r] \in Pending /\ r \notin backoff
          \/ state[r] = "applying" /\ ~leased[r]

\* What a worker keeps of a pass: nothing once it is over, no row read once
\* the transaction is.
NoJob  == [row |-> CHOOSE r \in Requests : TRUE, version |-> 0, attempts |-> 0,
           pend |-> "refund_pending"]
NoView == [bound |-> FALSE, reserved |-> 0, final |-> 0, target |-> ""]
Jobs   == [row : Requests, version : Nat, attempts : Nat, pend : Pending]
Views  == [bound : BOOLEAN, reserved : Nat, final : Nat, target : {"", "SUCCESS", "FAILURE"}]

EndPass(w) == /\ wpc' = [wpc EXCEPT ![w] = "idle"]
              /\ job' = [job EXCEPT ![w] = NoJob]
              /\ view' = [view EXCEPT ![w] = NoView]
FailApply(w) == /\ wpc' = [wpc EXCEPT ![w] = "failed"]
                /\ view' = [view EXCEPT ![w] = NoView]
                /\ UNCHANGED job

Holds(w, r) == /\ wpc[w] \in {"claimed", "applying", "failed"}
               /\ job[w].row = r
               /\ job[w].version + 1 = version[r]

\* MUTANT: the filter on task_db_id is inverted.
MarkStaleBound(w) ==
    /\ wpc[w] = "idle"
    /\ LET stale == {r \in aged : bound[r] /\ state[r] = "reserved"}
       IN  stale # {} /\ RefundIntent(stale)
    /\ NoFault
    /\ UNCHANGED <<bound, source, reserved, version, leased, attempts,
                   money, outbox, task, request, worker>>

\* MarkStaleUnboundBillingRefundPending: one UPDATE over all stale rows.
MarkStale(w) ==
    /\ wpc[w] = "idle"
    /\ LET stale == {r \in aged : ~bound[r] /\ state[r] = "reserved"}
       IN  stale # {} /\ RefundIntent(stale)
    /\ NoFault
    /\ UNCHANGED <<bound, source, reserved, version, leased, attempts,
                   money, outbox, task, request, worker>>

\* GetDueBillingTransactions returns row r among the candidates.
Pick(w, r) ==
    /\ wpc[w] = "idle"
    /\ Due(r)
    /\ wpc' = [wpc EXCEPT ![w] = "picked"]
    /\ job' = [job EXCEPT ![w] =
          [row |-> r, version |-> version[r], attempts |-> attempts[r],
           pend |-> IF state[r] # "applying" THEN state[r]
                    ELSE IF target[r] = "FAILURE" THEN "refund_pending" ELSE "settle_pending"]]
    /\ NoFault
    /\ UNCHANGED <<row, money, outbox, task, request, view>>

\* ClaimBillingTransaction: compare-and-swap on the version.
CanClaim(w) == version[job[w].row] = job[w].version /\ Due(job[w].row)

Claim(w) ==
    /\ wpc[w] = "picked"
    /\ CanClaim(w)
    /\ state' = [state EXCEPT ![job[w].row] = "applying"]
    /\ leased' = [leased EXCEPT ![job[w].row] = TRUE]
    /\ version' = [version EXCEPT ![job[w].row] = @ + 1]
    /\ wpc' = [wpc EXCEPT ![w] = "claimed"]
    /\ NoFault
    /\ UNCHANGED <<bound, source, reserved, final, target, attempts, backoff, aged,
                   money, outbox, task, request, job, view>>

ClaimLost(w) ==
    /\ wpc[w] = "picked"
    /\ \/ ~CanClaim(w) /\ NoFault
       \/ Fault("dberr")
    /\ EndPass(w)
    /\ UNCHANGED <<row, money, outbox, task, request>>

\* applyDurableTaskBilling: the unlocked read of an applying row.
ApplyRead(w) ==
    LET r == job[w].row
    IN  /\ wpc[w] = "claimed"
        /\ wpc' = [wpc EXCEPT ![w] = IF state[r] = "applying" THEN "applying" ELSE "failed"]
        /\ view' = [view EXCEPT ![w] =
               IF state[r] = "applying"
               THEN [bound |-> bound[r], reserved |-> reserved[r],
                     final |-> final[r], target |-> target[r]]
               ELSE NoView]
        /\ NoFault
        /\ UNCHANGED <<row, money, outbox, task, request, job>>

\* MUTANT: the adjustment is stored as the final quota.
FinalQuotaDelta(v) == v.final - v.reserved

\* applyDurableTaskBilling: a failure costs nothing, whatever the row says.
FinalQuota(v) == IF v.target = "FAILURE" THEN 0 ELSE v.final

\* MUTANT: the outbox's event ids are not unique.
CanApplyAgain(w) ==
    LET r == job[w].row
        v == view[w]
    IN  /\ CanMove(r, source[r], FinalQuota(v) - v.reserved)
        /\ v.bound \/ v.target = "FAILURE"

\* What the transaction's writes check: the balances, an unbound row's target,
\* and the unique event ids of the outbox.
CanApply(w) ==
    LET r == job[w].row
        v == view[w]
    IN  /\ CanMove(r, source[r], FinalQuota(v) - v.reserved)
        /\ v.bound \/ v.target = "FAILURE"
        /\ r \notin cacheEvent
        /\ (v.bound /\ v.target = "SUCCESS") => r \notin logEvent

\* The writes of applyDurableTaskBilling, committed.  The row itself is updated
\* only if it is still applying, and nobody looks at the number of rows hit.
Apply(w) ==
    LET r    == job[w].row
        v    == view[w]
        fin  == FinalQuota(v)
        done == IF v.target = "FAILURE" THEN "refunded" ELSE "settled"
        hit  == state[r] = "applying"
    IN  /\ CanApply(w)
        /\ Move(r, fin - v.reserved)
        /\ usage' = [usage EXCEPT ![r] = IF v.bound /\ v.target = "SUCCESS" THEN @ + fin ELSE @]
        /\ taskQuota' = [taskQuota EXCEPT ![r] = IF v.bound THEN fin ELSE @]
        /\ taskBilling' = [taskBilling EXCEPT ![r] = IF v.bound THEN done ELSE @]
        /\ state' = [state EXCEPT ![r] = IF hit THEN done ELSE @]
        /\ final' = [final EXCEPT ![r] = IF hit THEN fin ELSE @]
        /\ leased' = [leased EXCEPT ![r] = IF hit THEN FALSE ELSE @]
        /\ cacheEvent' = cacheEvent \cup {r}
        /\ logEvent' = IF v.bound /\ v.target = "SUCCESS" THEN logEvent \cup {r} ELSE logEvent
        /\ UNCHANGED <<bound, source, reserved, target, version, attempts, backoff, aged,
                       taskStatus, request>>

ApplyCommit(w) ==
    /\ wpc[w] = "applying"
    /\ Apply(w)
    /\ EndPass(w)
    /\ NoFault

ApplyAckLost(w) ==
    /\ wpc[w] = "applying"
    /\ Apply(w)
    /\ FailApply(w)
    /\ Fault("ack")

ApplyRollback(w) ==
    /\ wpc[w] = "applying"
    /\ \/ ~CanApply(w) /\ NoFault
       \/ Fault("dberr")
    /\ FailApply(w)
    /\ UNCHANGED <<row, money, outbox, task, request>>

\* MUTANT: ReleaseBillingTransaction without "state = applying".
ReleaseAnyState(w) ==
    LET r == job[w].row
        n == job[w].attempts + 1
    IN  /\ wpc[w] = "failed"
        /\ state' = [state EXCEPT ![r] =
               IF n >= MaxAttempts THEN "action_required" ELSE job[w].pend]
        /\ attempts' = [attempts EXCEPT ![r] = n]
        /\ leased' = [leased EXCEPT ![r] = FALSE]
        /\ backoff' = backoff \cup {r}
        /\ EndPass(w)
        /\ NoFault
        /\ UNCHANGED <<bound, source, reserved, final, target, version, aged,
                       money, outbox, task, request>>

\* ReleaseBillingTransaction: any applying row of that id, whoever claimed it.
Release(w) ==
    LET r == job[w].row
        n == job[w].attempts + 1
        hit == state[r] = "applying"
    IN  /\ wpc[w] = "failed"
        /\ state' = [state EXCEPT ![r] =
               IF ~hit THEN @ ELSE IF n >= MaxAttempts THEN "action_required" ELSE job[w].pend]
        /\ attempts' = [attempts EXCEPT ![r] = IF hit THEN n ELSE @]
        /\ leased' = [leased EXCEPT ![r] = IF hit THEN FALSE ELSE @]
        /\ backoff' = IF hit THEN backoff \cup {r} ELSE backoff
        /\ EndPass(w)
        /\ NoFault
        /\ UNCHANGED <<bound, source, reserved, final, target, version, aged,
                       money, outbox, task, request>>

\* An error of the release is ignored: the row stays applying until its lease
\* expires.
ReleaseError(w) ==
    /\ wpc[w] = "failed"
    /\ EndPass(w)
    /\ Fault("dberr")
    /\ UNCHANGED <<row, money, outbox, task, request>>

WorkerCrash(w) ==
    /\ wpc[w] # "idle"
    /\ EndPass(w)
    /\ Fault("crash")
    /\ UNCHANGED <<row, money, outbox, task, request>>

(***************************************************************************)
(* The clock.                                                              *)
(***************************************************************************)
\* An unbound reservation turns an hour old.  The grace period is longer than
\* a request lives, unless "slow_request" says otherwise.
Age(r) ==
    /\ state[r] = "reserved" /\ ~bound[r] /\ r \notin aged
    /\ RequestLive(r) => "slow_request" \in Faults
    /\ aged' = aged \cup {r}
    /\ NoFault
    /\ UNCHANGED <<state, bound, source, reserved, final, target, version, leased,
                   attempts, backoff, money, outbox, task, request, worker>>

ExpireLease(r) ==
    /\ leased[r]
    /\ leased' = [leased EXCEPT ![r] = FALSE]
    /\ UNCHANGED <<state, bound, source, reserved, final, target, version,
                   attempts, backoff, aged, money, outbox, task, request, worker>>

\* The lease of a worker that is gone, and of one that is merely slow.
LeaseTimeout(r) == (\A w \in Workers : ~Holds(w, r)) /\ ExpireLease(r) /\ NoFault
LeaseLost(r)    == (\E w \in Workers : Holds(w, r)) /\ ExpireLease(r) /\ Fault("slow")

EndBackoff(r) ==
    /\ r \in backoff
    /\ backoff' = backoff \ {r}
    /\ UNCHANGED <<state, bound, source, reserved, final, target, version, leased,
                   attempts, aged, money, outbox, task, request, worker>>

\* The two seconds or more of a back-off pass; a worker that is in the middle
\* of a pass over the row meanwhile is a slow one.
Busy(w, r) == wpc[w] # "idle" /\ job[w].row = r
RetryDue(r)    == (\A w \in Workers : ~Busy(w, r)) /\ EndBackoff(r) /\ NoFault
RetryOverdue(r) == (\E w \in Workers : Busy(w, r)) /\ EndBackoff(r) /\ Fault("slow")

-----------------------------------------------------------------------------
Init ==
    /\ state = [r \in Requests |-> "none"]
    /\ bound = [r \in Requests |-> FALSE]
    /\ source = [r \in Requests |-> "none"]
    /\ reserved = [r \in Requests |-> 0]
    /\ final = [r \in Requests |-> 0]
    /\ target = [r \in Requests |-> ""]
    /\ version = [r \in Requests |-> 0]
    /\ leased = [r \in Requests |-> FALSE]
    /\ attempts = [r \in Requests |-> 0]
    /\ backoff = {}
    /\ aged = {}
    /\ charged = [r \in Requests |-> 0]
    /\ tokenCharged = [r \in Requests |-> 0]
    /\ usage = [r \in Requests |-> 0]
    /\ cacheEvent = {}
    /\ logEvent = {}
    /\ taskStatus = [r \in Requests |-> "none"]
    /\ taskQuota = [r \in Requests |-> 0]
    /\ taskBilling = [r \in Requests |-> ""]
    /\ req = [r \in Requests |-> "idle"]
    /\ session = [r \in Requests |-> 0]
    /\ want = [r \in Requests |-> 0]
    /\ wpc = [w \in Workers |-> "idle"]
    /\ job = [w \in Workers |-> NoJob]
    /\ view = [w \in Workers |-> NoView]
    /\ unguarded = [r \in Requests |-> 0]
    /\ copy = [r \in Requests |-> NoCopy]
    /\ fetches = 0
    /\ gone = {}
    /\ faults = 0

RequestStep(r) ==
    \/ Reserve(r) \/ ReserveAckLost(r) \/ ReserveRefused(r)
    \/ UpstreamAccepts(r) \/ UpstreamFails(r)
    \/ HoldRead(r) \/ HoldCommit(r) \/ HoldAckLost(r) \/ HoldRollback(r)
    \/ Bind(r) \/ BindAckLost(r) \/ BindRollback(r)
    \/ Refund(r) \/ RefundError(r) \/ RequestCrash(r)

TaskStep(r) ==
    \/ TaskSucceeds(r) \/ TaskFails(r)
    \/ TaskEndsUntracked(r) \/ TaskSettlesUntracked(r) \/ TaskRefundsUntracked(r)
    \/ TaskRefundsTwice(r) \/ LostRaceRefund(r)

FetchStep(r) ==
    \/ FetchTask(r) \/ FetchDropped(r) \/ FetchChangesEnd(r)
    \/ FetchSaves(r) \/ FetchSavesUntracked(r)

WorkerStep(w) ==
    \/ MarkStale(w) \/ (\E r \in Requests : Pick(w, r))
    \/ Claim(w) \/ ClaimLost(w)
    \/ ApplyRead(w) \/ ApplyCommit(w) \/ ApplyAckLost(w) \/ ApplyRollback(w)
    \/ Release(w) \/ ReleaseError(w) \/ WorkerCrash(w)

ClockStep(r) == Age(r) \/ LeaseTimeout(r) \/ LeaseLost(r) \/ RetryDue(r) \/ RetryOverdue(r)

Next == \/ \E r \in Requests : RequestStep(r) \/ TaskStep(r) \/ ClockStep(r)
        \/ \E r \in Realtime : FetchStep(r)
        \/ \E x \in Deletable : Delete(x)
        \/ \E w \in Workers : WorkerStep(w)

Spec == Init /\ [][Next]_vars

-----------------------------------------------------------------------------
(***************************************************************************)
(* Safety.                                                                 *)
(***************************************************************************)
RowTypes ==
    /\ state \in [Requests -> States]
    /\ bound \in [Requests -> BOOLEAN]
    /\ source \in [Requests -> Sources \cup {"none"}]
    /\ reserved \in [Requests -> Nat]
    /\ final \in [Requests -> Nat]
    /\ target \in [Requests -> {"", "SUCCESS", "FAILURE"}]
    /\ version \in [Requests -> Nat]
    /\ leased \in [Requests -> BOOLEAN]
    /\ attempts \in [Requests -> Nat]
    /\ backoff \subseteq Requests
    /\ aged \subseteq Requests
MoneyTypes ==
    /\ charged \in [Requests -> Int]
    /\ tokenCharged \in [Requests -> Int]
    /\ usage \in [Requests -> Nat]
    /\ unguarded \in [Requests -> Nat]
OutboxTypes ==
    /\ cacheEvent \subseteq Requests
    /\ logEvent \subseteq Requests
TaskTypes ==
    /\ taskStatus \in [Requests -> {"none", "LIVE", "SUCCESS", "FAILURE"}]
    /\ taskQuota \in [Requests -> Nat]
    /\ taskBilling \in [Requests -> {""} \cup Pending \cup Done]
RequestTypes ==
    /\ req \in [Requests -> {"idle", "upstream", "accepted", "holding", "held",
                             "refunding", "done", "dead"}]
    /\ session \in [Requests -> Nat]
    /\ want \in [Requests -> Nat]
WorkerTypes ==
    /\ wpc \in [Workers -> {"idle", "picked", "claimed", "applying", "failed"}]
    /\ job \in [Workers -> Jobs]
    /\ view \in [Workers -> Views]
Copies == [status : {"none", "LIVE", "SUCCESS", "FAILURE"}, quota : Nat,
           billing : {""} \cup Pending \cup Done]
WorldTypes ==
    /\ copy \in [Requests -> Copies]
    /\ fetches \in Nat
    /\ gone \subseteq Deletable
    /\ faults \in Nat

\* Every variable has its type.
TypeOK ==
    /\ RowTypes /\ MoneyTypes /\ OutboxTypes /\ TaskTypes /\ RequestTypes /\ WorkerTypes
    /\ WorldTypes

\* What row r must have cost its user: the reservation until its outcome is
\* applied, then the final quota of a success and nothing otherwise.
Owed(r) == IF r \notin cacheEvent THEN reserved[r]
           ELSE IF target[r] = "SUCCESS" THEN final[r] ELSE 0

\* For a task nobody fetches in real time, wallet or subscription, and the token
\* unless the request is a playground one, are charged exactly what the row says,
\* however often its application is retried and by however many workers at once;
\* and a row that reports settled or refunded has been applied
\* (service/task_billing_durable.go applyDurableTaskBilling).
LedgerMatchesRow ==
    \A r \in Polled :
        /\ charged[r] = Owed(r)
        /\ tokenCharged[r] = IF r \in Playground THEN 0 ELSE Owed(r)
        /\ state[r] \in Done => r \in cacheEvent

\* The user's and channel's used_quota grow once per successful polled task, by
\* what the task was charged, and exactly then a billing log event exists.
UsageMatchesCharge ==
    \A r \in Polled :
        /\ usage[r] = IF r \in logEvent THEN charged[r] ELSE 0
        /\ r \in logEvent <=> r \in cacheEvent /\ taskStatus[r] = "SUCCESS"

\* The reservation of a polled task is given back only when no task will ever
\* deliver for it (the request never bound one, or the bound task failed), and
\* kept only for a task that succeeded.
OutcomeMatchesTask ==
    \A r \in Polled :
        /\ state[r] \in {"refund_pending", "refunded"} => taskStatus[r] \in {"none", "FAILURE"}
        /\ r \in cacheEvent /\ target[r] = "FAILURE" => taskStatus[r] \in {"none", "FAILURE"}
        /\ r \in cacheEvent /\ target[r] # "FAILURE" => taskStatus[r] = "SUCCESS"

\* A polled task that is still running is backed by a reservation nobody is
\* settling or refunding (the states CreateTaskBillingIntent refuses never occur).
LiveTaskIsReserved ==
    \A r \in Polled : taskStatus[r] = "LIVE" =>
        state[r] = "reserved" /\ bound[r] /\ r \notin cacheEvent

\* A polled task's billing_state never runs ahead of a row that is still reserved,
\* the situation repairPendingTaskBillingIntents looks for, and reports a final
\* state only once the money moved.
TaskMirrorsRow ==
    \A r \in Polled :
        /\ taskBilling[r] \in Pending => state[r] # "reserved" /\ r \notin cacheEvent
        /\ taskBilling[r] \in Done <=> r \in cacheEvent /\ bound[r]
        /\ taskBilling[r] \in Done => taskQuota[r] = charged[r]

\* What settlements outside the row have charged the requests in R on top.
Surcharge(R) == MapThenSumSet(LAMBDA r : unguarded[r], R)

\* No interleaving of reservations, supplements, settlements and fetches overdraws
\* a subscription, and the wallet and a limited token are overdrawn by no more
\* than what settleTaskBillingOnComplete charged without looking at them.
NoOverdraft ==
    /\ Available("subscription") >= 0
    /\ Available("wallet") + Surcharge({r \in Requests : source[r] = "wallet"}) >= 0
    /\ Unlimited \/ TokenRemain + Surcharge(Requests \ Playground) >= 0

\* A settled or refunded row of a polled task is final, and once its outcome is
\* applied no later step moves money for it.
FinalIsFinal ==
    [][\A r \in Polled :
        /\ state[r] \in Done => state'[r] = state[r]
        /\ r \in cacheEvent => charged'[r] = charged[r] /\ usage'[r] = usage[r]]_vars

\* The ledger as rows, tasks and outbox show it: an outcome counts as applied
\* once its cache event exists, whatever the row says by then.
Phase(r) == IF r \in cacheEvent THEN IF target[r] = "SUCCESS" THEN "charged" ELSE "returned"
            ELSE IF state[r] = "none" THEN "none" ELSE "held"
Price(r) == IF taskStatus[r] = "SUCCESS" THEN final[r] ELSE 0

Ledger == INSTANCE BillingLedger WITH
              Requests <- Polled,
              phase <- [r \in Polled |-> Phase(r)], paid <- [r \in Polled |-> charged[r]],
              job <- [r \in Polled |-> taskStatus[r]], price <- [r \in Polled |-> Price(r)]

\* Whatever the workers retry, repeat or lose, a user sees a ledger on which
\* each request for a polled task holds an amount, may change it until its task
\* starts, and is charged the price fixed when the task ended, or gets everything
\* back, in one step that happens once (controller/relay.go RelayTask, CreateTaskBillingIntent
\* and applyDurableTaskBilling together).
ImplementsLedger == Ledger!Spec

\* The row tells whether its outcome was applied ("the durable source of truth
\* for a request's reserved quota and its eventual settlement/refund").
RowIsSourceOfTruth ==
    \A r \in Requests : r \in cacheEvent => state[r] \in Done

\* Billing happens once a task has ended, "preventing both skipped and duplicated
\* adjustments": a failed task has queued its refund or was refunded by its
\* sweeper, and nobody gets back more than was taken
\* (service/task_polling.go ApplyTaskResult).
NoneSkippedNorDuplicated ==
    \A r \in Requests :
        /\ taskStatus[r] = "FAILURE" => state[r] # "reserved" \/ charged[r] = 0
        /\ charged[r] >= 0

-----------------------------------------------------------------------------
(***************************************************************************)
(* Liveness.  A request goroutine runs on unless its process dies; every   *)
(* second a pass of some live node's coordinator visits every due row (the *)
(* batch is ordered by id, hence strong fairness per row); the clock moves.*)
(***************************************************************************)
RequestProgress(r) ==
    \/ UpstreamAccepts(r) \/ UpstreamFails(r) \/ HoldRead(r) \/ HoldCommit(r)
    \/ HoldRollback(r) \/ Bind(r) \/ BindRollback(r) \/ Refund(r)
WorkerProgress(w) ==
    \/ Claim(w) \/ ClaimLost(w) \/ ApplyRead(w) \/ ApplyCommit(w) \/ ApplyRollback(w)
    \/ Release(w)

Fairness ==
    /\ \A r \in Requests :
        /\ WF_vars(RequestProgress(r))
        /\ SF_vars(\E w \in Workers : Pick(w, r))
        /\ WF_vars(Age(r))
        /\ WF_vars(LeaseTimeout(r))
        /\ WF_vars(RetryDue(r))
    /\ SF_vars(\E w \in Workers : MarkStale(w))
    /\ \A w \in Workers : WF_vars(WorkerProgress(w))

FairSpec == Spec /\ Fairness

\* A reservation whose request is gone without a task is refunded in the end, or
\* handed to an operator after MaxAttempts failures.
OrphanRefunded ==
    \A r \in Requests :
        (state[r] = "reserved" /\ ~bound[r] /\ ~RequestLive(r)) ~>
            (r \in cacheEvent /\ charged[r] = 0) \/ state[r] = "action_required"

\* A queued refund or settlement is applied or handed to an operator: retries
\* neither starve nor go on for ever, whatever was deleted meanwhile.
PendingResolved ==
    \A r \in Requests :
        (state[r] \in Pending) ~> (r \in cacheEvent \/ state[r] = "action_required")
=============================================================================
