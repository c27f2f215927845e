------------------------ MODULE DurableBillingProofs ------------------------
(***************************************************************************)
(* Proofs about DurableBilling for any sets of requests and workers, any   *)
(* amounts, funds and number of attempts, and any faults except a request  *)
(* that outlasts the one-hour grace period and a COUNT whose failure is    *)
(* taken for the absence of durable billing.  They speak of the polled     *)
(* tasks, whatever realtime fetches do to the others beside them.  What is *)
(* said of the balances, at the end, holds for all tasks and all faults.   *)
(***************************************************************************)
EXTENDS DurableBilling, SumLemmas, TLAPS

\* Only faults the code has an answer to.
Survivable == Faults \cap {"slow_request", "count", "recount"} = {}

Queued(r) == state[r] \notin {"none", "reserved"}
PendOf(r) == IF target[r] = "FAILURE" THEN "refund_pending" ELSE "settle_pending"

\* What is known of a row before its outcome is queued.
RowInv(r) ==
    /\ req[r] = "idle" => state[r] = "none"
    /\ state[r] = "none" =>
        /\ req[r] \in {"idle", "done"}
        /\ reserved[r] = 0 /\ ~bound[r] /\ r \notin aged
    /\ ~Queued(r) => r \notin cacheEvent /\ target[r] = ""
    /\ r \in aged => ~RequestLive(r)
    /\ req[r] \in {"upstream", "accepted", "holding"} => session[r] = reserved[r]
    /\ req[r] \in {"upstream", "accepted", "holding", "held"} =>
        state[r] = "reserved" /\ ~bound[r]

\* A row and its task: an unbound row has none, a bound one is settled or
\* refunded as its task ended.
TaskInv(r) ==
    /\ ~bound[r] <=> taskStatus[r] = "none"
    /\ taskStatus[r] = "LIVE" => state[r] = "reserved"
    /\ ~Queued(r) \/ ~bound[r] => taskBilling[r] = ""
    /\ Queued(r) /\ bound[r] => target[r] = taskStatus[r]
    /\ Queued(r) /\ bound[r] /\ r \notin cacheEvent => taskBilling[r] = PendOf(r)
    /\ Queued(r) /\ bound[r] /\ r \in cacheEvent =>
        taskBilling[r] \in Done /\ taskQuota[r] = charged[r]

\* A queued outcome is fixed, whatever the state of its application.
QueueInv(r) ==
    Queued(r) =>
        /\ target[r] \in {"SUCCESS", "FAILURE"}
        /\ target[r] = "FAILURE" => final[r] = 0
        /\ ~bound[r] => target[r] = "FAILURE"
        /\ state[r] \in Pending => state[r] = PendOf(r)
        /\ state[r] = "settled" => target[r] = "SUCCESS"
        /\ state[r] = "refunded" => target[r] = "FAILURE"
        /\ state[r] \in Done => r \in cacheEvent

\* What was moved and counted for a row.
MoneyInv(r) ==
    /\ charged[r] = Owed(r)
    /\ tokenCharged[r] = IF r \in Playground THEN 0 ELSE Owed(r)
    /\ usage[r] = IF r \in logEvent THEN charged[r] ELSE 0
    /\ r \in logEvent <=> r \in cacheEvent /\ target[r] = "SUCCESS"

\* A worker in a pass over a polled task has a queued row, and its transaction read what the row
\* still says: nothing changes a queued outcome.
WorkerInv(w) ==
    /\ wpc[w] # "idle" /\ job[w].row \in Polled =>
        Queued(job[w].row) /\ job[w].pend = PendOf(job[w].row)
    /\ wpc[w] = "applying" /\ job[w].row \in Polled =>
        view[w] = [bound |-> bound[job[w].row], reserved |-> reserved[job[w].row],
                   final |-> final[job[w].row], target |-> target[job[w].row]]

IndInv ==
    /\ TypeOK
    /\ \A r \in Polled : RowInv(r) /\ TaskInv(r) /\ QueueInv(r) /\ MoneyInv(r)
    /\ \A w \in Workers : WorkerInv(w)

-----------------------------------------------------------------------------
(***************************************************************************)
(* Types.                                                                  *)
(***************************************************************************)
LEMMA NoJobType == NoJob \in Jobs
BY RequestsAssumption DEF NoJob, Jobs, Pending

LEMMA NoViewType == NoView \in Views
BY DEF NoView, Views

LEMMA NoCopyType == NoCopy \in Copies
BY DEF NoCopy, Copies

\* The parts of a job and of a view.
LEMMA JobType ==
    ASSUME TypeOK, NEW w \in Workers
    PROVE  /\ job[w] \in Jobs /\ view[w] \in Views
           /\ job[w].row \in Requests
           /\ job[w].version \in Nat
           /\ job[w].attempts + 1 \in Nat
           /\ job[w].pend \in Pending
           /\ view[w].reserved \in Nat /\ view[w].final \in Nat
           /\ FinalQuota(view[w]) \in Nat
           /\ FinalQuota(view[w]) - view[w].reserved \in Int
<1>1. job[w] \in Jobs /\ view[w] \in Views
    BY DEF TypeOK, WorkerTypes
<1>2. view[w].reserved \in Nat /\ view[w].final \in Nat
    BY <1>1 DEF Views
<1>3. FinalQuota(view[w]) \in Nat
    BY <1>2 DEF FinalQuota
<1>4. FinalQuota(view[w]) - view[w].reserved \in Int
    BY <1>2, <1>3
<1> QED
    BY <1>1, <1>2, <1>3, <1>4 DEF Jobs

\* A step keeps the types of the variables it leaves alone.
LEMMA TypeFrame ==
    ASSUME TypeOK
    PROVE  /\ UNCHANGED row => RowTypes'
           /\ UNCHANGED money => MoneyTypes'
           /\ UNCHANGED outbox => OutboxTypes'
           /\ UNCHANGED task => TaskTypes'
           /\ UNCHANGED request => RequestTypes'
           /\ UNCHANGED worker => WorkerTypes'
           /\ NoFault => WorldTypes'
<1> USE DEF TypeOK
<1>1. UNCHANGED row => RowTypes'
    BY DEF row, RowTypes
<1>2. UNCHANGED money => MoneyTypes'
    BY DEF money, MoneyTypes
<1>3. UNCHANGED outbox => OutboxTypes'
    BY DEF outbox, OutboxTypes
<1>4. UNCHANGED task => TaskTypes'
    BY DEF task, TaskTypes
<1>5. UNCHANGED request => RequestTypes'
    BY DEF request, RequestTypes
<1>6. UNCHANGED worker => WorkerTypes'
    BY DEF worker, WorkerTypes
<1>7. NoFault => WorldTypes'
    BY DEF NoFault, WorldTypes
<1> QED
    BY <1>1, <1>2, <1>3, <1>4, <1>5, <1>6, <1>7

\* A worker that ends its pass or its transaction keeps the workers' types.
LEMMA EndPassType ==
    ASSUME TypeOK, NEW w \in Workers, EndPass(w) \/ FailApply(w)
    PROVE  WorkerTypes'
BY NoJobType, NoViewType DEF TypeOK, WorkerTypes, EndPass, FailApply

\* The names a step writes into state are states.
LEMMA StateNames ==
    /\ "reserved" \in States /\ "applying" \in States /\ "settled" \in States
    /\ "refunded" \in States /\ "action_required" \in States
    /\ "settle_pending" \in States /\ "refund_pending" \in States
    /\ Pending \subseteq States
BY DEF States, Pending

\* Moving an integer amount keeps the ledgers integer.
LEMMA MoveType ==
    ASSUME TypeOK, NEW r \in Requests, NEW d \in Int, Move(r, d), usage' \in [Requests -> Nat]
    PROVE  MoneyTypes'
<1>1. \A q \in Requests : charged[q] + d \in Int /\ tokenCharged[q] + d \in Int
    BY DEF TypeOK, MoneyTypes
<1>2. charged' \in [Requests -> Int]
    BY <1>1 DEF TypeOK, MoneyTypes, Move
<1>3. tokenCharged' \in [Requests -> Int]
    BY <1>1 DEF TypeOK, MoneyTypes, Move
<1>4. unguarded' \in [Requests -> Nat]
    BY DEF TypeOK, MoneyTypes, Move
<1> QED
    BY <1>2, <1>3, <1>4 DEF MoneyTypes

\* So does a move that looks at no balance.
LEMMA LegacyMoveType ==
    ASSUME TypeOK, NEW r \in Requests, NEW d \in Int, LegacyMove(r, d), usage' \in [Requests -> Nat]
    PROVE  MoneyTypes'
<1>1. \A q \in Requests : /\ charged[q] + d \in Int /\ tokenCharged[q] + d \in Int
                          /\ (d > 0 => unguarded[q] + d \in Nat)
    BY DEF TypeOK, MoneyTypes
<1>2. charged' \in [Requests -> Int]
    BY <1>1 DEF TypeOK, MoneyTypes, LegacyMove
<1>3. tokenCharged' \in [Requests -> Int]
    BY <1>1 DEF TypeOK, MoneyTypes, LegacyMove
<1>4. unguarded' \in [Requests -> Nat]
    BY <1>1 DEF TypeOK, MoneyTypes, LegacyMove
<1> QED
    BY <1>2, <1>3, <1>4 DEF MoneyTypes

LEMMA CreateRowType ==
    ASSUME TypeOK, NEW r \in Requests, NEW q \in Quotas, NEW s \in Sources, CreateRow(r, q, s)
    PROVE  RowTypes' /\ MoneyTypes'
<1>1. q \in Nat /\ q \in Int
    BY QuotasAssumption
<1>2. RowTypes'
    BY <1>1, StateNames DEF TypeOK, RowTypes, CreateRow
<1>3. MoneyTypes'
    BY <1>1, MoveType DEF TypeOK, MoneyTypes, CreateRow
<1> QED
    BY <1>2, <1>3

LEMMA AdjustReservationType ==
    ASSUME TypeOK, NEW r \in Requests, AdjustReservation(r)
    PROVE  RowTypes' /\ MoneyTypes'
<1>1. want[r] \in Nat /\ want[r] - session[r] \in Int
    BY DEF TypeOK, RequestTypes
<1>2. RowTypes'
    BY <1>1 DEF TypeOK, RowTypes, AdjustReservation
<1>3. MoneyTypes'
    BY <1>1, MoveType DEF TypeOK, MoneyTypes, AdjustReservation
<1> QED
    BY <1>2, <1>3

LEMMA RefundIntentType ==
    ASSUME TypeOK, NEW R \in SUBSET Requests, RefundIntent(R),
           UNCHANGED <<bound, source, reserved, version, leased, attempts>>
    PROVE  RowTypes'
BY StateNames DEF TypeOK, RowTypes, RefundIntent

LEMMA TaskIntentType ==
    ASSUME TypeOK, NEW r \in Requests, NEW from, NEW s \in {"SUCCESS", "FAILURE"}, NEW q \in Nat,
           TaskIntent(r, from, s, q)
    PROVE  RowTypes' /\ (taskQuota' \in [Requests -> Nat] => TaskTypes')
<1>1. RowTypes'
    BY StateNames DEF TypeOK, RowTypes, TaskIntent
<1>2. taskQuota' \in [Requests -> Nat] => TaskTypes'
    BY DEF TypeOK, TaskTypes, TaskIntent, Pending, Done
<1> QED
    BY <1>1, <1>2

LEMMA TaskEndsType ==
    ASSUME TypeOK, NEW r \in Requests, NEW s \in {"SUCCESS", "FAILURE"}, TaskEnds(r, s)
    PROVE  (taskQuota' \in [Requests -> Nat] => TaskTypes') /\ WorldTypes'
<1>1. taskQuota' \in [Requests -> Nat] => TaskTypes'
    BY DEF TypeOK, TaskTypes, TaskEnds, task
<1>2. WorldTypes'
    BY DEF TypeOK, TaskEnds, Fault, Count, WorldTypes
<1> QED
    BY <1>1, <1>2

LEMMA LegacyRefundType ==
    ASSUME TypeOK, NEW r \in Requests, NEW q \in Nat, LegacyRefund(r, q)
    PROVE  MoneyTypes' /\ taskQuota' \in [Requests -> Nat]
<1>1. PICK d \in Int : LegacyMove(r, d)
    BY DEF LegacyRefund
<1>2. usage' \in [Requests -> Nat]
    BY DEF TypeOK, MoneyTypes, LegacyRefund
<1>3. taskQuota' \in [Requests -> Nat]
    BY DEF TypeOK, TaskTypes, LegacyRefund
<1> QED
    BY <1>1, <1>2, <1>3, LegacyMoveType

\* A settlement outside the row ends with some quota, and a subscription only
\* pays the difference if it can.
LEMMA LegacySettleFacts ==
    ASSUME NEW r \in Requests, NEW old \in Nat, LegacySettle(r, old)
    PROVE  \E fin \in Nat :
              /\ LegacyMove(r, fin - old)
              /\ taskQuota' = [taskQuota EXCEPT ![r] = fin]
              /\ usage' = [usage EXCEPT ![r] = @ + fin]
              /\ source[r] = "subscription" => fin = old \/ CanFund("subscription", fin - old)
<1> DEFINE Kept(q) == q = 0 \/ (source[r] = "subscription" /\ ~CanFund(source[r], q - old))
           Fin(q) == IF Kept(q) THEN old ELSE q
<1>1. PICK q \in Quotas \cup {0} :
        /\ LegacyMove(r, Fin(q) - old)
        /\ taskQuota' = [taskQuota EXCEPT ![r] = Fin(q)]
        /\ usage' = [usage EXCEPT ![r] = @ + Fin(q)]
    BY DEF LegacySettle
<1>2. q \in Nat /\ Fin(q) \in Nat
    BY QuotasAssumption
<1>3. source[r] = "subscription" => Fin(q) = old \/ CanFund("subscription", Fin(q) - old)
  <2>1. CASE Kept(q)
    BY <2>1
  <2>2. CASE ~Kept(q)
    <3>1. Fin(q) = q /\ (source[r] = "subscription" => CanFund(source[r], q - old))
      BY <2>2
    <3> HIDE DEF Fin, Kept
    <3> QED
      BY <3>1
  <2> QED
    BY <2>1, <2>2
<1> HIDE DEF Fin, Kept
<1> QED
    BY <1>1, <1>2, <1>3

LEMMA LegacySettleType ==
    ASSUME TypeOK, NEW r \in Requests, NEW old \in Nat, LegacySettle(r, old)
    PROVE  MoneyTypes' /\ taskQuota' \in [Requests -> Nat]
<1>1. PICK fin \in Nat : /\ LegacyMove(r, fin - old)
                         /\ taskQuota' = [taskQuota EXCEPT ![r] = fin]
                         /\ usage' = [usage EXCEPT ![r] = @ + fin]
    BY LegacySettleFacts
<1>2. usage' \in [Requests -> Nat] /\ taskQuota' \in [Requests -> Nat]
  <2>1. usage \in [Requests -> Nat] /\ taskQuota \in [Requests -> Nat]
    BY DEF TypeOK, MoneyTypes, TaskTypes
  <2>2. usage[r] + fin \in Nat
    BY <2>1
  <2> QED
    BY <1>1, <2>1, <2>2
<1>3. fin - old \in Int
    OBVIOUS
<1> QED
    BY <1>1, <1>2, <1>3, LegacyMoveType

LEMMA SaveCopyType ==
    ASSUME TypeOK, NEW r \in Requests, NEW st \in {"none", "LIVE", "SUCCESS", "FAILURE"},
           SaveCopy(r, st)
    PROVE  MoneyTypes' /\ TaskTypes'
<1>1. /\ copy[r].quota \in Nat /\ copy[r].billing \in {""} \cup Pending \cup Done
      /\ taskQuota \in [Requests -> Nat]
  <2>1. copy[r] \in Copies
    BY DEF TypeOK, WorldTypes
  <2> QED
    BY <2>1 DEF Copies, TypeOK, TaskTypes
<1>2. MoneyTypes' /\ taskQuota' \in [Requests -> Nat]
  <2>1. CASE LegacySettle(r, copy[r].quota)
    BY <1>1, <2>1, LegacySettleType
  <2>2. CASE LegacyRefund(r, copy[r].quota)
    BY <1>1, <2>2, LegacyRefundType
  <2>3. CASE taskQuota' = [taskQuota EXCEPT ![r] = copy[r].quota] /\ UNCHANGED money
    BY <1>1, <2>3, TypeFrame
  <2> QED
    BY <2>1, <2>2, <2>3 DEF SaveCopy
<1>3. /\ taskStatus' = [taskStatus EXCEPT ![r] = st]
      /\ taskBilling' = [taskBilling EXCEPT ![r] = copy[r].billing]
    BY DEF SaveCopy
<1> QED
    BY <1>1, <1>2, <1>3 DEF TypeOK, TaskTypes

\* A realtime fetch, from reading the task to saving its copy.
LEMMA FetchType ==
    ASSUME TypeOK, NEW r \in Requests, FetchStep(r)
    PROVE  TypeOK'
<1>f. /\ UNCHANGED row => RowTypes'
      /\ UNCHANGED money => MoneyTypes'
      /\ UNCHANGED outbox => OutboxTypes'
      /\ UNCHANGED task => TaskTypes'
      /\ UNCHANGED request => RequestTypes'
      /\ UNCHANGED worker => WorkerTypes'
    BY TypeFrame
<1>1. CASE FetchTask(r)
  <2>1. [status |-> taskStatus[r], quota |-> taskQuota[r], billing |-> taskBilling[r]] \in Copies
    BY DEF TypeOK, TaskTypes, Copies
  <2>2. WorldTypes'
    BY <1>1, <2>1 DEF TypeOK, WorldTypes, FetchTask
  <2> QED
    BY <1>1, <1>f, <2>2 DEF FetchTask, TypeOK
<1>2. ASSUME FetchEnds(r), faults' \in Nat PROVE WorldTypes'
    BY <1>2, NoCopyType DEF TypeOK, WorldTypes, FetchEnds
<1>3. CASE FetchDropped(r)
  <2>1. FetchEnds(r) /\ faults' \in Nat
    BY <1>3 DEF FetchDropped, TypeOK, WorldTypes
  <2> QED
    BY <1>2, <1>3, <1>f, <2>1 DEF FetchDropped, TypeOK
<1>4. CASE FetchChangesEnd(r)
  <2>1. FetchEnds(r) /\ faults' \in Nat
    BY <1>4 DEF FetchChangesEnd, TypeOK, WorldTypes
  <2>2. copy[r].quota \in Nat
    BY DEF TypeOK, WorldTypes, Copies
  <2>3. PICK st \in {"SUCCESS", "FAILURE"}, q \in Nat : TaskIntent(r, copy[r].status, st, q)
    BY <1>4, <2>2, QuotasAssumption DEF FetchChangesEnd
  <2>4. taskQuota' \in [Requests -> Nat] /\ UNCHANGED money
    BY <1>4, <2>2 DEF FetchChangesEnd, TypeOK, TaskTypes
  <2>5. RowTypes' /\ TaskTypes'
    BY <2>3, <2>4, TaskIntentType
  <2> QED
    BY <1>2, <1>f, <2>1, <2>3, <2>4, <2>5 DEF TaskIntent, TypeOK
<1>5. CASE FetchSaves(r) \/ FetchSavesUntracked(r)
  <2>1. FetchEnds(r) /\ faults' \in Nat
    BY <1>5 DEF FetchSaves, FetchSavesUntracked, Count, TypeOK, WorldTypes
  <2>2. copy[r].status \in {"none", "LIVE", "SUCCESS", "FAILURE"}
    BY DEF TypeOK, WorldTypes, Copies
  <2>3. PICK st \in {"none", "LIVE", "SUCCESS", "FAILURE"} : SaveCopy(r, st)
    BY <1>5, <2>2 DEF FetchSaves, FetchSavesUntracked
  <2>4. MoneyTypes' /\ TaskTypes'
    BY <2>3, SaveCopyType
  <2> QED
    BY <1>2, <1>f, <2>1, <2>3, <2>4 DEF SaveCopy, TypeOK
<1> QED
    BY <1>1, <1>3, <1>4, <1>5 DEF FetchStep

LEMMA ApplyType ==
    ASSUME TypeOK, NEW w \in Workers, Apply(w)
    PROVE  RowTypes' /\ MoneyTypes' /\ OutboxTypes' /\ TaskTypes'
<1>1. RowTypes'
    BY JobType, StateNames DEF TypeOK, RowTypes, Apply
<1>2. usage' \in [Requests -> Nat]
    BY JobType DEF TypeOK, MoneyTypes, Apply
<1>3. MoneyTypes'
    BY <1>2, JobType, MoveType DEF Apply
<1>4. OutboxTypes'
    BY JobType DEF TypeOK, OutboxTypes, Apply
<1>5. TaskTypes'
    BY JobType DEF TypeOK, TaskTypes, Apply, Done
<1> QED
    BY <1>1, <1>3, <1>4, <1>5

\* Every step keeps every variable in its type.
LEMMA TypeStep == TypeOK /\ [Next]_vars => TypeOK'
<1> SUFFICES ASSUME TypeOK, [Next]_vars PROVE TypeOK'
    OBVIOUS
<1> USE QuotasAssumption
<1>f. /\ UNCHANGED row => RowTypes'
      /\ UNCHANGED money => MoneyTypes'
      /\ UNCHANGED outbox => OutboxTypes'
      /\ UNCHANGED task => TaskTypes'
      /\ UNCHANGED request => RequestTypes'
      /\ UNCHANGED worker => WorkerTypes'
      /\ NoFault => WorldTypes'
    BY TypeFrame
<1>1. ASSUME NEW r \in Requests, Reserve(r) PROVE TypeOK'
  <2>1. RowTypes'
    BY <1>1, CreateRowType DEF Reserve
  <2>2. MoneyTypes'
    BY <1>1, CreateRowType DEF Reserve
  <2>3. RequestTypes'
    BY <1>1 DEF Reserve, CreateRow, Move, TypeOK, RequestTypes
  <2>4. WorldTypes'
    BY <1>1 DEF TypeOK, Reserve, CreateRow, NoFault, WorldTypes
  <2> QED
    BY <1>1, <1>f, <2>1, <2>2, <2>3, <2>4 DEF TypeOK, Reserve, CreateRow, Move, outbox, task, worker
<1>2. ASSUME NEW r \in Requests, ReserveAckLost(r) PROVE TypeOK'
  <2>1. RowTypes'
    BY <1>2, CreateRowType DEF ReserveAckLost
  <2>2. MoneyTypes'
    BY <1>2, CreateRowType DEF ReserveAckLost
  <2>3. RequestTypes'
    BY <1>2 DEF ReserveAckLost, CreateRow, Move, TypeOK, RequestTypes
  <2>4. WorldTypes'
    BY <1>2 DEF TypeOK, ReserveAckLost, CreateRow, Fault, Count, WorldTypes
  <2> QED
    BY <1>2, <1>f, <2>1, <2>2, <2>3, <2>4 DEF TypeOK, ReserveAckLost, CreateRow, Move, outbox, task, worker
<1>3. ASSUME NEW r \in Requests, ReserveRefused(r) PROVE TypeOK'
  <2>1. RequestTypes'
    BY <1>3 DEF ReserveRefused, TypeOK, RequestTypes
  <2>2. WorldTypes'
    BY <1>3 DEF TypeOK, ReserveRefused, NoFault, WorldTypes
  <2> QED
    BY <1>3, <1>f, <2>1, <2>2 DEF TypeOK, ReserveRefused, row, money, outbox, task, worker
<1>4. ASSUME NEW r \in Requests, UpstreamAccepts(r) PROVE TypeOK'
  <2>1. RequestTypes'
    BY <1>4 DEF UpstreamAccepts, TypeOK, RequestTypes
  <2>2. WorldTypes'
    BY <1>4 DEF TypeOK, UpstreamAccepts, NoFault, WorldTypes
  <2> QED
    BY <1>4, <1>f, <2>1, <2>2 DEF TypeOK, UpstreamAccepts, row, money, outbox, task, worker
<1>5. ASSUME NEW r \in Requests, UpstreamFails(r) PROVE TypeOK'
  <2>1. RequestTypes'
    BY <1>5 DEF UpstreamFails, TypeOK, RequestTypes
  <2>2. WorldTypes'
    BY <1>5 DEF TypeOK, UpstreamFails, NoFault, WorldTypes
  <2> QED
    BY <1>5, <1>f, <2>1, <2>2 DEF TypeOK, UpstreamFails, row, money, outbox, task, worker
<1>6. ASSUME NEW r \in Requests, HoldRead(r) PROVE TypeOK'
  <2>1. RequestTypes'
    BY <1>6 DEF HoldRead, TypeOK, RequestTypes
  <2>2. WorldTypes'
    BY <1>6 DEF TypeOK, HoldRead, NoFault, WorldTypes
  <2> QED
    BY <1>6, <1>f, <2>1, <2>2 DEF TypeOK, HoldRead, row, money, outbox, task, worker
<1>7. ASSUME NEW r \in Requests, HoldCommit(r) PROVE TypeOK'
  <2>1. RowTypes'
    BY <1>7, AdjustReservationType DEF HoldCommit
  <2>2. MoneyTypes'
    BY <1>7, AdjustReservationType DEF HoldCommit
  <2>3. RequestTypes'
    BY <1>7 DEF HoldCommit, AdjustReservation, Move, TypeOK, RequestTypes
  <2>4. WorldTypes'
    BY <1>7 DEF TypeOK, HoldCommit, AdjustReservation, NoFault, WorldTypes
  <2> QED
    BY <1>7, <1>f, <2>1, <2>2, <2>3, <2>4 DEF TypeOK, HoldCommit, AdjustReservation, Move, outbox, task, worker
<1>8. ASSUME NEW r \in Requests, HoldAckLost(r) PROVE TypeOK'
  <2>1. RowTypes'
    BY <1>8, AdjustReservationType DEF HoldAckLost
  <2>2. MoneyTypes'
    BY <1>8, AdjustReservationType DEF HoldAckLost
  <2>3. RequestTypes'
    BY <1>8 DEF HoldAckLost, AdjustReservation, Move, TypeOK, RequestTypes
  <2>4. WorldTypes'
    BY <1>8 DEF TypeOK, HoldAckLost, AdjustReservation, Fault, Count, WorldTypes
  <2> QED
    BY <1>8, <1>f, <2>1, <2>2, <2>3, <2>4 DEF TypeOK, HoldAckLost, AdjustReservation, Move, outbox, task, worker
<1>9. ASSUME NEW r \in Requests, HoldRollback(r) PROVE TypeOK'
  <2>1. RequestTypes'
    BY <1>9 DEF HoldRollback, TypeOK, RequestTypes
  <2>2. WorldTypes'
    BY <1>9 DEF TypeOK, HoldRollback, NoFault, Fault, Count, WorldTypes
  <2> QED
    BY <1>9, <1>f, <2>1, <2>2 DEF TypeOK, HoldRollback, row, money, outbox, task, worker
<1>10. ASSUME NEW r \in Requests, Bind(r) PROVE TypeOK'
  <2>1. RowTypes'
    BY <1>10 DEF Bind, BindTask, TypeOK, RowTypes, States, Pending, Sources
  <2>2. TaskTypes'
    BY <1>10 DEF Bind, BindTask, TypeOK, TaskTypes, Pending, Done, RequestTypes
  <2>3. RequestTypes'
    BY <1>10 DEF Bind, BindTask, TypeOK, RequestTypes
  <2>4. WorldTypes'
    BY <1>10 DEF TypeOK, Bind, BindTask, NoFault, WorldTypes
  <2> QED
    BY <1>10, <1>f, <2>1, <2>2, <2>3, <2>4 DEF TypeOK, Bind, BindTask, money, outbox, worker
<1>11. ASSUME NEW r \in Requests, BindAckLost(r) PROVE TypeOK'
  <2>1. RowTypes'
    BY <1>11 DEF BindAckLost, BindTask, TypeOK, RowTypes, States, Pending, Sources
  <2>2. TaskTypes'
    BY <1>11 DEF BindAckLost, BindTask, TypeOK, TaskTypes, Pending, Done, RequestTypes
  <2>3. RequestTypes'
    BY <1>11 DEF BindAckLost, BindTask, TypeOK, RequestTypes
  <2>4. WorldTypes'
    BY <1>11 DEF TypeOK, BindAckLost, BindTask, Fault, Count, WorldTypes
  <2> QED
    BY <1>11, <1>f, <2>1, <2>2, <2>3, <2>4 DEF TypeOK, BindAckLost, BindTask, money, outbox, worker
<1>12. ASSUME NEW r \in Requests, BindRollback(r) PROVE TypeOK'
  <2>1. RequestTypes'
    BY <1>12 DEF BindRollback, TypeOK, RequestTypes
  <2>2. WorldTypes'
    BY <1>12 DEF TypeOK, BindRollback, NoFault, Fault, Count, WorldTypes
  <2> QED
    BY <1>12, <1>f, <2>1, <2>2 DEF TypeOK, BindRollback, row, money, outbox, task, worker
<1>13. ASSUME NEW r \in Requests, Refund(r) PROVE TypeOK'
  <2>1. RowTypes'
    BY <1>13, RefundIntentType DEF Refund
  <2>2. RequestTypes'
    BY <1>13 DEF Refund, RefundIntent, TypeOK, RequestTypes
  <2>3. WorldTypes'
    BY <1>13 DEF TypeOK, Refund, RefundIntent, NoFault, WorldTypes
  <2> QED
    BY <1>13, <1>f, <2>1, <2>2, <2>3 DEF TypeOK, Refund, RefundIntent, money, outbox, task, worker
<1>14. ASSUME NEW r \in Requests, RefundError(r) PROVE TypeOK'
  <2>1. RequestTypes'
    BY <1>14 DEF RefundError, TypeOK, RequestTypes
  <2>2. WorldTypes'
    BY <1>14 DEF TypeOK, RefundError, Fault, Count, WorldTypes
  <2> QED
    BY <1>14, <1>f, <2>1, <2>2 DEF TypeOK, RefundError, row, money, outbox, task, worker
<1>15. ASSUME NEW r \in Requests, RequestCrash(r) PROVE TypeOK'
  <2>1. RequestTypes'
    BY <1>15 DEF RequestCrash, TypeOK, RequestTypes
  <2>2. WorldTypes'
    BY <1>15 DEF TypeOK, RequestCrash, Fault, Count, WorldTypes
  <2> QED
    BY <1>15, <1>f, <2>1, <2>2 DEF TypeOK, RequestCrash, row, money, outbox, task, worker
<1>16. ASSUME NEW r \in Requests, TaskSucceeds(r) \/ TaskFails(r) PROVE TypeOK'
  <2>1. PICK s \in {"SUCCESS", "FAILURE"}, q \in Nat : TaskIntent(r, "LIVE", s, q)
    BY <1>16 DEF TaskSucceeds, TaskFails
  <2>2. UNCHANGED <<money, taskQuota>> /\ NoFault
    BY <1>16 DEF TaskSucceeds, TaskFails
  <2>3. RowTypes' /\ TaskTypes'
    BY <2>1, <2>2, TaskIntentType DEF TypeOK, TaskTypes
  <2> QED
    BY <1>f, <2>1, <2>2, <2>3 DEF TypeOK, TaskIntent
<1>17. ASSUME NEW r \in Requests,
              TaskEndsUntracked(r) \/ TaskSettlesUntracked(r) \/ TaskRefundsUntracked(r)
       PROVE  TypeOK'
  <2>1. PICK s \in {"SUCCESS", "FAILURE"} : TaskEnds(r, s)
    BY <1>17 DEF TaskEndsUntracked, TaskSettlesUntracked, TaskRefundsUntracked
  <2>2. taskQuota[r] \in Nat /\ taskQuota \in [Requests -> Nat] /\ usage \in [Requests -> Nat]
    BY DEF TypeOK, TaskTypes, MoneyTypes
  <2>3. MoneyTypes' /\ taskQuota' \in [Requests -> Nat]
    <3>1. CASE TaskEndsUntracked(r)
      BY <3>1, <2>2, <1>f DEF TaskEndsUntracked
    <3>2. CASE TaskSettlesUntracked(r)
      BY <3>2, <2>2, LegacySettleType DEF TaskSettlesUntracked
    <3>3. CASE TaskRefundsUntracked(r)
      BY <3>3, <2>2, LegacyRefundType DEF TaskRefundsUntracked
    <3> QED
      BY <1>17, <3>1, <3>2, <3>3
  <2> QED
    BY <1>f, <2>1, <2>3, TaskEndsType DEF TypeOK, TaskEnds
<1>18. ASSUME NEW r \in Requests, TaskRefundsTwice(r) \/ LostRaceRefund(r) PROVE TypeOK'
  <2>1. PICK q \in Nat : LegacyRefund(r, q)
    BY <1>18 DEF TaskRefundsTwice, LostRaceRefund, TypeOK, TaskTypes, RequestTypes
  <2>2. MoneyTypes' /\ taskQuota' \in [Requests -> Nat]
    BY <2>1, LegacyRefundType
  <2>3. WorldTypes'
    BY <1>18 DEF TaskRefundsTwice, LostRaceRefund, TypeOK, Fault, Count, WorldTypes
  <2>4. CASE TaskRefundsTwice(r)
    <3>1. TaskIntent(r, "LIVE", "FAILURE", 0)
      BY <2>4 DEF TaskRefundsTwice
    <3>2. RowTypes' /\ TaskTypes'
      BY <2>2, <3>1, TaskIntentType
    <3> QED
      BY <1>f, <2>2, <2>3, <3>1, <3>2 DEF TypeOK, TaskIntent
  <2>5. CASE LostRaceRefund(r)
    <3>1. TaskTypes'
      BY <2>2, <2>5 DEF TypeOK, TaskTypes, LostRaceRefund
    <3> QED
      BY <1>f, <2>2, <2>3, <2>5, <3>1 DEF TypeOK, LostRaceRefund
  <2> QED
    BY <1>18, <2>4, <2>5
<1>19. ASSUME NEW r \in Requests, Age(r) PROVE TypeOK'
  <2>1. RowTypes'
    BY <1>19 DEF Age, TypeOK, RowTypes, States, Pending, Sources
  <2>2. WorldTypes'
    BY <1>19 DEF TypeOK, Age, NoFault, WorldTypes
  <2> QED
    BY <1>19, <1>f, <2>1, <2>2 DEF TypeOK, Age, money, outbox, task, request, worker
<1>20. ASSUME NEW r \in Requests, LeaseTimeout(r) PROVE TypeOK'
  <2>1. RowTypes'
    BY <1>20 DEF LeaseTimeout, ExpireLease, TypeOK, RowTypes, States, Pending, Sources
  <2>2. WorldTypes'
    BY <1>20 DEF TypeOK, LeaseTimeout, ExpireLease, NoFault, WorldTypes
  <2> QED
    BY <1>20, <1>f, <2>1, <2>2 DEF TypeOK, LeaseTimeout, ExpireLease, money, outbox, task, request, worker
<1>21. ASSUME NEW r \in Requests, LeaseLost(r) PROVE TypeOK'
  <2>1. RowTypes'
    BY <1>21 DEF LeaseLost, ExpireLease, TypeOK, RowTypes, States, Pending, Sources
  <2>2. WorldTypes'
    BY <1>21 DEF TypeOK, LeaseLost, ExpireLease, Fault, Count, WorldTypes
  <2> QED
    BY <1>21, <1>f, <2>1, <2>2 DEF TypeOK, LeaseLost, ExpireLease, money, outbox, task, request, worker
<1>22. ASSUME NEW r \in Requests, RetryDue(r) PROVE TypeOK'
  <2>1. RowTypes'
    BY <1>22 DEF RetryDue, EndBackoff, TypeOK, RowTypes, States, Pending, Sources
  <2>2. WorldTypes'
    BY <1>22 DEF TypeOK, RetryDue, EndBackoff, NoFault, WorldTypes
  <2> QED
    BY <1>22, <1>f, <2>1, <2>2 DEF TypeOK, RetryDue, EndBackoff, money, outbox, task, request, worker
<1>23. ASSUME NEW r \in Requests, RetryOverdue(r) PROVE TypeOK'
  <2>1. RowTypes'
    BY <1>23 DEF RetryOverdue, EndBackoff, TypeOK, RowTypes, States, Pending, Sources
  <2>2. WorldTypes'
    BY <1>23 DEF TypeOK, RetryOverdue, EndBackoff, Fault, Count, WorldTypes
  <2> QED
    BY <1>23, <1>f, <2>1, <2>2 DEF TypeOK, RetryOverdue, EndBackoff, money, outbox, task, request, worker
<1>24. ASSUME NEW w \in Workers, NEW r \in Requests, Pick(w, r) PROVE TypeOK'
  <2>1. [row |-> r, version |-> version[r], attempts |-> attempts[r],
         pend |-> IF state[r] # "applying" THEN state[r]
                  ELSE IF target[r] = "FAILURE" THEN "refund_pending" ELSE "settle_pending"]
          \in Jobs
    BY <1>24 DEF Pick, Due, TypeOK, RowTypes, Jobs, Pending
  <2>2. WorkerTypes'
    BY <1>24, <2>1 DEF Pick, TypeOK, WorkerTypes
  <2>3. WorldTypes'
    BY <1>24 DEF TypeOK, Pick, NoFault, WorldTypes
  <2> QED
    BY <1>24, <1>f, <2>2, <2>3 DEF TypeOK, Pick, row, money, outbox, task, request
<1>25. ASSUME NEW w \in Workers, MarkStale(w) PROVE TypeOK'
  <2>1. RowTypes'
    BY <1>25, RefundIntentType DEF MarkStale, TypeOK, RowTypes
  <2>2. WorldTypes'
    BY <1>25 DEF TypeOK, MarkStale, RefundIntent, NoFault, WorldTypes
  <2> QED
    BY <1>25, <1>f, <2>1, <2>2 DEF TypeOK, MarkStale, RefundIntent, money, outbox, task, request, worker
<1>26. ASSUME NEW w \in Workers, Claim(w) PROVE TypeOK'
  <2>a. job[w].row \in Requests
    BY JobType
  <2>b. version \in [Requests -> Nat]
    BY DEF TypeOK, RowTypes
  <2>0. version[job[w].row] + 1 \in Nat
    BY <2>a, <2>b
  <2>1. RowTypes'
    BY <1>26, <2>0, JobType, StateNames DEF Claim, TypeOK, RowTypes
  <2>2. WorkerTypes'
    BY <1>26, JobType DEF Claim, TypeOK, WorkerTypes, Jobs, Views, RowTypes, Pending
  <2>3. WorldTypes'
    BY <1>26 DEF TypeOK, Claim, NoFault, WorldTypes
  <2> QED
    BY <1>26, <1>f, <2>1, <2>2, <2>3 DEF TypeOK, Claim, money, outbox, task, request
<1>27. ASSUME NEW w \in Workers, ClaimLost(w) PROVE TypeOK'
  <2>1. WorkerTypes'
    BY <1>27, EndPassType DEF ClaimLost
  <2>2. WorldTypes'
    BY <1>27 DEF TypeOK, ClaimLost, EndPass, NoFault, Fault, Count, WorldTypes
  <2> QED
    BY <1>27, <1>f, <2>1, <2>2 DEF TypeOK, ClaimLost, EndPass, row, money, outbox, task, request
<1>28. ASSUME NEW w \in Workers, ApplyRead(w) PROVE TypeOK'
  <2>1. [bound |-> bound[job[w].row], reserved |-> reserved[job[w].row],
         final |-> final[job[w].row], target |-> target[job[w].row]] \in Views
    BY JobType DEF TypeOK, RowTypes, Views
  <2>2. WorkerTypes'
    BY <1>28, <2>1, NoViewType DEF ApplyRead, TypeOK, WorkerTypes
  <2>3. WorldTypes'
    BY <1>28 DEF TypeOK, ApplyRead, NoFault, WorldTypes
  <2> QED
    BY <1>28, <1>f, <2>2, <2>3 DEF TypeOK, ApplyRead, row, money, outbox, task, request
<1>29. ASSUME NEW w \in Workers, ApplyCommit(w) PROVE TypeOK'
  <2>1. RowTypes'
    BY <1>29, ApplyType DEF ApplyCommit
  <2>2. MoneyTypes'
    BY <1>29, ApplyType DEF ApplyCommit
  <2>3. OutboxTypes'
    BY <1>29, ApplyType DEF ApplyCommit
  <2>4. TaskTypes'
    BY <1>29, ApplyType DEF ApplyCommit
  <2>5. WorkerTypes'
    BY <1>29, EndPassType DEF ApplyCommit
  <2>6. WorldTypes'
    BY <1>29 DEF TypeOK, ApplyCommit, Apply, EndPass, NoFault, WorldTypes
  <2> QED
    BY <1>29, <1>f, <2>1, <2>2, <2>3, <2>4, <2>5, <2>6 DEF TypeOK, ApplyCommit, Apply, Move, FinalQuota, EndPass, request
<1>30. ASSUME NEW w \in Workers, ApplyAckLost(w) PROVE TypeOK'
  <2>1. RowTypes'
    BY <1>30, ApplyType DEF ApplyAckLost
  <2>2. MoneyTypes'
    BY <1>30, ApplyType DEF ApplyAckLost
  <2>3. OutboxTypes'
    BY <1>30, ApplyType DEF ApplyAckLost
  <2>4. TaskTypes'
    BY <1>30, ApplyType DEF ApplyAckLost
  <2>5. WorkerTypes'
    BY <1>30, EndPassType DEF ApplyAckLost
  <2>6. WorldTypes'
    BY <1>30 DEF TypeOK, ApplyAckLost, Apply, FailApply, Fault, Count, WorldTypes
  <2> QED
    BY <1>30, <1>f, <2>1, <2>2, <2>3, <2>4, <2>5, <2>6 DEF TypeOK, ApplyAckLost, Apply, Move, FinalQuota, FailApply, request
<1>31. ASSUME NEW w \in Workers, ApplyRollback(w) PROVE TypeOK'
  <2>1. WorkerTypes'
    BY <1>31, EndPassType DEF ApplyRollback
  <2>2. WorldTypes'
    BY <1>31 DEF TypeOK, ApplyRollback, FailApply, NoFault, Fault, Count, WorldTypes
  <2> QED
    BY <1>31, <1>f, <2>1, <2>2 DEF TypeOK, ApplyRollback, FailApply, row, money, outbox, task, request
<1>32. ASSUME NEW w \in Workers, Release(w) PROVE TypeOK'
  <2>1. RowTypes'
    BY <1>32, JobType, StateNames DEF Release, TypeOK, RowTypes
  <2>2. WorkerTypes'
    BY <1>32, EndPassType DEF Release
  <2>3. WorldTypes'
    BY <1>32 DEF TypeOK, Release, EndPass, NoFault, WorldTypes
  <2> QED
    BY <1>32, <1>f, <2>1, <2>2, <2>3 DEF TypeOK, Release, EndPass, money, outbox, task, request
<1>33. ASSUME NEW w \in Workers, ReleaseError(w) \/ WorkerCrash(w) PROVE TypeOK'
  <2>1. WorkerTypes'
    BY <1>33, EndPassType DEF ReleaseError, WorkerCrash
  <2>2. WorldTypes'
    BY <1>33 DEF TypeOK, ReleaseError, WorkerCrash, EndPass, Fault, Count, WorldTypes
  <2> QED
    BY <1>33, <1>f, <2>1, <2>2 DEF TypeOK, ReleaseError, WorkerCrash, EndPass, row, money, outbox, task, request
<1>35. ASSUME NEW r \in Requests, FetchStep(r) PROVE TypeOK'
    BY <1>35, FetchType
<1>36. ASSUME NEW x \in Deletable, Delete(x) PROVE TypeOK'
  <2>1. WorldTypes'
    BY <1>36 DEF Delete, Count, TypeOK, WorldTypes
  <2> QED
    BY <1>36, <1>f, <2>1 DEF Delete, TypeOK
<1>34. CASE UNCHANGED vars
    BY <1>34, <1>f DEF vars, TypeOK, NoFault
<1>37. ASSUME NEW r \in Requests, RequestStep(r) PROVE TypeOK'
    BY <1>1, <1>2, <1>3, <1>4, <1>5, <1>6, <1>7, <1>8, <1>9, <1>10, <1>11, <1>12, <1>13,
       <1>14, <1>15, <1>37 DEF RequestStep
<1>38. ASSUME NEW r \in Requests, TaskStep(r) \/ ClockStep(r) PROVE TypeOK'
    BY <1>16, <1>17, <1>18, <1>19, <1>20, <1>21, <1>22, <1>23, <1>38 DEF TaskStep, ClockStep
<1>39. ASSUME NEW w \in Workers, WorkerStep(w) PROVE TypeOK'
    BY <1>24, <1>25, <1>26, <1>27, <1>28, <1>29, <1>30, <1>31, <1>32, <1>33, <1>39
    DEF WorkerStep
<1> QED
    BY <1>34, <1>35, <1>36, <1>37, <1>38, <1>39, RealtimeAssumption DEF Next

LEMMA TypeInit ==
    ASSUME Init
    PROVE  TypeOK
<1>1. RowTypes
    BY DEF Init, RowTypes, States, Sources
<1>2. MoneyTypes /\ OutboxTypes
  <2>1. 0 \in Nat /\ 0 \in Int
    OBVIOUS
  <2> QED
    BY <2>1 DEF Init, MoneyTypes, OutboxTypes
<1>3. TaskTypes
    BY DEF Init, TaskTypes
<1>4. RequestTypes
    BY DEF Init, RequestTypes
<1>5. WorkerTypes
    BY NoJobType, NoViewType DEF Init, WorkerTypes
<1>6. WorldTypes
    BY NoCopyType DEF Init, WorldTypes
<1> QED
    BY <1>1, <1>2, <1>3, <1>4, <1>5, <1>6 DEF TypeOK

\* Every variable of DurableBilling always has its type: no quota, usage or
\* reservation turns negative, and every state written to a row, a task or a
\* request is one the code knows.
THEOREM TypeCorrect == Spec => []TypeOK
BY TypeInit, TypeStep, PTL DEF Spec

-----------------------------------------------------------------------------
(***************************************************************************)
(* The ledger.  A step of request r, of its task, or of a worker on row r  *)
(* leaves every other row as it was (Same), and changes nothing that a     *)
(* queued outcome is computed from (SameOutcome), so the workers' views    *)
(* stay current.                                                           *)
(***************************************************************************)
USE DEF Polled

RequestInv(q) == RowInv(q) /\ TaskInv(q) /\ QueueInv(q) /\ MoneyInv(q)

Same(q) ==
    /\ state'[q] = state[q] /\ bound'[q] = bound[q]
    /\ reserved'[q] = reserved[q] /\ final'[q] = final[q] /\ target'[q] = target[q]
    /\ charged'[q] = charged[q] /\ tokenCharged'[q] = tokenCharged[q] /\ usage'[q] = usage[q]
    /\ taskStatus'[q] = taskStatus[q] /\ taskQuota'[q] = taskQuota[q]
    /\ taskBilling'[q] = taskBilling[q]
    /\ req'[q] = req[q] /\ session'[q] = session[q]
    /\ q \in aged' <=> q \in aged
    /\ q \in cacheEvent' <=> q \in cacheEvent
    /\ q \in logEvent' <=> q \in logEvent

SameOutcome(q) ==
    Queued(q) => /\ Queued(q)'
                 /\ bound'[q] = bound[q] /\ reserved'[q] = reserved[q]
                 /\ final'[q] = final[q] /\ target'[q] = target[q]

\* An applied row is final.
FinalStep(q) ==
    /\ state[q] \in Done => state'[q] = state[q]
    /\ q \in cacheEvent => charged'[q] = charged[q] /\ usage'[q] = usage[q]

\* What every step is shown to do.
Keeps == IndInv' /\ \A q \in Polled : FinalStep(q)

LEMMA SameKeeps ==
    ASSUME NEW q \in Polled, RequestInv(q), Same(q)
    PROVE  RequestInv(q)' /\ SameOutcome(q) /\ FinalStep(q)
<1>1. RowInv(q)'
    BY DEF RequestInv, Same, RowInv, Queued, RequestLive
<1>2. TaskInv(q)'
    BY DEF RequestInv, Same, TaskInv, Queued, PendOf
<1>3. QueueInv(q)'
    BY DEF RequestInv, Same, QueueInv, Queued, PendOf
<1>4. MoneyInv(q)'
    BY DEF RequestInv, Same, MoneyInv, Owed
<1>5. SameOutcome(q) /\ FinalStep(q)
    BY DEF Same, SameOutcome, Queued, FinalStep, Done
<1> QED
    BY <1>1, <1>2, <1>3, <1>4, <1>5 DEF RequestInv

\* A worker's invariant survives steps of others.
LEMMA OtherWorker ==
    ASSUME IndInv, NEW v \in Workers, \A q \in Polled : SameOutcome(q),
           wpc'[v] = wpc[v], job'[v] = job[v], view'[v] = view[v]
    PROVE  WorkerInv(v)'
<1>1. TypeOK /\ WorkerInv(v)
    BY DEF IndInv
<1>2. job[v].row \in Polled => SameOutcome(job[v].row)
    OBVIOUS
<1> QED
    BY <1>1, <1>2 DEF WorkerInv, SameOutcome, Queued, PendOf

\* Steps of a request, its task or the clock.
LEMMA RowStepKeeps ==
    ASSUME IndInv, TypeOK', NEW r \in Polled, UNCHANGED worker,
           \A q \in Polled \ {r} : Same(q),
           RequestInv(r)', SameOutcome(r), FinalStep(r)
    PROVE  Keeps
<1>1. \A q \in Polled : RequestInv(q)' /\ SameOutcome(q) /\ FinalStep(q)
    BY SameKeeps DEF IndInv, RequestInv
<1>2. \A v \in Workers : WorkerInv(v)'
    BY <1>1, OtherWorker DEF worker
<1> QED
    BY <1>1, <1>2 DEF IndInv, RequestInv, Keeps

\* Steps of a worker on the row of its job.
LEMMA WorkerStepKeeps ==
    ASSUME IndInv, TypeOK', NEW w \in Workers, NEW r \in Polled,
           \A v \in Workers \ {w} : wpc'[v] = wpc[v] /\ job'[v] = job[v] /\ view'[v] = view[v],
           \A q \in Polled \ {r} : Same(q),
           RequestInv(r)', SameOutcome(r), FinalStep(r), WorkerInv(w)'
    PROVE  Keeps
<1>1. \A q \in Polled : RequestInv(q)' /\ SameOutcome(q) /\ FinalStep(q)
    BY SameKeeps DEF IndInv, RequestInv
<1>2. \A v \in Workers : WorkerInv(v)'
    BY <1>1, OtherWorker
<1> QED
    BY <1>1, <1>2 DEF IndInv, RequestInv, Keeps

\* A worker whose pass or transaction is over knows nothing it must keep right.
LEMMA EndPassKeeps ==
    ASSUME IndInv, NEW w \in Workers, EndPass(w)
    PROVE  /\ WorkerInv(w)'
           /\ \A v \in Workers \ {w} : wpc'[v] = wpc[v] /\ job'[v] = job[v] /\ view'[v] = view[v]
BY DEF IndInv, TypeOK, WorkerTypes, EndPass, WorkerInv

LEMMA FailApplyKeeps ==
    ASSUME IndInv, NEW w \in Workers, wpc[w] # "idle", FailApply(w),
           job[w].row \in Polled => SameOutcome(job[w].row)
    PROVE  /\ WorkerInv(w)'
           /\ \A v \in Workers \ {w} : wpc'[v] = wpc[v] /\ job'[v] = job[v] /\ view'[v] = view[v]
<1>1. wpc'[w] = "failed" /\ job'[w] = job[w]
    BY DEF IndInv, TypeOK, WorkerTypes, FailApply
<1>2. WorkerInv(w)'
    BY <1>1 DEF IndInv, WorkerInv, SameOutcome, Queued, PendOf
<1> QED
    BY <1>2 DEF IndInv, TypeOK, WorkerTypes, FailApply

\* A step that changes nothing the invariant speaks of.
LEMMA AllSameKeeps ==
    ASSUME IndInv, TypeOK', UNCHANGED worker, \A q \in Polled : Same(q)
    PROVE  Keeps
<1>1. \A q \in Polled : RequestInv(q)' /\ SameOutcome(q) /\ FinalStep(q)
    BY SameKeeps DEF IndInv, RequestInv
<1>2. \A v \in Workers : WorkerInv(v)'
    BY <1>1, OtherWorker DEF worker
<1> QED
    BY <1>1, <1>2 DEF IndInv, RequestInv, Keeps

\* Steps of the request that only move its program counter.
QuietRequest(r) ==
    \/ ReserveRefused(r) \/ UpstreamAccepts(r) \/ UpstreamFails(r) \/ HoldRead(r)
    \/ HoldRollback(r) \/ BindRollback(r) \/ RefundError(r) \/ RequestCrash(r)

LEMMA QuietRequestKeeps ==
    ASSUME IndInv, TypeOK', NEW r \in Polled, QuietRequest(r)
    PROVE  Keeps
<1>1. UNCHANGED <<row, money, outbox, task, session, worker>>
    BY DEF QuietRequest, ReserveRefused, UpstreamAccepts, UpstreamFails, HoldRead,
           HoldRollback, BindRollback, RefundError, RequestCrash
<1>2. PICK x : req' = [req EXCEPT ![r] = x]
    BY DEF QuietRequest, ReserveRefused, UpstreamAccepts, UpstreamFails, HoldRead,
           HoldRollback, BindRollback, RefundError, RequestCrash
<1>3. \A q \in Polled \ {r} : Same(q)
    BY <1>1, <1>2 DEF Same, IndInv, TypeOK, RequestTypes, row, money, outbox, task
<1>4. RowInv(r)'
  <2>1. RowInv(r) /\ req \in [Requests -> {"idle", "upstream", "accepted", "holding", "held",
                                           "refunding", "done", "dead"}]
    BY DEF IndInv, TypeOK, RequestTypes
  <2>2. CASE ReserveRefused(r)
    BY <1>1, <2>1, <2>2 DEF ReserveRefused, RowInv, Queued, RequestLive, row, outbox
  <2>3. CASE UpstreamAccepts(r)
    BY <1>1, <2>1, <2>3 DEF UpstreamAccepts, RowInv, Queued, RequestLive, row, outbox
  <2>4. CASE UpstreamFails(r)
    BY <1>1, <2>1, <2>4 DEF UpstreamFails, RowInv, Queued, RequestLive, row, outbox
  <2>5. CASE HoldRead(r)
    BY <1>1, <2>1, <2>5 DEF HoldRead, RowInv, Queued, RequestLive, row, outbox
  <2>6. CASE HoldRollback(r)
    BY <1>1, <2>1, <2>6 DEF HoldRollback, RowInv, Queued, RequestLive, row, outbox
  <2>7. CASE BindRollback(r)
    BY <1>1, <2>1, <2>7 DEF BindRollback, RowInv, Queued, RequestLive, row, outbox
  <2>8. CASE RefundError(r)
    BY <1>1, <2>1, <2>8 DEF RefundError, RowInv, Queued, RequestLive, row, outbox
  <2>9. CASE RequestCrash(r)
    BY <1>1, <2>1, <2>9 DEF RequestCrash, RowInv, Queued, RequestLive, row, outbox
  <2> QED
    BY <2>2, <2>3, <2>4, <2>5, <2>6, <2>7, <2>8, <2>9 DEF QuietRequest
<1>5. TaskInv(r)' /\ QueueInv(r)'
    BY <1>1 DEF IndInv, TaskInv, QueueInv, Queued, PendOf, row, money, outbox, task
<1>6. MoneyInv(r)' /\ SameOutcome(r) /\ FinalStep(r)
    BY <1>1 DEF IndInv, MoneyInv, Owed, SameOutcome, Queued, row, money, outbox, FinalStep, Done
<1> QED
    BY <1>1, <1>3, <1>4, <1>5, <1>6, RowStepKeeps DEF RequestInv

LEMMA MoveFacts ==
    ASSUME TypeOK, NEW r \in Requests, NEW d \in Int, Move(r, d)
    PROVE  /\ charged'[r] = charged[r] + d
           /\ tokenCharged'[r] = IF r \in Playground THEN tokenCharged[r] ELSE tokenCharged[r] + d
           /\ \A q \in Requests \ {r} : charged'[q] = charged[q] /\ tokenCharged'[q] = tokenCharged[q]
<1>1. charged \in [Requests -> Int] /\ tokenCharged \in [Requests -> Int]
    BY DEF TypeOK, MoneyTypes
<1> QED
    BY <1>1 DEF Move

\* A reservation, acknowledged or not.
LEMMA CreateRowKeeps ==
    ASSUME IndInv, TypeOK', NEW r \in Polled, NEW q \in Quotas, NEW s \in Sources,
           req[r] = "idle", CreateRow(r, q, s),
           NEW x \in {"upstream", "done"}, req' = [req EXCEPT ![r] = x],
           session' = IF x = "upstream" THEN [session EXCEPT ![r] = q] ELSE session
    PROVE  Keeps
<1>1. /\ TypeOK /\ RowInv(r) /\ TaskInv(r) /\ QueueInv(r) /\ MoneyInv(r)
      /\ q \in Nat /\ q \in Int
    BY QuotasAssumption DEF IndInv
<1>2. /\ charged'[r] = charged[r] + q
      /\ tokenCharged'[r] = IF r \in Playground THEN tokenCharged[r] ELSE tokenCharged[r] + q
      /\ \A p \in Polled \ {r} : charged'[p] = charged[p] /\ tokenCharged'[p] = tokenCharged[p]
  <2>1. Move(r, q)
    BY DEF CreateRow
  <2> QED
    BY <1>1, <2>1, MoveFacts
<1>3. /\ state'[r] = "reserved" /\ reserved'[r] = q /\ final'[r] = q
      /\ \A p \in Polled \ {r} : /\ state'[p] = state[p] /\ reserved'[p] = reserved[p]
                                 /\ final'[p] = final[p]
    BY <1>1 DEF TypeOK, RowTypes, CreateRow
<1>4. /\ req'[r] = x /\ (x = "upstream" => session'[r] = q)
      /\ \A p \in Polled \ {r} : req'[p] = req[p] /\ session'[p] = session[p]
    BY <1>1 DEF TypeOK, RequestTypes
<1>5. UNCHANGED <<bound, target, aged, usage, outbox, task, worker>>
    BY DEF CreateRow
<1>6. UNCHANGED <<cacheEvent, logEvent, taskStatus, taskQuota, taskBilling>>
    BY <1>5 DEF outbox, task
<1>7. \A p \in Polled \ {r} : Same(p)
    BY <1>2, <1>3, <1>4, <1>5, <1>6 DEF Same
<1>8. /\ state[r] = "none" /\ ~bound[r] /\ r \notin aged /\ r \notin cacheEvent /\ target[r] = ""
      /\ taskStatus[r] = "none" /\ taskBilling[r] = "" /\ reserved[r] = 0
    BY <1>1 DEF RowInv, TaskInv, Queued
<1>9. RowInv(r)'
    BY <1>3, <1>4, <1>5, <1>6, <1>8 DEF RowInv, Queued, RequestLive
<1>10. TaskInv(r)' /\ QueueInv(r)' /\ SameOutcome(r) /\ FinalStep(r)
    BY <1>3, <1>5, <1>6, <1>8 DEF TaskInv, QueueInv, SameOutcome, Queued, FinalStep, Done
<1>11. /\ charged[r] = 0 /\ tokenCharged[r] = 0
       /\ r \notin logEvent /\ usage[r] = 0
    BY <1>1, <1>8 DEF MoneyInv, Owed
<1>12. charged'[r] = q /\ tokenCharged'[r] = IF r \in Playground THEN 0 ELSE q
    BY <1>1, <1>2, <1>11
<1>13. MoneyInv(r)'
    BY <1>3, <1>5, <1>6, <1>8, <1>11, <1>12 DEF MoneyInv, Owed
<1> QED
    BY <1>5, <1>7, <1>9, <1>10, <1>13, RowStepKeeps DEF RequestInv

\* A changed reservation, acknowledged or not.
LEMMA AdjustReservationKeeps ==
    ASSUME IndInv, TypeOK', NEW r \in Polled, req[r] = "holding", AdjustReservation(r),
           session' = [session EXCEPT ![r] = want[r]] \/ session' = session
    PROVE  Keeps
<1> DEFINE d == want[r] - session[r]
<1>1. /\ TypeOK /\ RowInv(r) /\ TaskInv(r) /\ QueueInv(r) /\ MoneyInv(r)
      /\ want[r] \in Nat /\ session[r] \in Nat /\ reserved[r] \in Nat
    BY DEF IndInv, TypeOK, RequestTypes, RowTypes
<1>0. d \in Int
    BY <1>1
<1>2. /\ charged'[r] = charged[r] + d
      /\ tokenCharged'[r] = IF r \in Playground THEN tokenCharged[r] ELSE tokenCharged[r] + d
      /\ \A p \in Polled \ {r} : charged'[p] = charged[p] /\ tokenCharged'[p] = tokenCharged[p]
  <2>1. Move(r, d)
    BY DEF AdjustReservation
  <2> QED
    BY <1>0, <1>1, <2>1, MoveFacts
<1>3. /\ reserved'[r] = want[r] /\ final'[r] = want[r] /\ r \notin aged'
      /\ \A p \in Polled \ {r} : /\ reserved'[p] = reserved[p] /\ final'[p] = final[p]
                                 /\ p \in aged' <=> p \in aged
    BY <1>1 DEF TypeOK, RowTypes, AdjustReservation
<1>4. /\ req'[r] = "held"
      /\ \A p \in Polled \ {r} : req'[p] = req[p] /\ session'[p] = session[p]
    BY <1>1 DEF TypeOK, RequestTypes, AdjustReservation
<1>5. UNCHANGED <<state, bound, target, usage, outbox, task, worker>>
    BY DEF AdjustReservation
<1>6. UNCHANGED <<cacheEvent, logEvent, taskStatus, taskQuota, taskBilling>>
    BY <1>5 DEF outbox, task
<1>7. \A p \in Polled \ {r} : Same(p)
  <2> HIDE DEF Polled, d
  <2>1. ASSUME NEW p \in Polled \ {r} PROVE Same(p)
    <3>1. charged'[p] = charged[p] /\ tokenCharged'[p] = tokenCharged[p]
      BY <1>2, <2>1
    <3>2. /\ reserved'[p] = reserved[p] /\ final'[p] = final[p]
          /\ p \in aged' <=> p \in aged
      BY <1>3, <2>1
    <3>3. req'[p] = req[p] /\ session'[p] = session[p]
      BY <1>4, <2>1
    <3> QED
      BY <1>5, <1>6, <3>1, <3>2, <3>3 DEF Same
  <2> QED
    BY <2>1
<1>8. /\ state[r] = "reserved" /\ ~bound[r] /\ r \notin cacheEvent /\ session[r] = reserved[r]
    BY <1>1 DEF RowInv, Queued
<1>9. RowInv(r)'
    BY <1>1, <1>3, <1>4, <1>5, <1>6, <1>8 DEF RowInv, Queued, RequestLive
<1>10. TaskInv(r)' /\ QueueInv(r)' /\ SameOutcome(r) /\ FinalStep(r)
    BY <1>1, <1>5, <1>6, <1>8 DEF TaskInv, QueueInv, SameOutcome, Queued, FinalStep, Done
<1>11. /\ charged[r] = reserved[r]
       /\ tokenCharged[r] = IF r \in Playground THEN 0 ELSE reserved[r]
       /\ r \notin logEvent /\ usage[r] = 0
    BY <1>1, <1>8 DEF MoneyInv, Owed
<1>12. charged'[r] = want[r] /\ tokenCharged'[r] = IF r \in Playground THEN 0 ELSE want[r]
    BY <1>1, <1>2, <1>8, <1>11
<1>13. MoneyInv(r)'
    BY <1>3, <1>5, <1>6, <1>8, <1>11, <1>12 DEF MoneyInv, Owed
<1> QED
    BY <1>5, <1>7, <1>9, <1>10, <1>13, RowStepKeeps DEF RequestInv

\* A task inserted and bound, acknowledged or not.
LEMMA BindTaskKeeps ==
    ASSUME IndInv, TypeOK', NEW r \in Polled, req[r] = "held", BindTask(r),
           NEW x \in {"done", "refunding"}, req' = [req EXCEPT ![r] = x]
    PROVE  Keeps
<1>1. TypeOK /\ RowInv(r) /\ TaskInv(r) /\ QueueInv(r) /\ MoneyInv(r)
    BY DEF IndInv
<1>2. /\ bound'[r] = TRUE /\ r \notin aged'
      /\ \A p \in Polled \ {r} : bound'[p] = bound[p] /\ (p \in aged' <=> p \in aged)
    BY <1>1 DEF TypeOK, RowTypes, BindTask
<1>3. /\ taskStatus'[r] = "LIVE"
      /\ \A p \in Polled \ {r} : taskStatus'[p] = taskStatus[p] /\ taskQuota'[p] = taskQuota[p]
    BY <1>1 DEF TypeOK, TaskTypes, BindTask
<1>4. req'[r] = x /\ \A p \in Polled \ {r} : req'[p] = req[p]
    BY <1>1 DEF TypeOK, RequestTypes
<1>5. UNCHANGED <<state, reserved, final, target, money, outbox, taskBilling, session, worker>>
    BY DEF BindTask
<1>6. UNCHANGED <<charged, tokenCharged, usage, cacheEvent, logEvent>>
    BY <1>5 DEF money, outbox
<1>7. \A p \in Polled \ {r} : Same(p)
    BY <1>2, <1>3, <1>4, <1>5, <1>6 DEF Same
<1>8. state[r] = "reserved" /\ r \notin cacheEvent /\ taskBilling[r] = ""
    BY <1>1 DEF RowInv, TaskInv, Queued
<1>9. RowInv(r)'
    BY <1>1, <1>2, <1>4, <1>5, <1>6, <1>8 DEF RowInv, Queued, RequestLive
<1>10. TaskInv(r)' /\ QueueInv(r)' /\ SameOutcome(r) /\ FinalStep(r)
    BY <1>1, <1>2, <1>3, <1>5, <1>6, <1>8 DEF TaskInv, QueueInv, SameOutcome, Queued, FinalStep, Done
<1>11. MoneyInv(r)'
    BY <1>1, <1>5, <1>6 DEF MoneyInv, Owed
<1> QED
    BY <1>5, <1>7, <1>9, <1>10, <1>11, RowStepKeeps DEF RequestInv

\* What a refund intent does to the rows it hits and to the others.
LEMMA RefundIntentFacts ==
    ASSUME TypeOK, NEW R, RefundIntent(R)
    PROVE  /\ \A p \in Requests \ R :
                /\ state'[p] = state[p] /\ target'[p] = target[p] /\ final'[p] = final[p]
                /\ p \in aged' <=> p \in aged
           /\ \A p \in Requests \cap R :
                /\ state'[p] = "refund_pending" /\ target'[p] = "FAILURE" /\ final'[p] = 0
                /\ p \notin aged'
BY DEF RefundIntent

\* An unbound reservation that is refunded, by its request or as stale.
LEMMA RefundedRow ==
    ASSUME TypeOK, NEW r \in Polled, RequestInv(r), state[r] = "reserved", ~bound[r],
           state'[r] = "refund_pending", target'[r] = "FAILURE", final'[r] = 0, r \notin aged',
           UNCHANGED <<bound, reserved, money, outbox, task, session>>,
           req'[r] = req[r] \/ req'[r] = "done",
           req[r] \notin {"upstream", "accepted", "holding", "held"}
    PROVE  RequestInv(r)' /\ SameOutcome(r) /\ FinalStep(r)
<1>1. RowInv(r) /\ TaskInv(r) /\ MoneyInv(r)
    BY DEF RequestInv
<1>2. UNCHANGED <<charged, tokenCharged, usage, cacheEvent, logEvent, taskStatus, taskQuota, taskBilling>>
    BY DEF money, outbox, task
<1>3. r \notin cacheEvent
    BY <1>1 DEF RowInv, Queued
<1>4. RowInv(r)'
    BY <1>1, <1>2 DEF RowInv, Queued, RequestLive
<1>5. TaskInv(r)'
    BY <1>1, <1>2 DEF TaskInv, Queued
<1>6. QueueInv(r)' /\ SameOutcome(r) /\ FinalStep(r)
    BY <1>2 DEF QueueInv, Queued, PendOf, SameOutcome, Pending, Done, FinalStep
<1>7. MoneyInv(r)'
    BY <1>1, <1>2, <1>3 DEF MoneyInv, Owed
<1> QED
    BY <1>4, <1>5, <1>6, <1>7 DEF RequestInv

LEMMA RefundKeeps ==
    ASSUME IndInv, TypeOK', NEW r \in Polled, Refund(r)
    PROVE  Keeps
<1> DEFINE R == IF ~bound[r] /\ state[r] = "reserved" THEN {r} ELSE {}
<1>1. TypeOK /\ RequestInv(r) /\ RefundIntent(R) /\ req[r] = "refunding"
    BY DEF IndInv, RequestInv, Refund
<1>2. req'[r] = "done" /\ \A p \in Polled \ {r} : req'[p] = req[p]
    BY <1>1 DEF TypeOK, RequestTypes, Refund
<1>3. UNCHANGED <<bound, reserved, money, outbox, task, session, worker>>
    BY DEF Refund
<1>4. UNCHANGED <<charged, tokenCharged, usage, cacheEvent, logEvent, taskStatus, taskQuota, taskBilling>>
    BY <1>3 DEF money, outbox, task
<1>5. \A p \in Polled \ R :
        /\ state'[p] = state[p] /\ target'[p] = target[p] /\ final'[p] = final[p]
        /\ p \in aged' <=> p \in aged
    BY <1>1, RefundIntentFacts
<1>6. \A p \in Polled \ {r} : Same(p)
    BY <1>2, <1>3, <1>4, <1>5 DEF Same
<1>7. RequestInv(r)' /\ SameOutcome(r) /\ FinalStep(r)
  <2>1. CASE r \in R
    <3>1. state'[r] = "refund_pending" /\ target'[r] = "FAILURE" /\ final'[r] = 0 /\ r \notin aged'
      BY <1>1, <2>1, RefundIntentFacts
    <3>2. state[r] = "reserved" /\ ~bound[r]
      BY <2>1
    <3> QED
      BY <1>1, <1>2, <1>3, <3>1, <3>2, RefundedRow
  <2>2. CASE r \notin R
    <3>1. RowInv(r)'
      BY <1>1, <1>2, <1>3, <1>4, <1>5, <2>2 DEF RequestInv, RowInv, Queued, RequestLive
    <3>2. TaskInv(r)' /\ QueueInv(r)' /\ SameOutcome(r) /\ FinalStep(r)
      BY <1>1, <1>3, <1>4, <1>5, <2>2 DEF RequestInv, TaskInv, QueueInv, Queued, PendOf, SameOutcome, FinalStep, Done
    <3>3. MoneyInv(r)'
      BY <1>1, <1>3, <1>4, <1>5, <2>2 DEF RequestInv, MoneyInv, Owed
    <3> QED
      BY <3>1, <3>2, <3>3 DEF RequestInv
  <2> QED
    BY <2>1, <2>2
<1> QED
    BY <1>3, <1>6, <1>7, RowStepKeeps

\* A terminal task queues its outcome.
LEMMA TaskIntentKeeps ==
    ASSUME IndInv, TypeOK', NEW r \in Polled, NEW status \in {"SUCCESS", "FAILURE"},
           NEW fin \in Nat, status = "FAILURE" => fin = 0, TaskIntent(r, "LIVE", status, fin),
           UNCHANGED <<money, taskQuota>>
    PROVE  Keeps
<1> DEFINE pend == IF status = "FAILURE" THEN "refund_pending" ELSE "settle_pending"
<1>1. /\ TypeOK /\ RowInv(r) /\ TaskInv(r) /\ MoneyInv(r)
      /\ taskStatus[r] = "LIVE" /\ bound[r]
    BY DEF IndInv, TaskIntent
<1>2. state[r] = "reserved" /\ r \notin cacheEvent /\ ~(state[r] = "settled" /\ pend = "settle_pending")
    BY <1>1 DEF TaskInv, RowInv, Queued
<1>3. /\ taskStatus' = [taskStatus EXCEPT ![r] = status]
      /\ taskBilling' = [taskBilling EXCEPT ![r] = pend]
      /\ state' = [state EXCEPT ![r] = pend]
      /\ final' = [final EXCEPT ![r] = fin]
      /\ target' = [target EXCEPT ![r] = status]
    BY <1>2 DEF TaskIntent
<1>4. /\ taskStatus'[r] = status /\ taskBilling'[r] = pend /\ state'[r] = pend
      /\ final'[r] = fin /\ target'[r] = status
      /\ \A p \in Polled \ {r} :
            /\ taskStatus'[p] = taskStatus[p] /\ taskBilling'[p] = taskBilling[p]
            /\ state'[p] = state[p] /\ final'[p] = final[p] /\ target'[p] = target[p]
  <2>1. /\ DOMAIN taskStatus = Requests /\ DOMAIN taskBilling = Requests
        /\ DOMAIN state = Requests /\ DOMAIN final = Requests /\ DOMAIN target = Requests
    BY <1>1 DEF TypeOK, TaskTypes, RowTypes
  <2> HIDE DEF pend
  <2> QED
    BY <1>3, <2>1
<1>5. UNCHANGED <<bound, reserved, aged, money, outbox, taskQuota, request, worker>>
    BY DEF TaskIntent
<1>6. UNCHANGED <<charged, tokenCharged, usage, cacheEvent, logEvent, req, session>>
    BY <1>5 DEF money, outbox, request
<1>7. \A p \in Polled \ {r} : Same(p)
    BY <1>4, <1>5, <1>6 DEF Same
<1>8. RowInv(r)'
    BY <1>1, <1>2, <1>4, <1>5, <1>6 DEF RowInv, Queued, RequestLive
<1>9. TaskInv(r)'
    BY <1>1, <1>2, <1>4, <1>5, <1>6 DEF TaskInv, Queued, PendOf
<1>10. QueueInv(r)' /\ SameOutcome(r) /\ FinalStep(r)
    BY <1>1, <1>2, <1>4, <1>5, <1>6 DEF QueueInv, SameOutcome, Queued, PendOf, Done, FinalStep
<1>11. MoneyInv(r)'
    BY <1>1, <1>2, <1>4, <1>5, <1>6 DEF MoneyInv, Owed
<1> QED
    BY <1>5, <1>7, <1>8, <1>9, <1>10, <1>11, RowStepKeeps DEF RequestInv

\* Leases and back-offs are not part of the argument: an expired lease only
\* lets another worker in.
LEMMA ClockKeeps ==
    ASSUME IndInv, TypeOK', NEW r \in Requests,
           LeaseTimeout(r) \/ LeaseLost(r) \/ RetryDue(r) \/ RetryOverdue(r)
    PROVE  Keeps
<1>1. /\ UNCHANGED <<state, bound, reserved, final, target, aged>>
      /\ UNCHANGED <<money, outbox, task, request, worker>>
    BY DEF LeaseTimeout, LeaseLost, RetryDue, RetryOverdue, ExpireLease, EndBackoff
<1>2. \A q \in Polled : Same(q)
    BY <1>1 DEF Same, money, outbox, task, request
<1> QED
    BY <1>1, <1>2, AllSameKeeps

\* Without slow requests, only the row of a request that is gone turns old.
LEMMA AgeKeeps ==
    ASSUME IndInv, TypeOK', NEW r \in Polled, Age(r), Survivable
    PROVE  Keeps
<1>1. TypeOK /\ RowInv(r) /\ TaskInv(r) /\ QueueInv(r) /\ MoneyInv(r)
    BY DEF IndInv
<1>2. /\ state[r] = "reserved" /\ ~RequestLive(r)
      /\ \A p \in Polled \ {r} : p \in aged' <=> p \in aged
    BY DEF Age, Survivable
<1>3. UNCHANGED <<state, bound, reserved, final, target, money, outbox, task, request, worker>>
    BY DEF Age
<1>4. UNCHANGED <<charged, tokenCharged, usage, cacheEvent, logEvent, taskStatus, taskQuota,
                  taskBilling, req, session>>
    BY <1>3 DEF money, outbox, task, request
<1>5. \A p \in Polled \ {r} : Same(p)
    BY <1>2, <1>3, <1>4 DEF Same
<1>6. RowInv(r)'
    BY <1>1, <1>2, <1>3, <1>4 DEF RowInv, Queued, RequestLive
<1>7. TaskInv(r)' /\ QueueInv(r)' /\ SameOutcome(r) /\ FinalStep(r)
    BY <1>1, <1>3, <1>4 DEF TaskInv, QueueInv, SameOutcome, Queued, PendOf, FinalStep, Done
<1>8. MoneyInv(r)'
    BY <1>1, <1>3, <1>4 DEF MoneyInv, Owed
<1> QED
    BY <1>3, <1>5, <1>6, <1>7, <1>8, RowStepKeeps DEF RequestInv

\* Stale reservations are refunded together.
LEMMA MarkStaleKeeps ==
    ASSUME IndInv, TypeOK', NEW w \in Workers, MarkStale(w)
    PROVE  Keeps
<1> DEFINE R == {r \in aged : ~bound[r] /\ state[r] = "reserved"}
<1>1. TypeOK /\ RefundIntent(R)
    BY DEF IndInv, MarkStale
<1>2. UNCHANGED <<bound, reserved, money, outbox, task, request, worker>>
    BY DEF MarkStale
<1>3. UNCHANGED <<charged, tokenCharged, usage, cacheEvent, logEvent, taskStatus, taskQuota,
                  taskBilling, req, session>>
    BY <1>2 DEF money, outbox, task, request
<1>4. \A q \in Polled : RequestInv(q)' /\ SameOutcome(q) /\ FinalStep(q)
  <2>1. SUFFICES ASSUME NEW q \in Polled
                 PROVE  RequestInv(q)' /\ SameOutcome(q) /\ FinalStep(q)
    OBVIOUS
  <2>2. RequestInv(q)
    BY DEF IndInv, RequestInv
  <2>3. CASE q \in R
    <3>1. /\ state'[q] = "refund_pending" /\ target'[q] = "FAILURE" /\ final'[q] = 0
          /\ q \notin aged'
      BY <1>1, <2>3, RefundIntentFacts
    <3>2. /\ state[q] = "reserved" /\ ~bound[q]
          /\ req[q] \notin {"upstream", "accepted", "holding", "held"}
      BY <2>2, <2>3 DEF RequestInv, RowInv, RequestLive
    <3> QED
      BY <1>1, <1>2, <1>3, <2>2, <3>1, <3>2, RefundedRow
  <2>4. CASE q \notin R
    <3>1. Same(q)
      BY <1>1, <1>2, <1>3, <2>4, RefundIntentFacts DEF Same
    <3> QED
      BY <2>2, <3>1, SameKeeps
  <2> QED
    BY <2>3, <2>4
<1>5. \A v \in Workers : WorkerInv(v)'
    BY <1>2, <1>4, OtherWorker DEF worker
<1> QED
    BY <1>4, <1>5 DEF IndInv, RequestInv, Keeps

\* Steps of a worker that leave every row as it was.
LEMMA QuietWorkerKeeps ==
    ASSUME IndInv, TypeOK', NEW w \in Workers,
           \A v \in Workers \ {w} : wpc'[v] = wpc[v] /\ job'[v] = job[v] /\ view'[v] = view[v],
           \A q \in Polled : Same(q), WorkerInv(w)'
    PROVE  Keeps
<1>1. \A q \in Polled : RequestInv(q)' /\ SameOutcome(q) /\ FinalStep(q)
    BY SameKeeps DEF IndInv, RequestInv
<1>2. \A v \in Workers : WorkerInv(v)'
    BY <1>1, OtherWorker
<1> QED
    BY <1>1, <1>2 DEF IndInv, RequestInv, Keeps

LEMMA FrameSame ==
    ASSUME UNCHANGED <<row, money, outbox, task, request>>
    PROVE  \A q \in Polled : Same(q)
BY DEF Same, row, money, outbox, task, request

LEMMA PickKeeps ==
    ASSUME IndInv, TypeOK', NEW w \in Workers, NEW r \in Polled, Pick(w, r)
    PROVE  Keeps
<1>1. TypeOK /\ RowInv(r) /\ QueueInv(r) /\ state[r] \in States
    BY DEF IndInv, TypeOK, RowTypes
<1>2. UNCHANGED <<row, money, outbox, task, request, view>>
    BY DEF Pick
<1>3. \A q \in Polled : Same(q)
    BY <1>2, FrameSame
<1>4. Queued(r)
    BY DEF Pick, Due, Queued, Pending
<1>5. /\ wpc'[w] = "picked" /\ job'[w].row = r
      /\ job'[w].pend = IF state[r] # "applying" THEN state[r]
                        ELSE IF target[r] = "FAILURE" THEN "refund_pending" ELSE "settle_pending"
      /\ \A v \in Workers \ {w} : wpc'[v] = wpc[v] /\ job'[v] = job[v] /\ view'[v] = view[v]
    BY <1>1, <1>2 DEF TypeOK, WorkerTypes, Pick
<1>6. job'[w].pend = PendOf(r)
    BY <1>1, <1>4, <1>5 DEF Pick, Due, QueueInv, PendOf, Pending
<1>7. state' = state /\ target' = target
    BY <1>2 DEF row
<1>8. WorkerInv(w)'
    BY <1>4, <1>5, <1>6, <1>7 DEF WorkerInv, Queued, PendOf
<1> QED
    BY <1>3, <1>5, <1>8, QuietWorkerKeeps

LEMMA ClaimKeeps ==
    ASSUME IndInv, TypeOK', NEW w \in Workers, Claim(w), job[w].row \in Polled
    PROVE  Keeps
<1>0. PICK r \in Polled : job[w].row = r
    OBVIOUS
<1>1. TypeOK /\ WorkerInv(w) /\ Queued(r)
    BY <1>0 DEF IndInv, WorkerInv, Claim
<1>2. RowInv(r) /\ TaskInv(r) /\ QueueInv(r) /\ MoneyInv(r)
    BY <1>1 DEF IndInv
<1>3. state'[r] = "applying" /\ \A p \in Polled \ {r} : state'[p] = state[p]
    BY <1>0, <1>1 DEF TypeOK, RowTypes, Claim
<1>4. /\ wpc'[w] = "claimed" /\ job'[w] = job[w]
      /\ \A v \in Workers \ {w} : wpc'[v] = wpc[v] /\ job'[v] = job[v] /\ view'[v] = view[v]
    BY <1>1 DEF TypeOK, WorkerTypes, Claim
<1>5. UNCHANGED <<bound, reserved, final, target, aged, money, outbox, task, request>>
    BY DEF Claim
<1>6. UNCHANGED <<charged, tokenCharged, usage, cacheEvent, logEvent, taskStatus, taskQuota,
                  taskBilling, req, session>>
    BY <1>5 DEF money, outbox, task, request
<1>7. \A p \in Polled \ {r} : Same(p)
    BY <1>3, <1>5, <1>6 DEF Same
<1>8. RowInv(r)' /\ SameOutcome(r) /\ FinalStep(r)
  <2>1. state[r] \notin Done
    BY <1>0 DEF Claim, CanClaim, Due, Pending, Done
  <2> QED
    BY <1>1, <1>2, <1>3, <1>5, <1>6, <2>1 DEF RowInv, SameOutcome, Queued, RequestLive, FinalStep
<1>9. TaskInv(r)' /\ QueueInv(r)'
    BY <1>1, <1>2, <1>3, <1>5, <1>6 DEF TaskInv, QueueInv, Queued, PendOf, Pending, Done
<1>10. MoneyInv(r)'
    BY <1>2, <1>5, <1>6 DEF MoneyInv, Owed
<1>11. WorkerInv(w)'
    BY <1>0, <1>1, <1>3, <1>4, <1>5 DEF WorkerInv, Queued, PendOf, Claim
<1> QED
    BY <1>1, <1>4, <1>7, <1>8, <1>9, <1>10, <1>11, WorkerStepKeeps DEF RequestInv

LEMMA ApplyReadKeeps ==
    ASSUME IndInv, TypeOK', NEW w \in Workers, ApplyRead(w), job[w].row \in Polled
    PROVE  Keeps
<1> DEFINE r == job[w].row
<1>1. TypeOK /\ WorkerInv(w) /\ Queued(r) /\ job[w].pend = PendOf(r)
    BY DEF IndInv, WorkerInv, ApplyRead
<1>2. UNCHANGED <<row, money, outbox, task, request, job>>
    BY DEF ApplyRead
<1>3. \A q \in Polled : Same(q)
    BY <1>2, FrameSame
<1>4. /\ wpc'[w] = IF state[r] = "applying" THEN "applying" ELSE "failed"
      /\ state[r] = "applying" =>
           view'[w] = [bound |-> bound[r], reserved |-> reserved[r],
                       final |-> final[r], target |-> target[r]]
      /\ \A v \in Workers \ {w} : wpc'[v] = wpc[v] /\ job'[v] = job[v] /\ view'[v] = view[v]
    BY <1>1, <1>2 DEF TypeOK, WorkerTypes, ApplyRead
<1>5. UNCHANGED <<state, bound, reserved, final, target, job>>
    BY <1>2 DEF row
<1>6. WorkerInv(w)'
    BY <1>1, <1>4, <1>5 DEF WorkerInv, Queued, PendOf
<1> QED
    BY <1>3, <1>4, <1>6, QuietWorkerKeeps

\* A pass that ends without having touched a row.
LEMMA GiveUpKeeps ==
    ASSUME IndInv, TypeOK', NEW w \in Workers,
           ClaimLost(w) \/ ApplyRollback(w) \/ ReleaseError(w) \/ WorkerCrash(w)
    PROVE  Keeps
<1>1. UNCHANGED <<row, money, outbox, task, request>>
    BY DEF ClaimLost, ApplyRollback, ReleaseError, WorkerCrash
<1>2. \A q \in Polled : Same(q)
    BY <1>1, FrameSame
<1>3. \A q \in Polled : SameOutcome(q) /\ FinalStep(q)
    BY <1>2 DEF Same, SameOutcome, Queued, FinalStep, Done
<1>4. EndPass(w) \/ (wpc[w] # "idle" /\ FailApply(w))
    BY DEF ClaimLost, ApplyRollback, ReleaseError, WorkerCrash
<1>5. job[w].row \in Polled => SameOutcome(job[w].row)
    BY <1>3
<1> QED
    BY <1>2, <1>4, <1>5, EndPassKeeps, FailApplyKeeps, QuietWorkerKeeps

\* A released row is queued as it was, or handed to an operator.
LEMMA ReleaseKeeps ==
    ASSUME IndInv, TypeOK', NEW w \in Workers, Release(w), job[w].row \in Polled
    PROVE  Keeps
<1>0. PICK r \in Polled : job[w].row = r
    OBVIOUS
<1>1. TypeOK /\ WorkerInv(w) /\ Queued(r) /\ job[w].pend = PendOf(r)
    BY <1>0 DEF IndInv, WorkerInv, Release
<1>2. RowInv(r) /\ TaskInv(r) /\ QueueInv(r) /\ MoneyInv(r)
    BY <1>1 DEF IndInv
<1>3. \A p \in Polled \ {r} : state'[p] = state[p]
    BY <1>0, <1>1 DEF TypeOK, RowTypes, Release
<1>4. \/ state'[r] = state[r]
      \/ state[r] = "applying" /\ state'[r] \in {"action_required", PendOf(r)}
    BY <1>0, <1>1 DEF TypeOK, RowTypes, Release
<1>5. UNCHANGED <<bound, reserved, final, target, aged, money, outbox, task, request>>
    BY DEF Release
<1>6. UNCHANGED <<charged, tokenCharged, usage, cacheEvent, logEvent, taskStatus, taskQuota,
                  taskBilling, req, session>>
    BY <1>5 DEF money, outbox, task, request
<1>7. \A p \in Polled \ {r} : Same(p)
    BY <1>3, <1>5, <1>6 DEF Same
<1>8. Queued(r)' /\ PendOf(r)' = PendOf(r)
    BY <1>1, <1>4, <1>5 DEF Queued, PendOf
<1>9. RowInv(r)' /\ SameOutcome(r) /\ FinalStep(r)
    BY <1>1, <1>2, <1>4, <1>5, <1>6, <1>8 DEF RowInv, SameOutcome, Queued, RequestLive, PendOf, FinalStep, Done
<1>10. TaskInv(r)'
    BY <1>1, <1>2, <1>4, <1>5, <1>6, <1>8 DEF TaskInv, Queued, PendOf
<1>11. QueueInv(r)'
    BY <1>1, <1>2, <1>4, <1>5, <1>6, <1>8 DEF QueueInv, PendOf, Pending, Done
<1>12. MoneyInv(r)'
    BY <1>2, <1>5, <1>6 DEF MoneyInv, Owed
<1>13. EndPass(w)
    BY DEF Release
<1> QED
    BY <1>1, <1>7, <1>9, <1>10, <1>11, <1>12, <1>13, EndPassKeeps, WorkerStepKeeps DEF RequestInv

\* The committed transaction of a worker: its row's outcome is applied, once.
LEMMA ApplyKeepsRow ==
    ASSUME IndInv, NEW w \in Workers, NEW r \in Polled, job[w].row = r,
           wpc[w] = "applying", Apply(w)
    PROVE  /\ \A p \in Polled \ {r} : Same(p)
           /\ RequestInv(r)' /\ SameOutcome(r) /\ FinalStep(r)
<1> DEFINE done == IF target[r] = "FAILURE" THEN "refunded" ELSE "settled"
<1>1. /\ TypeOK /\ RowInv(r) /\ TaskInv(r) /\ QueueInv(r) /\ MoneyInv(r) /\ WorkerInv(w)
      /\ reserved[r] \in Nat /\ final[r] \in Nat /\ usage[r] \in Nat
    BY DEF IndInv, TypeOK, RowTypes, MoneyTypes
<1>2. /\ view[w].bound = bound[r] /\ view[w].reserved = reserved[r]
      /\ view[w].final = final[r] /\ view[w].target = target[r] /\ Queued(r)
    BY <1>1 DEF WorkerInv
<1>3. FinalQuota(view[w]) = final[r] /\ final[r] - reserved[r] \in Int
    BY <1>1, <1>2 DEF FinalQuota, QueueInv
<1>4. /\ r \notin cacheEvent /\ r \notin logEvent
      /\ charged[r] = reserved[r] /\ usage[r] = 0
      /\ tokenCharged[r] = IF r \in Playground THEN 0 ELSE reserved[r]
    BY <1>1 DEF Apply, CanApply, MoneyInv, Owed
<1>5. /\ charged'[r] = final[r] /\ tokenCharged'[r] = IF r \in Playground THEN 0 ELSE final[r]
      /\ \A p \in Polled \ {r} : charged'[p] = charged[p] /\ tokenCharged'[p] = tokenCharged[p]
  <2>1. Move(r, final[r] - reserved[r])
    BY <1>2, <1>3 DEF Apply
  <2>2. /\ charged'[r] = charged[r] + (final[r] - reserved[r])
        /\ tokenCharged'[r] = IF r \in Playground THEN tokenCharged[r]
                              ELSE tokenCharged[r] + (final[r] - reserved[r])
        /\ \A p \in Polled \ {r} : charged'[p] = charged[p] /\ tokenCharged'[p] = tokenCharged[p]
    BY <1>1, <1>3, <2>1, MoveFacts
  <2> QED
    BY <1>1, <1>4, <2>2
<1>6. /\ usage'[r] = IF bound[r] /\ target[r] = "SUCCESS" THEN final[r] ELSE 0
      /\ \A p \in Polled \ {r} : usage'[p] = usage[p]
  <2>1. usage' = [usage EXCEPT ![r] = IF bound[r] /\ target[r] = "SUCCESS" THEN @ + final[r] ELSE @]
    BY <1>2, <1>3 DEF Apply
  <2>2. DOMAIN usage = Requests
    BY <1>1 DEF TypeOK, MoneyTypes
  <2> QED
    BY <1>1, <1>4, <2>1, <2>2
<1>7. /\ bound[r] => taskQuota'[r] = final[r] /\ taskBilling'[r] = done
      /\ ~bound[r] => taskQuota'[r] = taskQuota[r] /\ taskBilling'[r] = taskBilling[r]
      /\ \A p \in Polled \ {r} : taskQuota'[p] = taskQuota[p] /\ taskBilling'[p] = taskBilling[p]
    BY <1>1, <1>2, <1>3 DEF TypeOK, TaskTypes, Apply
<1>8. /\ state'[r] = IF state[r] = "applying" THEN done ELSE state[r]
      /\ final'[r] = final[r]
      /\ \A p \in Polled \ {r} : state'[p] = state[p] /\ final'[p] = final[p]
    BY <1>1, <1>2, <1>3 DEF TypeOK, RowTypes, Apply
<1>9. /\ r \in cacheEvent' /\ (r \in logEvent' <=> bound[r] /\ target[r] = "SUCCESS")
      /\ \A p \in Polled \ {r} : (p \in cacheEvent' <=> p \in cacheEvent)
                                   /\ (p \in logEvent' <=> p \in logEvent)
    BY <1>2, <1>4 DEF Apply
<1>10. UNCHANGED <<bound, reserved, target, aged, taskStatus, request>>
    BY DEF Apply
<1>11. UNCHANGED <<req, session>>
    BY <1>10 DEF request
<1>12. \A p \in Polled \ {r} : Same(p)
    BY <1>5, <1>6, <1>7, <1>8, <1>9, <1>10, <1>11 DEF Same
<1>13. Queued(r)'
    BY <1>2, <1>8 DEF Queued
<1>14. RowInv(r)' /\ SameOutcome(r) /\ FinalStep(r)
  <2>1. state[r] \notin Done
    BY <1>1, <1>2, <1>4 DEF QueueInv
  <2> QED
    BY <1>1, <1>2, <1>4, <1>8, <1>10, <1>11, <1>13, <2>1
    DEF RowInv, SameOutcome, Queued, RequestLive, FinalStep
<1>15. TaskInv(r)'
    BY <1>1, <1>2, <1>5, <1>7, <1>8, <1>9, <1>10, <1>13 DEF TaskInv, Queued, Done
<1>16. QueueInv(r)'
    BY <1>1, <1>2, <1>8, <1>9, <1>10 DEF QueueInv, Queued, PendOf, Pending
<1>17. MoneyInv(r)'
  <2>1. target[r] = "SUCCESS" => bound[r]
    BY <1>1, <1>2 DEF QueueInv
  <2>2. target[r] # "SUCCESS" => final[r] = 0
    BY <1>1, <1>2 DEF QueueInv
  <2>3. Owed(r)' = final[r]
    BY <1>8, <1>9, <1>10, <2>2 DEF Owed
  <2> QED
    BY <1>5, <1>6, <1>9, <1>10, <2>1, <2>2, <2>3 DEF MoneyInv
<1> QED
    BY <1>12, <1>14, <1>15, <1>16, <1>17 DEF RequestInv

LEMMA ApplyKeeps ==
    ASSUME IndInv, TypeOK', NEW w \in Workers, ApplyCommit(w) \/ ApplyAckLost(w),
           job[w].row \in Polled
    PROVE  Keeps
<1>1. PICK r \in Polled : job[w].row = r
    OBVIOUS
<1>2. /\ \A p \in Polled \ {r} : Same(p)
      /\ RequestInv(r)' /\ SameOutcome(r) /\ FinalStep(r)
    BY <1>1, ApplyKeepsRow DEF ApplyCommit, ApplyAckLost
<1>3. EndPass(w) \/ (wpc[w] # "idle" /\ FailApply(w))
    BY DEF ApplyCommit, ApplyAckLost
<1>4. SameOutcome(job[w].row)
    BY <1>1, <1>2
<1> QED
    BY <1>2, <1>3, <1>4, EndPassKeeps, FailApplyKeeps, WorkerStepKeeps

(***************************************************************************)
(* Steps that concern the row of a task that can be fetched in real time:  *)
(* whatever they do to it, they leave the polled ones alone.               *)
(***************************************************************************)
\* What a step of request r or of its task may change.
Only(f, g, r) == g = f \/ \E x : g = [f EXCEPT ![r] = x]

\* The variables of which Same speaks, changed at r only.
OnlyRow(r) == /\ Only(state, state', r) /\ Only(bound, bound', r) /\ Only(reserved, reserved', r)
              /\ Only(final, final', r) /\ Only(target, target', r)
              /\ \A q \in Requests \ {r} : q \in aged' <=> q \in aged
OnlyMoney(r) == Only(charged, charged', r) /\ Only(tokenCharged, tokenCharged', r) /\ Only(usage, usage', r)
OnlyTask(r) == Only(taskStatus, taskStatus', r) /\ Only(taskQuota, taskQuota', r) /\ Only(taskBilling, taskBilling', r)
OnlyRequest(r) == Only(req, req', r) /\ Only(session, session', r)

LEMMA OnlyOneSame ==
    ASSUME TypeOK, NEW r \in Requests, OnlyRow(r), OnlyMoney(r), OnlyTask(r), OnlyRequest(r),
           UNCHANGED outbox
    PROVE  \A q \in Requests \ {r} : Same(q)
<1>1. \A q \in Requests \ {r} :
        /\ state'[q] = state[q] /\ bound'[q] = bound[q] /\ reserved'[q] = reserved[q]
        /\ final'[q] = final[q] /\ target'[q] = target[q]
    BY DEF OnlyRow, Only, TypeOK, RowTypes
<1>2. \A q \in Requests \ {r} :
        charged'[q] = charged[q] /\ tokenCharged'[q] = tokenCharged[q] /\ usage'[q] = usage[q]
    BY DEF OnlyMoney, Only, TypeOK, MoneyTypes
<1>3. \A q \in Requests \ {r} :
        /\ taskStatus'[q] = taskStatus[q] /\ taskQuota'[q] = taskQuota[q]
        /\ taskBilling'[q] = taskBilling[q]
    BY DEF OnlyTask, Only, TypeOK, TaskTypes
<1>4. \A q \in Requests \ {r} : req'[q] = req[q] /\ session'[q] = session[q]
    BY DEF OnlyRequest, Only, TypeOK, RequestTypes
<1> QED
    BY <1>1, <1>2, <1>3, <1>4 DEF Same, OnlyRow, outbox

LEMMA UnchangedOnly ==
    ASSUME NEW r
    PROVE  /\ UNCHANGED row => OnlyRow(r)
           /\ UNCHANGED money => OnlyMoney(r)
           /\ UNCHANGED task => OnlyTask(r)
           /\ UNCHANGED request => OnlyRequest(r)
BY DEF OnlyRow, OnlyMoney, OnlyTask, OnlyRequest, Only, row, money, task, request

LEMMA MoveOnly ==
    ASSUME NEW r, NEW d, Move(r, d) \/ LegacyMove(r, d)
    PROVE  Only(charged, charged', r) /\ Only(tokenCharged, tokenCharged', r)
BY DEF Move, LegacyMove, Only

LEMMA TaskIntentOnly ==
    ASSUME NEW r, NEW from, NEW st, NEW q, TaskIntent(r, from, st, q)
    PROVE  /\ OnlyRow(r) /\ Only(taskStatus, taskStatus', r) /\ Only(taskBilling, taskBilling', r)
           /\ UNCHANGED <<outbox, request, worker>>
BY DEF TaskIntent, OnlyRow, Only

LEMMA LegacyOnly ==
    ASSUME NEW r, NEW q, LegacyRefund(r, q) \/ LegacySettle(r, q)
    PROVE  OnlyMoney(r) /\ Only(taskQuota, taskQuota', r)
<1>1. \E d : LegacyMove(r, d)
    BY DEF LegacyRefund, LegacySettle
<1>2. Only(usage, usage', r) /\ Only(taskQuota, taskQuota', r)
    BY DEF LegacyRefund, LegacySettle, Only
<1> QED
    BY <1>1, <1>2, MoveOnly DEF OnlyMoney

LEMMA RequestIsLocal ==
    ASSUME TypeOK, NEW r \in Requests, RequestStep(r)
    PROVE  UNCHANGED worker /\ \A q \in Requests \ {r} : Same(q)
<1>1. UNCHANGED worker /\ UNCHANGED outbox
    BY DEF RequestStep, Reserve, ReserveAckLost, CreateRow, ReserveRefused, UpstreamAccepts,
           UpstreamFails, HoldRead, HoldCommit, HoldAckLost, AdjustReservation, HoldRollback,
           Bind, BindAckLost, BindTask, BindRollback, Refund, RefundError, RequestCrash
<1>2. OnlyRequest(r)
    BY DEF RequestStep, Reserve, ReserveAckLost, CreateRow, ReserveRefused, UpstreamAccepts,
           UpstreamFails, HoldRead, HoldCommit, HoldAckLost, AdjustReservation, HoldRollback,
           Bind, BindAckLost, BindTask, BindRollback, Refund, RefundError, RequestCrash,
           OnlyRequest, Only
<1>3. CASE Reserve(r) \/ ReserveAckLost(r)
  <2>1. PICK q \in Quotas \ {0}, s \in Sources : CreateRow(r, q, s)
    BY <1>3 DEF Reserve, ReserveAckLost
  <2>2. OnlyRow(r) /\ OnlyTask(r)
    BY <2>1, UnchangedOnly DEF CreateRow, OnlyRow, Only
  <2>3. OnlyMoney(r)
    BY <2>1, MoveOnly DEF CreateRow, OnlyMoney, Only
  <2> QED
    BY <1>1, <1>2, <2>2, <2>3, OnlyOneSame
<1>4. CASE HoldCommit(r) \/ HoldAckLost(r)
  <2>1. AdjustReservation(r)
    BY <1>4 DEF HoldCommit, HoldAckLost
  <2>2. OnlyRow(r) /\ OnlyTask(r)
    BY <2>1, UnchangedOnly DEF AdjustReservation, OnlyRow, Only
  <2>3. OnlyMoney(r)
    BY <2>1, MoveOnly DEF AdjustReservation, OnlyMoney, Only
  <2> QED
    BY <1>1, <1>2, <2>2, <2>3, OnlyOneSame
<1>5. CASE Bind(r) \/ BindAckLost(r)
  <2>1. BindTask(r)
    BY <1>5 DEF Bind, BindAckLost
  <2>2. OnlyRow(r) /\ OnlyTask(r) /\ OnlyMoney(r)
    BY <2>1, UnchangedOnly DEF BindTask, OnlyRow, OnlyTask, Only
  <2> QED
    BY <1>1, <1>2, <2>2, OnlyOneSame
<1>6. CASE Refund(r)
  <2> DEFINE R == IF ~bound[r] /\ state[r] = "reserved" THEN {r} ELSE {}
  <2>1. RefundIntent(R) /\ UNCHANGED <<bound, reserved, money, outbox, task, session>>
    BY <1>6 DEF Refund
  <2>2. \A p \in Requests \ {r} :
            /\ state'[p] = state[p] /\ target'[p] = target[p] /\ final'[p] = final[p]
            /\ p \in aged' <=> p \in aged
    BY <2>1, RefundIntentFacts
  <2>3. \A p \in Requests \ {r} : req'[p] = req[p]
    BY <1>6 DEF Refund, TypeOK, RequestTypes
  <2> QED
    BY <1>1, <2>1, <2>2, <2>3 DEF Same, money, outbox, task
<1>7. CASE QuietRequest(r)
  <2>1. UNCHANGED <<row, money, outbox, task>>
    BY <1>7 DEF QuietRequest, ReserveRefused, UpstreamAccepts, UpstreamFails, HoldRead,
           HoldRollback, BindRollback, RefundError, RequestCrash
  <2> QED
    BY <1>1, <1>2, <2>1, UnchangedOnly, OnlyOneSame
<1> QED
    BY <1>3, <1>4, <1>5, <1>6, <1>7 DEF RequestStep, QuietRequest

LEMMA SaveCopyOnly ==
    ASSUME NEW r, NEW st, SaveCopy(r, st)
    PROVE  /\ OnlyMoney(r) /\ OnlyTask(r)
           /\ UNCHANGED <<row, outbox, request, worker>>
<1>1. Only(taskStatus, taskStatus', r) /\ Only(taskBilling, taskBilling', r) /\ UNCHANGED <<row, outbox, request, worker>>
    BY DEF SaveCopy, Only
<1>2. OnlyMoney(r) /\ Only(taskQuota, taskQuota', r)
  <2>1. CASE LegacySettle(r, copy[r].quota) \/ LegacyRefund(r, copy[r].quota)
    BY <2>1, LegacyOnly
  <2>2. CASE taskQuota' = [taskQuota EXCEPT ![r] = copy[r].quota] /\ UNCHANGED money
    BY <2>2, UnchangedOnly DEF Only
  <2> QED
    BY <2>1, <2>2 DEF SaveCopy
<1> QED
    BY <1>1, <1>2 DEF OnlyTask

LEMMA TaskIsLocal ==
    ASSUME TypeOK, NEW r \in Requests, TaskStep(r) \/ FetchStep(r)
    PROVE  UNCHANGED worker /\ \A q \in Requests \ {r} : Same(q)
<1>1. ASSUME NEW from, NEW st, NEW q, TaskIntent(r, from, st, q),
             OnlyMoney(r), Only(taskQuota, taskQuota', r)
      PROVE  UNCHANGED worker /\ \A p \in Requests \ {r} : Same(p)
  <2>1. /\ OnlyRow(r) /\ Only(taskStatus, taskStatus', r) /\ Only(taskBilling, taskBilling', r)
        /\ UNCHANGED <<outbox, request, worker>>
    BY <1>1, TaskIntentOnly
  <2> QED
    BY <1>1, <2>1, UnchangedOnly, OnlyOneSame DEF OnlyTask
<1>2. CASE TaskSucceeds(r) \/ TaskFails(r)
  <2>1. PICK st, q : TaskIntent(r, "LIVE", st, q)
    BY <1>2 DEF TaskSucceeds, TaskFails
  <2>2. OnlyMoney(r) /\ Only(taskQuota, taskQuota', r)
    BY <1>2, UnchangedOnly DEF TaskSucceeds, TaskFails, Only
  <2> QED
    BY <1>1, <2>1, <2>2
<1>3. CASE TaskEndsUntracked(r) \/ TaskSettlesUntracked(r) \/ TaskRefundsUntracked(r)
  <2>1. PICK st : TaskEnds(r, st)
    BY <1>3 DEF TaskEndsUntracked, TaskSettlesUntracked, TaskRefundsUntracked
  <2>2. OnlyMoney(r) /\ Only(taskQuota, taskQuota', r)
    <3>1. CASE TaskEndsUntracked(r)
      BY <3>1, UnchangedOnly DEF TaskEndsUntracked, Only
    <3> QED
      BY <1>3, <3>1, LegacyOnly DEF TaskSettlesUntracked, TaskRefundsUntracked
  <2>3. /\ OnlyTask(r) /\ UNCHANGED <<row, outbox, request, worker>>
    BY <2>1, <2>2 DEF TaskEnds, OnlyTask, Only
  <2> QED
    BY <2>2, <2>3, UnchangedOnly, OnlyOneSame
<1>4. CASE TaskRefundsTwice(r)
    BY <1>1, <1>4, LegacyOnly DEF TaskRefundsTwice
<1>5. CASE LostRaceRefund(r)
  <2>1. OnlyMoney(r) /\ OnlyTask(r) /\ UNCHANGED <<row, outbox, request, worker>>
    BY <1>5, LegacyOnly DEF LostRaceRefund, OnlyTask, Only
  <2> QED
    BY <2>1, UnchangedOnly, OnlyOneSame
<1>6. CASE FetchTask(r) \/ FetchDropped(r)
  <2>1. UNCHANGED <<row, money, outbox, task, request, worker>>
    BY <1>6 DEF FetchTask, FetchDropped
  <2> QED
    BY <2>1, UnchangedOnly, OnlyOneSame
<1>7. CASE FetchChangesEnd(r)
  <2>1. PICK st, q : TaskIntent(r, copy[r].status, st, q)
    BY <1>7 DEF FetchChangesEnd
  <2>2. OnlyMoney(r) /\ Only(taskQuota, taskQuota', r)
    BY <1>7, UnchangedOnly DEF FetchChangesEnd, Only
  <2> QED
    BY <1>1, <2>1, <2>2
<1>8. CASE FetchSaves(r) \/ FetchSavesUntracked(r)
  <2>1. PICK st : SaveCopy(r, st)
    BY <1>8 DEF FetchSaves, FetchSavesUntracked
  <2>2. /\ OnlyMoney(r) /\ OnlyTask(r)
        /\ UNCHANGED <<row, outbox, request, worker>>
    BY <2>1, SaveCopyOnly
  <2> QED
    BY <2>2, UnchangedOnly, OnlyOneSame
<1> QED
    BY <1>2, <1>3, <1>4, <1>5, <1>6, <1>7, <1>8 DEF TaskStep, FetchStep

LEMMA ForeignRequestKeeps ==
    ASSUME IndInv, TypeOK', NEW r \in Realtime,
           RequestStep(r) \/ TaskStep(r) \/ FetchStep(r) \/ ClockStep(r)
    PROVE  Keeps
<1>0. r \in Requests /\ TypeOK
    BY RealtimeAssumption DEF IndInv
<1>1. UNCHANGED worker /\ \A q \in Requests \ {r} : Same(q)
  <2>1. CASE ClockStep(r)
    <3>1. /\ UNCHANGED <<state, bound, reserved, final, target>>
          /\ UNCHANGED <<money, outbox, task, request, worker>>
      BY <2>1 DEF ClockStep, Age, LeaseTimeout, LeaseLost, RetryDue, RetryOverdue,
                  ExpireLease, EndBackoff
    <3>2. \A q \in Requests \ {r} : q \in aged' <=> q \in aged
      BY <2>1 DEF ClockStep, Age, LeaseTimeout, LeaseLost, RetryDue, RetryOverdue,
                  ExpireLease, EndBackoff
    <3> QED
      BY <3>1, <3>2 DEF Same, money, outbox, task, request
  <2> QED
    BY <1>0, <2>1, RequestIsLocal, TaskIsLocal
<1> QED
    BY <1>1, AllSameKeeps

\* A worker changes the row of its job only.
LEMMA WorkerIsLocal ==
    ASSUME TypeOK, NEW w \in Workers,
           Claim(w) \/ ApplyRead(w) \/ ApplyCommit(w) \/ ApplyAckLost(w) \/ Release(w)
    PROVE  \A q \in Requests \ {job[w].row} : Same(q)
<1> DEFINE r == job[w].row
<1>1. TypeOK /\ r \in Requests
    BY JobType
<1>2. \A q \in Requests \ {r} : Same(q)
  <2>1. CASE Claim(w) \/ Release(w)
    <3>1. /\ UNCHANGED <<bound, reserved, final, target, aged>>
          /\ UNCHANGED <<money, outbox, task, request>>
      BY <2>1 DEF Claim, Release
    <3>2. \A q \in Requests \ {r} : state'[q] = state[q]
      BY <1>1, <2>1 DEF Claim, Release, TypeOK, RowTypes
    <3> QED
      BY <3>1, <3>2 DEF Same, money, outbox, task, request
  <2>2. CASE ApplyRead(w)
    BY <2>2, FrameSame DEF ApplyRead, Same, row, money, outbox, task, request
  <2>3. CASE ApplyCommit(w) \/ ApplyAckLost(w)
    <3>1. Apply(w)
      BY <2>3 DEF ApplyCommit, ApplyAckLost
    <3>2. UNCHANGED <<bound, reserved, target, aged, taskStatus, request>>
      BY <3>1 DEF Apply
    <3>3. \A q \in Requests \ {r} : /\ state'[q] = state[q] /\ final'[q] = final[q]
                                    /\ usage'[q] = usage[q]
      BY <1>1, <3>1 DEF Apply, TypeOK, RowTypes, MoneyTypes
    <3>4. \A q \in Requests \ {r} : /\ taskQuota'[q] = taskQuota[q]
                                    /\ taskBilling'[q] = taskBilling[q]
      BY <1>1, <3>1 DEF Apply, TypeOK, TaskTypes
    <3>5. \A q \in Requests \ {r} : charged'[q] = charged[q] /\ tokenCharged'[q] = tokenCharged[q]
      <4>1. PICK d \in Int : Move(r, d)
        BY <1>1, <3>1, JobType DEF Apply
      <4> QED
        BY <1>1, <4>1, MoveFacts
    <3>6. \A q \in Requests \ {r} : (q \in cacheEvent' <=> q \in cacheEvent)
                                     /\ (q \in logEvent' <=> q \in logEvent)
      BY <3>1 DEF Apply
    <3> QED
      BY <3>2, <3>3, <3>4, <3>5, <3>6 DEF Same, request
  <2> QED
    BY <2>1, <2>2, <2>3
<1> QED
    BY <1>2

\* A worker on the row of such a task.
LEMMA ForeignWorkerKeeps ==
    ASSUME IndInv, TypeOK', NEW w \in Workers, job[w].row \notin Polled,
           Claim(w) \/ ApplyRead(w) \/ ApplyCommit(w) \/ ApplyAckLost(w) \/ Release(w)
    PROVE  Keeps
<1> DEFINE r == job[w].row
<1>1. TypeOK /\ r \in Requests /\ WorkerInv(w)
    BY JobType DEF IndInv
<1>2. /\ \A v \in Workers \ {w} : wpc'[v] = wpc[v] /\ job'[v] = job[v] /\ view'[v] = view[v]
      /\ wpc'[w] = "idle" \/ job'[w] = job[w]
    BY <1>1 DEF Claim, ApplyRead, ApplyCommit, ApplyAckLost, Release, EndPass, FailApply,
                TypeOK, WorkerTypes
<1>3. WorkerInv(w)'
    BY <1>2 DEF WorkerInv
<1>4. \A q \in Requests \ {r} : Same(q)
    BY <1>1, WorkerIsLocal
<1> QED
    BY <1>2, <1>3, <1>4, QuietWorkerKeeps

LEMMA ForeignPickKeeps ==
    ASSUME IndInv, TypeOK', NEW w \in Workers, NEW r \in Requests, r \notin Polled, Pick(w, r)
    PROVE  Keeps
<1>1. \A q \in Polled : Same(q)
    BY FrameSame DEF Pick
<1>2. /\ job'[w].row = r
      /\ \A v \in Workers \ {w} : wpc'[v] = wpc[v] /\ job'[v] = job[v] /\ view'[v] = view[v]
    BY DEF Pick, IndInv, TypeOK, WorkerTypes
<1>3. WorkerInv(w)'
    BY <1>2 DEF WorkerInv
<1> QED
    BY <1>1, <1>2, <1>3, QuietWorkerKeeps

-----------------------------------------------------------------------------
LEMMA IndInit == Init => IndInv
<1>1. SUFFICES ASSUME Init PROVE IndInv
    OBVIOUS
<1>2. TypeOK
    BY <1>1, TypeInit
<1>3. ASSUME NEW r \in Polled PROVE RowInv(r) /\ TaskInv(r) /\ QueueInv(r) /\ MoneyInv(r)
    BY <1>1 DEF Init, RowInv, TaskInv, QueueInv, MoneyInv, Queued, Owed, RequestLive
<1>4. ASSUME NEW w \in Workers PROVE WorkerInv(w)
    BY <1>1 DEF Init, WorkerInv
<1> QED
    BY <1>2, <1>3, <1>4 DEF IndInv

\* One case per action.
LEMMA IndStep ==
    ASSUME Survivable, IndInv, [Next]_vars
    PROVE  Keeps
<1>1. TypeOK'
    BY TypeStep DEF IndInv
<1>2. ASSUME NEW r \in Polled, RequestStep(r) PROVE Keeps
  <2>1. CASE Reserve(r)
    <3>1. PICK q \in Quotas, s \in Sources :
             CreateRow(r, q, s) /\ session' = [session EXCEPT ![r] = q]
      BY <2>1 DEF Reserve
    <3> QED
      BY <1>1, <2>1, <3>1, CreateRowKeeps DEF Reserve
  <2>2. CASE ReserveAckLost(r)
    <3>1. PICK q \in Quotas, s \in Sources : CreateRow(r, q, s)
      BY <2>2 DEF ReserveAckLost
    <3> QED
      BY <1>1, <2>2, <3>1, CreateRowKeeps DEF ReserveAckLost
  <2>3. CASE HoldCommit(r) \/ HoldAckLost(r)
    BY <1>1, <2>3, AdjustReservationKeeps DEF HoldCommit, HoldAckLost
  <2>4. CASE Bind(r) \/ BindAckLost(r)
    BY <1>1, <2>4, BindTaskKeeps DEF Bind, BindAckLost
  <2>5. CASE Refund(r)
    BY <1>1, <2>5, RefundKeeps
  <2>6. CASE QuietRequest(r)
    BY <1>1, <2>6, QuietRequestKeeps
  <2> QED
    BY <1>2, <2>1, <2>2, <2>3, <2>4, <2>5, <2>6 DEF RequestStep, QuietRequest
<1>3. ASSUME NEW r \in Polled, TaskStep(r) PROVE Keeps
  <2>1. CASE TaskSucceeds(r)
    <3>1. PICK q \in Quotas : TaskIntent(r, "LIVE", "SUCCESS", q)
      BY <2>1 DEF TaskSucceeds
    <3>2. q \in Nat /\ UNCHANGED <<money, taskQuota>>
      BY <2>1, QuotasAssumption DEF TaskSucceeds
    <3> QED
      BY <1>1, <3>1, <3>2, TaskIntentKeeps
  <2>2. CASE TaskFails(r)
    BY <1>1, <2>2, TaskIntentKeeps DEF TaskFails
  <2>3. ~(TaskEndsUntracked(r) \/ TaskSettlesUntracked(r) \/ TaskRefundsUntracked(r)
          \/ TaskRefundsTwice(r) \/ LostRaceRefund(r))
    BY DEF Survivable, TaskEndsUntracked, TaskSettlesUntracked, TaskRefundsUntracked, TaskEnds,
           TaskRefundsTwice, LostRaceRefund, Fault, Count
  <2> QED
    BY <1>3, <2>1, <2>2, <2>3 DEF TaskStep
<1>4. ASSUME NEW r \in Polled, ClockStep(r) PROVE Keeps
    BY <1>1, <1>4, AgeKeeps, ClockKeeps DEF ClockStep
<1>5. ASSUME NEW w \in Workers, WorkerStep(w) PROVE Keeps
  <2>1. CASE MarkStale(w)
    BY <1>1, <2>1, MarkStaleKeeps
  <2>2. CASE \E r \in Requests : Pick(w, r)
    <3>1. PICK r \in Requests : Pick(w, r)
      BY <2>2
    <3>2. CASE r \in Polled
      BY <1>1, <3>1, <3>2, PickKeeps
    <3>3. CASE r \notin Polled
      BY <1>1, <3>1, <3>3, ForeignPickKeeps
    <3> QED
      BY <3>2, <3>3
  <2>3. CASE job[w].row \in Polled /\ Claim(w)
    BY <1>1, <2>3, ClaimKeeps
  <2>4. CASE job[w].row \in Polled /\ ApplyRead(w)
    BY <1>1, <2>4, ApplyReadKeeps
  <2>5. CASE job[w].row \in Polled /\ (ApplyCommit(w) \/ ApplyAckLost(w))
    BY <1>1, <2>5, ApplyKeeps
  <2>6. CASE ClaimLost(w) \/ ApplyRollback(w) \/ ReleaseError(w) \/ WorkerCrash(w)
    BY <1>1, <2>6, GiveUpKeeps
  <2>7. CASE job[w].row \in Polled /\ Release(w)
    BY <1>1, <2>7, ReleaseKeeps
  <2>8. CASE /\ job[w].row \notin Polled
             /\ Claim(w) \/ ApplyRead(w) \/ ApplyCommit(w) \/ ApplyAckLost(w) \/ Release(w)
    BY <1>1, <2>8, ForeignWorkerKeeps
  <2> QED
    BY <1>5, <2>1, <2>2, <2>3, <2>4, <2>5, <2>6, <2>7, <2>8 DEF WorkerStep
<1>6. CASE UNCHANGED vars
  <2>1. UNCHANGED <<row, money, outbox, task, request, worker>>
    BY <1>6 DEF vars
  <2> QED
    BY <1>1, <2>1, FrameSame, AllSameKeeps
<1>7. ASSUME NEW r \in Realtime, RequestStep(r) \/ TaskStep(r) \/ FetchStep(r) \/ ClockStep(r)
      PROVE  Keeps
    BY <1>1, <1>7, ForeignRequestKeeps
<1>8. ASSUME NEW x \in Deletable, Delete(x) PROVE Keeps
  <2>1. UNCHANGED <<row, money, outbox, task, request, worker>>
    BY <1>8 DEF Delete
  <2> QED
    BY <1>1, <2>1, FrameSame, AllSameKeeps
<1> QED
  <2>1. ASSUME NEW r \in Requests, RequestStep(r) \/ TaskStep(r) \/ ClockStep(r)
        PROVE  Keeps
    <3>1. CASE r \in Polled
      BY <1>2, <1>3, <1>4, <2>1, <3>1
    <3>2. CASE r \in Realtime
      BY <1>7, <2>1, <3>2
    <3> QED
      BY <3>1, <3>2
  <2> QED
    BY <1>5, <1>6, <1>7, <1>8, <2>1 DEF Next

\* The inductive invariant: until the outcome of a polled task's row is queued
\* its request is the only one to change it, a queued outcome never changes, and
\* each row is applied at most once.  It holds for every set of requests and
\* workers, whatever fetches do to the other tasks beside them, and for every
\* fault the code is meant to survive.
THEOREM IndInvariant == Survivable => (Spec => []IndInv)
<1>1. SUFFICES ASSUME Survivable PROVE Spec => []IndInv
    OBVIOUS
<1>2. Init => IndInv
    BY IndInit
<1>3. IndInv /\ [Next]_vars => IndInv'
    BY <1>1, IndStep DEF Keeps
<1> QED
    BY <1>2, <1>3, PTL DEF Spec

\* applyDurableTaskBilling charges or refunds each request for a polled task
\* exactly once: what was moved on the funding source and on the token for it is
\* what the row says, for any number of requests, of workers, of retries,
\* crashes, lost leases, lost acknowledgements and deleted users or tokens.
THEOREM LedgerCorrect == Survivable => (Spec => []LedgerMatchesRow)
<1>1. IndInv => LedgerMatchesRow
    BY DEF IndInv, MoneyInv, QueueInv, Queued, Done, LedgerMatchesRow
<1> QED
    BY <1>1, IndInvariant, PTL

\* AdjustUserUsageTx and AdjustChannelUsageTx count a polled task once, with what
\* it was charged, if and only if it succeeded and was settled.
THEOREM UsageCorrect == Survivable => (Spec => []UsageMatchesCharge)
<1>1. IndInv => UsageMatchesCharge
  <2>1. SUFFICES ASSUME IndInv, NEW r \in Polled
                 PROVE  /\ usage[r] = IF r \in logEvent THEN charged[r] ELSE 0
                        /\ r \in logEvent <=> r \in cacheEvent /\ taskStatus[r] = "SUCCESS"
    BY DEF UsageMatchesCharge
  <2>2. RowInv(r) /\ TaskInv(r) /\ QueueInv(r) /\ MoneyInv(r)
    BY <2>1 DEF IndInv
  <2>3. r \in cacheEvent => (target[r] = "SUCCESS" <=> taskStatus[r] = "SUCCESS")
    BY <2>2 DEF RowInv, TaskInv, QueueInv
  <2> QED
    BY <2>2, <2>3 DEF MoneyInv
<1> QED
    BY <1>1, IndInvariant, PTL

\* refundDurableRequestBilling and MarkStaleUnboundBillingRefundPending never
\* take back the reservation of a polled task that is running or succeeded.
THEOREM OutcomeCorrect == Survivable => (Spec => []OutcomeMatchesTask)
<1>1. IndInv => OutcomeMatchesTask
  <2>1. SUFFICES ASSUME IndInv PROVE OutcomeMatchesTask
    OBVIOUS
  <2>2. \A r \in Polled : taskStatus[r] \in {"none", "LIVE", "SUCCESS", "FAILURE"}
    BY <2>1 DEF IndInv, TypeOK, TaskTypes
  <2> QED
    BY <2>1, <2>2 DEF OutcomeMatchesTask, IndInv, RowInv, TaskInv, QueueInv, Queued, PendOf, Pending
<1> QED
    BY <1>1, IndInvariant, PTL

\* CreateTaskBillingIntent finds the reservation of a running polled task untouched:
\* bound, reserved and not applied.
THEOREM LiveTaskCorrect == Survivable => (Spec => []LiveTaskIsReserved)
<1>1. IndInv => LiveTaskIsReserved
    BY DEF LiveTaskIsReserved, IndInv, RowInv, TaskInv, Queued
<1> QED
    BY <1>1, IndInvariant, PTL

\* A polled task's billing_state and quota, which CreateTaskBillingIntent and
\* applyDurableTaskBilling write beside the row, agree with it: there is never
\* anything for repairPendingTaskBillingIntents to repair.
THEOREM MirrorCorrect == Survivable => (Spec => []TaskMirrorsRow)
<1>1. IndInv => TaskMirrorsRow
  <2>1. SUFFICES ASSUME IndInv, NEW r \in Polled
                 PROVE  /\ taskBilling[r] \in Pending => state[r] # "reserved" /\ r \notin cacheEvent
                        /\ taskBilling[r] \in Done <=> r \in cacheEvent /\ bound[r]
                        /\ taskBilling[r] \in Done => taskQuota[r] = charged[r]
    BY DEF TaskMirrorsRow
  <2>2. RowInv(r) /\ TaskInv(r)
    BY <2>1 DEF IndInv
  <2> QED
    BY <2>2 DEF RowInv, TaskInv, Queued, PendOf, Pending, Done
<1> QED
    BY <1>1, IndInvariant, PTL

\* No step leaves the states settled and refunded, and none moves money or
\* counts usage for a polled task's row that was applied:
\* ReleaseBillingTransaction and late workers included.
THEOREM FinalCorrect == Survivable => (Spec => FinalIsFinal)
<1>1. SUFFICES ASSUME Survivable PROVE Spec => FinalIsFinal
    OBVIOUS
<1>2. IndInv /\ [Next]_vars =>
        [\A r \in Polled :
          /\ state[r] \in Done => state'[r] = state[r]
          /\ r \in cacheEvent => charged'[r] = charged[r] /\ usage'[r] = usage[r]]_vars
    BY <1>1, IndStep DEF Keeps, FinalStep
<1>3. Spec => []IndInv
    BY <1>1, IndInvariant
<1> QED
    BY <1>2, <1>3, PTL DEF Spec, FinalIsFinal

-----------------------------------------------------------------------------
(***************************************************************************)
(* The balances.  Every move of money that takes some is guarded by the    *)
(* balance it takes from, except the settlements outside the row, whose    *)
(* sum unguarded keeps; here every fault and every fetch is allowed.       *)
(***************************************************************************)
\* The rows a source pays for.
Of(src, s) == {r \in Requests : src[r] = s}

\* A request that has not begun has cost nothing, and its task is not there.
Untouched(r) ==
    req[r] = "idle" => /\ state[r] = "none" /\ taskStatus[r] = "none" /\ copy[r] = NoCopy
                       /\ charged[r] = 0 /\ unguarded[r] = 0

FundsInv ==
    /\ TypeOK
    /\ NoOverdraft
    /\ \A r \in Requests : Untouched(r)
    /\ \A w \in Workers : wpc[w] # "idle" => req[job[w].row] # "idle"

LEMMA FundsAreTotals ==
    /\ \A s \in Sources : Available(s) = Capacity[s] - Total(charged, Of(source, s))
    /\ \A s \in Sources : Available(s)' = Capacity[s] - Total(charged', Of(source', s))
    /\ TokenRemain = TokenCapacity - Total(tokenCharged, Requests)
    /\ TokenRemain' = TokenCapacity - Total(tokenCharged', Requests)
BY DEF Available, TokenRemain, Total, Of, MapThenSumSet, MapThenFoldSet

LEMMA SurchargesAreTotals ==
    /\ \A R : Surcharge(R) = Total(unguarded, R)
    /\ Surcharge({r \in Requests : source[r] = "wallet"})' = Total(unguarded', Of(source', "wallet"))
    /\ Surcharge(Requests \ Playground)' = Total(unguarded', Requests \ Playground)
BY DEF Surcharge, Total, Of, MapThenSumSet, MapThenFoldSet

\* What a source paid, with row r apart from the others.
LEMMA SplitOf ==
    \A f \in [Requests -> Int], r \in Requests : \A src, s :
        /\ Total(f, Of(src, s) \ {r}) \in Int
        /\ src[r] = s => Total(f, Of(src, s)) = f[r] + Total(f, Of(src, s) \ {r})
        /\ src[r] # s => Total(f, Of(src, s)) = Total(f, Of(src, s) \ {r})
<1> SUFFICES ASSUME NEW f \in [Requests -> Int], NEW r \in Requests, NEW src, NEW s
             PROVE  /\ Total(f, Of(src, s) \ {r}) \in Int
                    /\ src[r] = s => Total(f, Of(src, s)) = f[r] + Total(f, Of(src, s) \ {r})
                    /\ src[r] # s => Total(f, Of(src, s)) = Total(f, Of(src, s) \ {r})
    OBVIOUS
<1>1. /\ IsFiniteSet(Of(src, s)) /\ IsFiniteSet(Of(src, s) \ {r})
      /\ \A x \in Of(src, s) : f[x] \in Int
    BY RequestsAssumption, FS_Subset DEF Of
<1>2. Total(f, Of(src, s) \ {r}) \in Int /\ Total(f, Of(src, s)) \in Int
    BY <1>1, TotalInt
<1>3. CASE src[r] = s
  <2>1. r \in Of(src, s)
    BY <1>3 DEF Of
  <2> QED
    BY <1>1, <1>2, <1>3, <2>1, TotalRemove
<1>4. CASE src[r] # s
  <2>1. Of(src, s) \ {r} = Of(src, s)
    BY <1>4 DEF Of
  <2> QED
    BY <1>2, <1>4, <2>1
<1> QED
    BY <1>3, <1>4

\* From f and src to g and dst only row r moves, and s pays for it.
MovesAt(f, g, src, dst, r, s) ==
    /\ f \in [Requests -> Int] /\ g \in [Requests -> Int]
    /\ dst[r] = s /\ (src[r] = s \/ f[r] = 0)
    /\ \A q \in Requests \ {r} : dst[q] = src[q] /\ g[q] = f[q]

\* The sums over the rows of z follow.
SumFollows(f, g, src, dst, r, s, z) ==
    /\ Total(f, Of(src, z)) \in Int
    /\ s = z => Total(g, Of(dst, z)) = Total(f, Of(src, z)) + (g[r] - f[r])
    /\ s # z => Total(g, Of(dst, z)) = Total(f, Of(src, z))

LEMMA MovedOf ==
    \A r \in Requests : \A f, g, src, dst, s, z :
        MovesAt(f, g, src, dst, r, s) => SumFollows(f, g, src, dst, r, s, z)
<1> TAKE r \in Requests
<1> TAKE f, g, src, dst, s, z
<1> HAVE MovesAt(f, g, src, dst, r, s)
<1> USE DEF MovesAt
<1> DEFINE rest == Total(f, Of(src, z) \ {r})
<1>1. f[r] \in Int /\ g[r] \in Int
    OBVIOUS
<1>2. Total(g, Of(dst, z) \ {r}) = rest
  <2>1. Of(dst, z) \ {r} = Of(src, z) \ {r}
    BY DEF Of
  <2>2. IsFiniteSet(Of(src, z) \ {r}) /\ \A x \in Of(src, z) \ {r} : g[x] = f[x]
    BY RequestsAssumption, FS_Subset DEF Of
  <2>3. Total(g, Of(src, z) \ {r}) = rest
    BY <2>2, TotalSame
  <2> QED
    BY <2>1, <2>3
<1>3. /\ rest \in Int
      /\ src[r] = z => Total(f, Of(src, z)) = f[r] + rest
      /\ src[r] # z => Total(f, Of(src, z)) = rest
    BY SplitOf
<1>4. /\ dst[r] = z => Total(g, Of(dst, z)) = g[r] + Total(g, Of(dst, z) \ {r})
      /\ dst[r] # z => Total(g, Of(dst, z)) = Total(g, Of(dst, z) \ {r})
    BY SplitOf
<1> HIDE DEF rest
<1>5. Total(f, Of(src, z)) \in Int
    BY <1>1, <1>3
<1>6. CASE s = z
    BY <1>1, <1>2, <1>3, <1>4, <1>5, <1>6 DEF SumFollows
<1>7. CASE s # z
    BY <1>1, <1>2, <1>3, <1>4, <1>5, <1>7 DEF SumFollows
<1> QED
    BY <1>6, <1>7

\* A move of row r, which s pays for, is covered by the balances it takes from
\* or counted as unguarded: nothing is overdrawn by more than that.
LEMMA CoveredMove ==
    ASSUME TypeOK, TypeOK', NoOverdraft, NEW r \in Requests, NEW s \in Sources \cup {"none"},
           source' = [source EXCEPT ![r] = s],
           source[r] = s \/ (charged[r] = 0 /\ unguarded[r] = 0),
           \A q \in Requests \ {r} : /\ charged'[q] = charged[q]
                                     /\ tokenCharged'[q] = tokenCharged[q]
                                     /\ unguarded'[q] = unguarded[q],
           unguarded'[r] >= unguarded[r],
           s = "subscription" => \/ charged'[r] <= charged[r]
                                 \/ Available(s) >= charged'[r] - charged[r],
           s = "wallet" => \/ charged'[r] - charged[r] <= unguarded'[r] - unguarded[r]
                           \/ Available(s) >= charged'[r] - charged[r],
           r \in Playground => tokenCharged'[r] = tokenCharged[r],
           r \notin Playground =>
              \/ tokenCharged'[r] - tokenCharged[r] <= unguarded'[r] - unguarded[r]
              \/ Unlimited \/ TokenRemain >= tokenCharged'[r] - tokenCharged[r]
    PROVE  NoOverdraft'
<1> DEFINE W == Of(source, "wallet")
           T == Requests \ Playground
           dc == charged'[r] - charged[r]
           dt == tokenCharged'[r] - tokenCharged[r]
           du == unguarded'[r] - unguarded[r]
<1>0. /\ charged \in [Requests -> Int] /\ charged' \in [Requests -> Int]
      /\ tokenCharged \in [Requests -> Int] /\ tokenCharged' \in [Requests -> Int]
      /\ unguarded \in [Requests -> Nat] /\ unguarded' \in [Requests -> Nat]
      /\ source \in [Requests -> Sources \cup {"none"}]
    BY DEF TypeOK, MoneyTypes, RowTypes
<1>1. /\ charged \in [Requests -> Int] /\ charged' \in [Requests -> Int]
      /\ tokenCharged \in [Requests -> Int] /\ tokenCharged' \in [Requests -> Int]
      /\ unguarded \in [Requests -> Nat] /\ unguarded' \in [Requests -> Nat]
      /\ unguarded \in [Requests -> Int] /\ unguarded' \in [Requests -> Int]
      /\ source \in [Requests -> Sources \cup {"none"}]
  <2>1. ASSUME NEW f \in [Requests -> Nat] PROVE f \in [Requests -> Int]
    OBVIOUS
  <2> QED
    BY <1>0, <2>1
<1>2. dc \in Int /\ dt \in Int /\ du \in Int /\ du >= 0
    BY <1>1
<1>3. source'[r] = s /\ \A q \in Requests \ {r} : source'[q] = source[q]
    BY <1>1
<1>4. \A z \in Sources : /\ Available(z) \in Int
                         /\ s = z => Available(z)' = Available(z) - dc
                         /\ s # z => Available(z)' = Available(z)
  <2>1. ASSUME NEW z \in Sources
        PROVE  /\ Available(z) \in Int
               /\ s = z => Available(z)' = Available(z) - dc
               /\ s # z => Available(z)' = Available(z)
    <3> DEFINE old == Total(charged, Of(source, z))
               new == Total(charged', Of(source', z))
    <3>1. old \in Int /\ (s = z => new = old + dc) /\ (s # z => new = old)
      <4>1. source[r] = s \/ charged[r] = 0
        OBVIOUS
      <4>2. \A q \in Requests \ {r} : source'[q] = source[q] /\ charged'[q] = charged[q]
        BY <1>3
      <4>3. charged \in [Requests -> Int] /\ charged' \in [Requests -> Int] /\ source'[r] = s
        BY <1>1, <1>3
      <4> QED
        <5>1. MovesAt(charged, charged', source, source', r, s)
          BY <4>1, <4>2, <4>3 DEF MovesAt
        <5>2. SumFollows(charged, charged', source, source', r, s, z)
          BY <5>1, MovedOf, Zenon
        <5> QED
          BY <5>2 DEF SumFollows
    <3>2. Available(z) = Capacity[z] - old /\ Available(z)' = Capacity[z] - new
      BY FundsAreTotals, Zenon
    <3>3. Capacity[z] \in Int
      BY CapacityAssumption
    <3> HIDE DEF dc, old, new
    <3> QED
      BY <1>2, <3>1, <3>2, <3>3
  <2> QED
    BY <2>1
<1>12. /\ Surcharge({q \in Requests : source[q] = "wallet"}) \in Nat
       /\ Surcharge({q \in Requests : source[q] = "wallet"})' =
            Surcharge({q \in Requests : source[q] = "wallet"}) + (IF s = "wallet" THEN du ELSE 0)
  <2> DEFINE old == Total(unguarded, W)
             new == Total(unguarded', Of(source', "wallet"))
  <2>1. (s = "wallet" => new = old + du) /\ (s # "wallet" => new = old)
    <3>1. source[r] = s \/ unguarded[r] = 0
      OBVIOUS
    <3>2. \A q \in Requests \ {r} : source'[q] = source[q] /\ unguarded'[q] = unguarded[q]
      BY <1>3
    <3>3. unguarded \in [Requests -> Int] /\ unguarded' \in [Requests -> Int] /\ source'[r] = s
      BY <1>1, <1>3
    <3> QED
      <4>1. MovesAt(unguarded, unguarded', source, source', r, s)
        BY <3>1, <3>2, <3>3 DEF MovesAt
      <4>2. SumFollows(unguarded, unguarded', source, source', r, s, "wallet")
        BY <4>1, MovedOf, Zenon
      <4> QED
        BY <4>2 DEF SumFollows
  <2>2. old \in Nat
    <3>1. IsFiniteSet(W) /\ \A x \in W : unguarded[x] \in Nat
      BY <1>1, RequestsAssumption, FS_Subset DEF Of
    <3> QED
      BY <3>1, TotalNonNeg
  <2>3. /\ Surcharge({q \in Requests : source[q] = "wallet"}) = old
        /\ Surcharge({q \in Requests : source[q] = "wallet"})' = new
    BY SurchargesAreTotals DEF Of
  <2> HIDE DEF old, new, du
  <2> QED
    BY <1>2, <2>1, <2>2, <2>3
<1>5. /\ Surcharge(T) \in Nat
      /\ Surcharge(T)' = Surcharge(T) + (IF r \in Playground THEN 0 ELSE du)
  <2>1. IsFiniteSet(T) /\ \A x \in T : unguarded[x] \in Nat /\ unguarded'[x] \in Nat
    BY <1>1, RequestsAssumption, FS_Subset
  <2>2. Total(unguarded, T) \in Nat
    BY <2>1, TotalNonNeg
  <2>3. Total(unguarded', T) = Total(unguarded, T) + (IF r \in Playground THEN 0 ELSE du)
    <3>1. CASE r \in Playground
      <4>1. \A x \in T : unguarded'[x] = unguarded[x]
        BY <3>1
      <4>2. Total(unguarded', T) = Total(unguarded, T)
        BY <2>1, <4>1, TotalSame
      <4> QED
        BY <2>2, <3>1, <4>2
    <3>2. CASE r \notin Playground
      <4>1. Total(unguarded', T) = Total(unguarded, T) + (unguarded'[r] - unguarded[r])
        <5>1. /\ r \in T /\ \A x \in T \ {r} : unguarded'[x] = unguarded[x]
              /\ \A x \in T : unguarded[x] \in Int /\ unguarded'[x] \in Int
          BY <2>1, <3>2
        <5> QED
          BY <2>1, <5>1, TotalMoved
      <4> QED
        BY <3>2, <4>1
    <3> QED
      BY <3>1, <3>2
  <2> QED
    BY <2>2, <2>3, SurchargesAreTotals
<1>6. TokenRemain \in Int /\ TokenRemain' = TokenRemain - dt
  <2>1. Total(tokenCharged', Requests) = Total(tokenCharged, Requests) + dt
    BY <1>1, RequestsAssumption, TotalMoved
  <2>2. Total(tokenCharged, Requests) \in Int /\ TokenCapacity \in Int
    BY <1>1, RequestsAssumption, CapacityAssumption, TotalInt
  <2> HIDE DEF dt
  <2> QED
    BY <1>2, <2>1, <2>2, FundsAreTotals
<1>7. /\ Available("subscription") >= 0
      /\ Available("wallet") + Surcharge({q \in Requests : source[q] = "wallet"}) >= 0
      /\ Unlimited \/ TokenRemain + Surcharge(T) >= 0
    BY DEF NoOverdraft
<1>8. /\ s = "subscription" => dc <= 0 \/ Available(s) >= dc
      /\ s = "wallet" => dc <= du \/ Available(s) >= dc
      /\ r \in Playground => dt = 0
      /\ r \notin Playground => dt <= du \/ Unlimited \/ TokenRemain >= dt
    BY <1>1
<1> HIDE DEF dc, dt, du
<1>9. Available("subscription")' >= 0
  <2> DEFINE A == Available("subscription")
  <2>1. A \in Int /\ (s = "subscription" => A' = A - dc) /\ (s # "subscription" => A' = A)
    <3>1. "subscription" \in Sources
      BY DEF Sources
    <3> QED
      BY <1>4, <3>1, Zenon
  <2>2. A >= 0 /\ (s = "subscription" => dc <= 0 \/ A >= dc)
    BY <1>7, <1>8
  <2> HIDE DEF A
  <2>3. A' >= 0
    BY <1>2, <2>1, <2>2
  <2> QED
    BY <2>3 DEF A
<1>10. (Available("wallet") + Surcharge({q \in Requests : source[q] = "wallet"}))' >= 0
  <2> DEFINE A == Available("wallet")
             S == Surcharge({q \in Requests : source[q] = "wallet"})
  <2>1. A \in Int /\ (s = "wallet" => A' = A - dc) /\ (s # "wallet" => A' = A)
    <3>1. "wallet" \in Sources
      BY DEF Sources
    <3> QED
      BY <1>4, <3>1, Zenon
  <2>2. S \in Nat /\ S' = S + (IF s = "wallet" THEN du ELSE 0) /\ A + S >= 0
    BY <1>7, <1>12
  <2>3. s = "wallet" => dc <= du \/ A >= dc
    BY <1>8
  <2> HIDE DEF A, S
  <2>4. A' + S' >= 0
    BY <1>2, <2>1, <2>2, <2>3
  <2> QED
    BY <2>4 DEF A, S
<1>11. Unlimited \/ (TokenRemain + Surcharge(T))' >= 0
    BY <1>2, <1>5, <1>6, <1>7, <1>8
<1> QED
    BY <1>9, <1>10, <1>11 DEF NoOverdraft

\* A move that looks at the balances.
LEMMA GuardedMove ==
    ASSUME TypeOK, TypeOK', NoOverdraft, NEW r \in Requests, NEW s \in Sources \cup {"none"},
           NEW d \in Int, CanMove(r, s, d), Move(r, d),
           source' = [source EXCEPT ![r] = s],
           source[r] = s \/ (charged[r] = 0 /\ unguarded[r] = 0)
    PROVE  NoOverdraft'
<1>1. /\ charged'[r] = charged[r] + d
      /\ tokenCharged'[r] = IF r \in Playground THEN tokenCharged[r] ELSE tokenCharged[r] + d
      /\ \A q \in Requests \ {r} : charged'[q] = charged[q] /\ tokenCharged'[q] = tokenCharged[q]
    BY MoveFacts
<1>2. unguarded' = unguarded /\ unguarded[r] \in Nat /\ charged[r] \in Int /\ tokenCharged[r] \in Int
    BY DEF Move, TypeOK, MoneyTypes
<1>3. /\ d > 0 /\ s \in Sources => Available(s) >= d
      /\ d > 0 /\ r \notin Playground => Unlimited \/ TokenRemain >= d
    BY DEF CanMove, CanFund, CanToken
<1>4. s \in Sources => charged'[r] <= charged[r] \/ Available(s) >= charged'[r] - charged[r]
    BY <1>1, <1>2, <1>3
<1>5. s = "wallet" => \/ charged'[r] - charged[r] <= unguarded'[r] - unguarded[r]
                      \/ Available(s) >= charged'[r] - charged[r]
    BY <1>1, <1>2, <1>3 DEF Sources
<1>6. r \notin Playground =>
        \/ tokenCharged'[r] - tokenCharged[r] <= unguarded'[r] - unguarded[r]
        \/ Unlimited \/ TokenRemain >= tokenCharged'[r] - tokenCharged[r]
    BY <1>1, <1>2, <1>3
<1>7. unguarded'[r] >= unguarded[r]
    BY <1>2
<1> QED
    BY <1>1, <1>2, <1>4, <1>5, <1>6, <1>7, CoveredMove DEF Sources

\* A move that does not, and what it charges is counted.
LEMMA LegacyMoveCovered ==
    ASSUME TypeOK, TypeOK', NoOverdraft, NEW r \in Requests, NEW d \in Int, LegacyMove(r, d),
           source' = source, source[r] = "subscription" => d <= 0 \/ Available("subscription") >= d
    PROVE  NoOverdraft'
<1> DEFINE s == source[r]
<1>1. /\ charged \in [Requests -> Int] /\ tokenCharged \in [Requests -> Int]
      /\ unguarded \in [Requests -> Nat] /\ source \in [Requests -> Sources \cup {"none"}]
    BY DEF TypeOK, MoneyTypes, RowTypes
<1>2. /\ charged'[r] = charged[r] + d \/ charged'[r] = charged[r]
      /\ tokenCharged'[r] = tokenCharged[r] + d \/ tokenCharged'[r] = tokenCharged[r]
      /\ r \in Playground => tokenCharged'[r] = tokenCharged[r]
      /\ unguarded'[r] = IF d > 0 THEN unguarded[r] + d ELSE unguarded[r]
    BY <1>1 DEF LegacyMove
<1>3. \A q \in Requests \ {r} : /\ charged'[q] = charged[q]
                                /\ tokenCharged'[q] = tokenCharged[q]
                                /\ unguarded'[q] = unguarded[q]
    BY <1>1 DEF LegacyMove
<1>4. /\ charged[r] \in Int /\ tokenCharged[r] \in Int /\ unguarded[r] \in Nat
      /\ s \in Sources \cup {"none"} /\ source' = [source EXCEPT ![r] = s]
    BY <1>1
<1>5. unguarded'[r] >= unguarded[r]
    BY <1>2, <1>4
<1>6. /\ charged'[r] - charged[r] <= unguarded'[r] - unguarded[r]
      /\ tokenCharged'[r] - tokenCharged[r] <= unguarded'[r] - unguarded[r]
    BY <1>2, <1>4
<1>7. s = "subscription" => charged'[r] <= charged[r] \/ Available(s) >= charged'[r] - charged[r]
  <2>1. CASE charged'[r] = charged[r] \/ d <= 0
    BY <1>2, <1>4, <2>1
  <2>2. CASE charged'[r] = charged[r] + d /\ s = "subscription" /\ Available("subscription") >= d
    BY <1>4, <2>2
  <2> QED
    BY <1>2, <2>1, <2>2
<1> HIDE DEF s
<1>8. source[r] = s
    BY DEF s
<1> QED
    BY <1>2, <1>3, <1>4, <1>5, <1>6, <1>7, <1>8, CoveredMove

\* The settlements and refunds outside the row.
LEMMA LegacyCovered ==
    ASSUME TypeOK, TypeOK', NoOverdraft, NEW r \in Requests, NEW q \in Nat,
           LegacySettle(r, q) \/ LegacyRefund(r, q), source' = source
    PROVE  NoOverdraft'
<1>1. CASE LegacyRefund(r, q)
  <2>1. PICK d \in Int : d <= 0 /\ LegacyMove(r, d)
    BY <1>1 DEF LegacyRefund
  <2> QED
    BY <2>1, LegacyMoveCovered
<1>2. CASE LegacySettle(r, q)
  <2>1. PICK fin \in Nat :
          /\ LegacyMove(r, fin - q)
          /\ source[r] = "subscription" => fin = q \/ CanFund("subscription", fin - q)
    BY <1>2, LegacySettleFacts
  <2>2. fin - q \in Int /\ (fin = q => fin - q <= 0)
    OBVIOUS
  <2>3. source[r] = "subscription" => fin - q <= 0 \/ Available("subscription") >= fin - q
    BY <2>1, <2>2 DEF CanFund
  <2> QED
    BY <2>1, <2>2, <2>3, LegacyMoveCovered
<1> QED
    BY <1>1, <1>2

\* A step that moves no money.
LEMMA NothingMoved ==
    ASSUME NoOverdraft, UNCHANGED <<charged, tokenCharged, unguarded, source>>
    PROVE  NoOverdraft'
<1>1. /\ \A s \in Sources : Available(s)' = Available(s)
      /\ TokenRemain' = TokenRemain
    BY FundsAreTotals
<1>2. /\ Surcharge({r \in Requests : source[r] = "wallet"})' =
           Surcharge({r \in Requests : source[r] = "wallet"})
      /\ Surcharge(Requests \ Playground)' = Surcharge(Requests \ Playground)
    BY SurchargesAreTotals DEF Of
<1> QED
    BY <1>1, <1>2 DEF NoOverdraft, Sources

\* A step that leaves the untouched requests untouched.
LEMMA UntouchedStep ==
    ASSUME FundsInv, TypeOK', NoOverdraft',
           \A r \in Requests : req'[r] = "idle" =>
               /\ req[r] = "idle"
               /\ state'[r] = state[r] /\ taskStatus'[r] = taskStatus[r] /\ copy'[r] = copy[r]
               /\ charged'[r] = charged[r] /\ unguarded'[r] = unguarded[r],
           \A w \in Workers : wpc'[w] # "idle" =>
               req[job'[w].row] # "idle" /\ job'[w].row \in Requests
    PROVE  FundsInv'
BY DEF FundsInv, Untouched

\* A step of a request that has begun, or begins with it, or of its task.
LEMMA OneRequestKeepsFunds ==
    ASSUME FundsInv, TypeOK', NoOverdraft', NEW r \in Requests, req'[r] # "idle",
           UNCHANGED worker, \A q \in Requests \ {r} : Same(q),
           Only(unguarded, unguarded', r), Only(copy, copy', r)
    PROVE  FundsInv'
<1>1. \A q \in Requests \ {r} : unguarded'[q] = unguarded[q] /\ copy'[q] = copy[q]
    BY DEF FundsInv, TypeOK, MoneyTypes, WorldTypes, Only
<1>2. \A q \in Requests \ {r} : /\ state'[q] = state[q] /\ taskStatus'[q] = taskStatus[q]
                                /\ req'[q] = req[q] /\ charged'[q] = charged[q]
    BY DEF Same
<1>3. \A q \in Requests : Untouched(q)'
    BY <1>1, <1>2 DEF FundsInv, Untouched
<1>4. \A w \in Workers : wpc'[w] # "idle" => req'[job'[w].row] # "idle"
  <2>1. \A w \in Workers : job[w].row \in Requests
    BY JobType DEF FundsInv
  <2> QED
    BY <1>2, <2>1 DEF FundsInv, worker
<1> QED
    BY <1>3, <1>4 DEF FundsInv

LEMMA FundsInit == Init => FundsInv
<1> SUFFICES ASSUME Init PROVE FundsInv
    OBVIOUS
<1>1. TypeOK
    BY TypeInit
<1>2. \A r \in Requests : Untouched(r)
    BY DEF Init, Untouched
<1>3. \A w \in Workers : wpc[w] = "idle"
    BY DEF Init
<1>4. ASSUME NEW f, f = [r \in Requests |-> 0], NEW S \in SUBSET Requests PROVE Total(f, S) = 0
  <2>1. IsFiniteSet(S) /\ \A x \in S : f[x] = 0
    BY <1>4, RequestsAssumption, FS_Subset
  <2> QED
    BY <2>1, TotalZero
<1>5. NoOverdraft
  <2>1. \A s \in Sources : Total(charged, Of(source, s)) = 0
    BY <1>4 DEF Init, Of
  <2>2. Total(tokenCharged, Requests) = 0
    BY <1>4 DEF Init
  <2>3. /\ Surcharge({r \in Requests : source[r] = "wallet"}) = 0
        /\ Surcharge(Requests \ Playground) = 0
    BY <1>4, SurchargesAreTotals DEF Init
  <2>4. \A s \in Sources : Capacity[s] \in Nat
    BY CapacityAssumption
  <2> QED
    BY <2>1, <2>2, <2>3, <2>4, CapacityAssumption, FundsAreTotals DEF NoOverdraft, Sources
<1> QED
    BY <1>1, <1>2, <1>3, <1>5 DEF FundsInv

LEMMA ReserveKeepsFunds ==
    ASSUME FundsInv, TypeOK', NEW r \in Requests, Reserve(r) \/ ReserveAckLost(r)
    PROVE  NoOverdraft' /\ UNCHANGED unguarded
<1>1. PICK q \in Quotas \ {0}, s \in Sources : Chosen(r, q, s) /\ CreateRow(r, q, s)
    BY DEF Reserve, ReserveAckLost
<1>2. TypeOK /\ NoOverdraft /\ Untouched(r) /\ req[r] = "idle"
    BY DEF FundsInv, Reserve, ReserveAckLost
<1>3. charged[r] = 0 /\ unguarded[r] = 0
    BY <1>2 DEF Untouched
<1>4. CanMove(r, s, q) /\ q \in Int
    BY <1>1, QuotasAssumption DEF Chosen
<1>5. Move(r, q) /\ source' = [source EXCEPT ![r] = s]
    BY <1>1 DEF CreateRow
<1>6. NoOverdraft'
    BY <1>2, <1>3, <1>4, <1>5, GuardedMove
<1> QED
    BY <1>5, <1>6 DEF Move

LEMMA HoldKeepsFunds ==
    ASSUME FundsInv, TypeOK', NEW r \in Requests, HoldCommit(r) \/ HoldAckLost(r)
    PROVE  NoOverdraft' /\ UNCHANGED unguarded
<1>1. AdjustReservation(r)
    BY DEF HoldCommit, HoldAckLost
<1>2. TypeOK /\ NoOverdraft
    BY DEF FundsInv
<1>3. want[r] - session[r] \in Int
    BY <1>2 DEF TypeOK, RequestTypes
<1>4. /\ CanMove(r, source[r], want[r] - session[r]) /\ Move(r, want[r] - session[r])
      /\ source' = source
    BY <1>1 DEF AdjustReservation
<1>5. source' = [source EXCEPT ![r] = source[r]] /\ source[r] \in Sources \cup {"none"}
    BY <1>2, <1>4 DEF TypeOK, RowTypes
<1>6. NoOverdraft'
    BY <1>2, <1>3, <1>4, <1>5, GuardedMove
<1> QED
    BY <1>4, <1>6 DEF Move

LEMMA RequestKeepsFunds ==
    ASSUME FundsInv, TypeOK', NEW r \in Requests, RequestStep(r)
    PROVE  FundsInv'
<1>1. TypeOK /\ NoOverdraft
    BY DEF FundsInv
<1>2. UNCHANGED worker /\ \A q \in Requests \ {r} : Same(q)
    BY <1>1, RequestIsLocal
<1>3. NoOverdraft' /\ UNCHANGED unguarded
  <2>1. CASE QuietRequest(r)
    <3>1. UNCHANGED <<charged, tokenCharged, unguarded, source>>
      BY <2>1 DEF QuietRequest, ReserveRefused, UpstreamAccepts, UpstreamFails, HoldRead,
             HoldRollback, BindRollback, RefundError, RequestCrash, row, money
    <3> QED
      BY <1>1, <3>1, NothingMoved
  <2>2. CASE Bind(r) \/ BindAckLost(r) \/ Refund(r)
    <3>1. UNCHANGED <<charged, tokenCharged, unguarded, source>>
      BY <2>2 DEF Bind, BindAckLost, BindTask, Refund, money
    <3> QED
      BY <1>1, <3>1, NothingMoved
  <2> QED
    BY <2>1, <2>2, ReserveKeepsFunds, HoldKeepsFunds DEF RequestStep, QuietRequest
<1>4. copy' = copy
    BY DEF RequestStep, Reserve, ReserveAckLost, ReserveRefused, UpstreamAccepts, UpstreamFails,
           HoldRead, HoldCommit, HoldAckLost, HoldRollback, Bind, BindAckLost, BindRollback,
           Refund, RefundError, RequestCrash, NoFault, Fault
<1>5. \E x \in {"upstream", "accepted", "holding", "held", "refunding", "done", "dead"} :
        req' = [req EXCEPT ![r] = x]
  <2>1. CASE HoldRead(r)
    BY <2>1, Zenon DEF HoldRead
  <2>2. CASE HoldCommit(r) \/ HoldAckLost(r)
    BY <2>2 DEF HoldCommit, HoldAckLost, AdjustReservation
  <2> QED
    BY <2>1, <2>2 DEF RequestStep, Reserve, ReserveAckLost, ReserveRefused, UpstreamAccepts,
           UpstreamFails, HoldRollback, Bind, BindAckLost, BindRollback, Refund, RefundError,
           RequestCrash
<1>6. req'[r] # "idle"
    BY <1>1, <1>5 DEF TypeOK, RequestTypes
<1> QED
    BY <1>2, <1>3, <1>4, <1>6, OneRequestKeepsFunds DEF Only

\* The end of a task, whoever bills it, and a fetch of it.
LEMMA TaskKeepsFunds ==
    ASSUME FundsInv, TypeOK', NEW r \in Requests, TaskStep(r) \/ FetchStep(r)
    PROVE  FundsInv'
<1>1. TypeOK /\ NoOverdraft /\ Untouched(r)
    BY DEF FundsInv
<1>2. UNCHANGED worker /\ \A q \in Requests \ {r} : Same(q)
    BY <1>1, TaskIsLocal
<1>3. UNCHANGED <<source, req>>
    BY DEF TaskStep, TaskSucceeds, TaskFails, TaskEndsUntracked, TaskSettlesUntracked,
           TaskRefundsUntracked, TaskRefundsTwice, LostRaceRefund, TaskIntent, TaskEnds,
           FetchStep, FetchTask, FetchDropped, FetchChangesEnd, FetchSaves, FetchSavesUntracked,
           SaveCopy, row, request
<1>4. taskStatus[r] # "none" \/ copy[r] # NoCopy
    BY DEF TaskStep, TaskSucceeds, TaskFails, TaskEndsUntracked, TaskSettlesUntracked,
           TaskRefundsUntracked, TaskRefundsTwice, LostRaceRefund, TaskIntent, TaskEnds,
           FetchStep, FetchTask, FetchDropped, FetchChangesEnd, FetchSaves, FetchSavesUntracked,
           FetchEnds
<1>5. req'[r] # "idle"
    BY <1>1, <1>3, <1>4 DEF Untouched
<1>6. Only(copy, copy', r)
    BY DEF TaskStep, TaskSucceeds, TaskFails, TaskEndsUntracked, TaskSettlesUntracked,
           TaskRefundsUntracked, TaskRefundsTwice, LostRaceRefund, TaskEnds,
           FetchStep, FetchTask, FetchDropped, FetchChangesEnd, FetchSaves, FetchSavesUntracked,
           FetchEnds, NoFault, Fault, Only
<1>7. \/ UNCHANGED money
      \/ \E q \in Nat : LegacySettle(r, q) \/ LegacyRefund(r, q)
  <2>1. taskQuota[r] \in Nat /\ want[r] \in Nat /\ copy[r].quota \in Nat
    BY <1>1 DEF TypeOK, TaskTypes, RequestTypes, WorldTypes, Copies
  <2> QED
    BY <2>1 DEF TaskStep, TaskSucceeds, TaskFails, TaskEndsUntracked, TaskSettlesUntracked,
           TaskRefundsUntracked, TaskRefundsTwice, LostRaceRefund,
           FetchStep, FetchTask, FetchDropped, FetchChangesEnd, FetchSaves, FetchSavesUntracked,
           SaveCopy
<1>8. NoOverdraft' /\ Only(unguarded, unguarded', r)
  <2>1. CASE UNCHANGED money
    BY <1>1, <1>3, <2>1, NothingMoved DEF money, Only
  <2>2. CASE \E q \in Nat : LegacySettle(r, q) \/ LegacyRefund(r, q)
    <3>1. PICK q \in Nat : LegacySettle(r, q) \/ LegacyRefund(r, q)
      BY <2>2
    <3>2. NoOverdraft'
      BY <1>1, <1>3, <3>1, LegacyCovered
    <3>3. \E d : LegacyMove(r, d)
      BY <3>1 DEF LegacySettle, LegacyRefund
    <3> QED
      BY <3>2, <3>3 DEF LegacyMove, Only
  <2> QED
    BY <1>7, <2>1, <2>2
<1> QED
    BY <1>2, <1>5, <1>6, <1>8, OneRequestKeepsFunds

\* The pass of a worker: what it applies is guarded, the rest moves nothing.
LEMMA WorkerKeepsFunds ==
    ASSUME FundsInv, TypeOK', NEW w \in Workers, WorkerStep(w)
    PROVE  FundsInv'
<1> DEFINE r == job[w].row
           Same4 == UNCHANGED <<charged, tokenCharged, unguarded, source>>
           JobsOK == \A v \in Workers : wpc'[v] # "idle" =>
                        req[job'[v].row] # "idle" /\ job'[v].row \in Requests
           RowsOK == \A x \in Requests : req[x] = "idle" =>
                        state'[x] = state[x] /\ charged'[x] = charged[x]
<1>1. TypeOK /\ NoOverdraft /\ r \in Requests /\ (wpc[w] # "idle" => req[r] # "idle")
    BY JobType DEF FundsInv
<1>2. UNCHANGED <<request, taskStatus, unguarded, copy>>
    BY DEF WorkerStep, MarkStale, Pick, Claim, ClaimLost, ApplyRead, ApplyCommit, ApplyAckLost,
           ApplyRollback, Release, ReleaseError, WorkerCrash, Apply, Move, task, money, NoFault, Fault
<1>3. \A v \in Workers : job[v].row \in Requests /\ (wpc[v] # "idle" => req[job[v].row] # "idle")
    BY <1>1, JobType DEF FundsInv
<1>4. \A x \in Requests : state[x] # "none" => req[x] # "idle"
    BY DEF FundsInv, Untouched
<1>5. ASSUME NoOverdraft', JobsOK, RowsOK PROVE FundsInv'
    BY <1>2, <1>5, UntouchedStep DEF request
<1>6. CASE MarkStale(w)
  <2>1. Same4 /\ UNCHANGED worker /\ charged' = charged
    BY <1>6 DEF MarkStale, money
  <2>2. \A x \in Requests : req[x] = "idle" => state'[x] = state[x]
    BY <1>1, <1>4, <1>6 DEF MarkStale, RefundIntent, TypeOK, RowTypes
  <2> QED
    BY <1>1, <1>3, <1>5, <2>1, <2>2, NothingMoved DEF worker
<1>7. CASE \E q \in Requests : Pick(w, q)
  <2>1. PICK q \in Requests : Pick(w, q)
    BY <1>7
  <2>2. Same4 /\ UNCHANGED <<state, charged>>
    BY <2>1 DEF Pick, row, money
  <2>3. req[q] # "idle"
    BY <1>4, <2>1 DEF Pick, Due, Pending
  <2>4. JobsOK
    BY <1>1, <1>3, <2>1, <2>3 DEF Pick, TypeOK, WorkerTypes
  <2> QED
    BY <1>1, <1>5, <2>2, <2>4, NothingMoved
<1>8. ASSUME EndPass(w) \/ FailApply(w), wpc[w] # "idle" PROVE JobsOK
    BY <1>1, <1>3, <1>8 DEF EndPass, FailApply, TypeOK, WorkerTypes
<1>9. CASE Claim(w) \/ ApplyRead(w) \/ ClaimLost(w) \/ ApplyRollback(w) \/ Release(w)
           \/ ReleaseError(w) \/ WorkerCrash(w)
  <2>1. Same4 /\ wpc[w] # "idle"
    BY <1>9 DEF Claim, ApplyRead, ClaimLost, ApplyRollback, Release, ReleaseError, WorkerCrash, row, money
  <2>2. \A x \in Requests \ {r} : state'[x] = state[x]
    BY <1>1, <1>9 DEF Claim, ApplyRead, ClaimLost, ApplyRollback, Release, ReleaseError, WorkerCrash,
                      row, TypeOK, RowTypes
  <2>3. JobsOK
    <3>1. CASE Claim(w) \/ ApplyRead(w)
      BY <1>1, <1>3, <2>1, <3>1 DEF Claim, ApplyRead, TypeOK, WorkerTypes
    <3>2. CASE ~(Claim(w) \/ ApplyRead(w))
      BY <1>8, <1>9, <2>1, <3>2 DEF ClaimLost, ApplyRollback, Release, ReleaseError, WorkerCrash
    <3> QED
      BY <3>1, <3>2
  <2> QED
    BY <1>1, <1>5, <2>1, <2>2, <2>3, NothingMoved
<1>10. CASE ApplyCommit(w) \/ ApplyAckLost(w)
  <2> DEFINE d == FinalQuota(view[w]) - view[w].reserved
  <2>1. Apply(w) /\ (EndPass(w) \/ FailApply(w)) /\ wpc[w] # "idle"
    BY <1>10 DEF ApplyCommit, ApplyAckLost
  <2>2. d \in Int
    BY <1>1, JobType
  <2>3. CanMove(r, source[r], d) /\ Move(r, d) /\ source' = source
    BY <2>1 DEF Apply, CanApply
  <2>4. source' = [source EXCEPT ![r] = source[r]] /\ source[r] \in Sources \cup {"none"}
    BY <1>1, <2>3 DEF TypeOK, RowTypes
  <2>5. NoOverdraft'
    <3> HIDE DEF d, r
    <3> QED
      BY <1>1, <2>2, <2>3, <2>4, GuardedMove
  <2>6. \A x \in Requests \ {r} : charged'[x] = charged[x]
    BY <1>1, <2>2, <2>3, MoveFacts
  <2>7. \A x \in Requests \ {r} : state'[x] = state[x]
    BY <1>1, <2>1 DEF Apply, TypeOK, RowTypes
  <2> QED
    BY <1>1, <1>5, <1>8, <2>1, <2>5, <2>6, <2>7
<1> QED
    BY <1>6, <1>7, <1>9, <1>10 DEF WorkerStep

LEMMA FundsStep ==
    ASSUME FundsInv, [Next]_vars
    PROVE  FundsInv'
<1>1. TypeOK'
    BY TypeStep DEF FundsInv
<1>2. ASSUME NEW r \in Requests, RequestStep(r) PROVE FundsInv'
    BY <1>1, <1>2, RequestKeepsFunds
<1>3. ASSUME NEW r \in Requests, TaskStep(r) \/ FetchStep(r) PROVE FundsInv'
    BY <1>1, <1>3, TaskKeepsFunds
<1>4. ASSUME NEW w \in Workers, WorkerStep(w) PROVE FundsInv'
    BY <1>1, <1>4, WorkerKeepsFunds
<1>5. ASSUME \/ \E r \in Requests : ClockStep(r)
             \/ \E x \in Deletable : Delete(x)
             \/ UNCHANGED vars
      PROVE FundsInv'
  <2>1. UNCHANGED <<charged, tokenCharged, unguarded, source, state, taskStatus, req, worker, copy>>
    <3>1. CASE UNCHANGED vars
      BY <3>1 DEF vars, row, money, task, request
    <3>2. CASE \E r \in Requests : ClockStep(r)
      BY <3>2 DEF ClockStep, Age, LeaseTimeout, LeaseLost, RetryDue, RetryOverdue, ExpireLease,
                  EndBackoff, money, task, request, NoFault, Fault
    <3>3. CASE \E x \in Deletable : Delete(x)
      BY <3>3 DEF Delete, row, money, task, request
    <3> QED
      BY <1>5, <3>1, <3>2, <3>3
  <2>2. NoOverdraft'
    BY <2>1, NothingMoved DEF FundsInv
  <2>3. \A w \in Workers : wpc'[w] # "idle" => req[job'[w].row] # "idle" /\ job'[w].row \in Requests
    BY <2>1, JobType DEF FundsInv, worker
  <2> QED
    BY <1>1, <2>1, <2>2, <2>3, UntouchedStep
<1> QED
    BY <1>2, <1>3, <1>4, <1>5, RealtimeAssumption DEF Next

\* The guards "quota >= ?" of adjustDurableFundingTx and AdjustTokenQuotaTx,
\* evaluated where the money is moved, keep the subscription from being
\* overdrawn, and the wallet and a limited token too but for what
\* settleTaskBillingOnComplete charges unguarded: for any number of concurrent
\* requests, workers and realtime fetches, and any fault.
THEOREM NoOverdraftCorrect == Spec => []NoOverdraft
<1>1. Init => FundsInv
    BY FundsInit
<1>2. FundsInv /\ [Next]_vars => FundsInv'
    BY FundsStep
<1>3. FundsInv => NoOverdraft
    BY DEF FundsInv
<1> QED
    BY <1>1, <1>2, <1>3, PTL DEF Spec
=============================================================================
