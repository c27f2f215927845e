------------------------- MODULE BillingLedgerProofs -------------------------
(***************************************************************************)
(* Durable billing of polled tasks implements BillingLedger, for any       *)
(* requests, workers and amounts and any faults the code has an answer to, *)
(* whatever realtime fetches do to the other tasks.  The ledger is a       *)
(* function of each request, so a step is mapped pointwise: it takes one   *)
(* request from one entry of the ledger to another and leaves the entries  *)
(* of the others alone.                                                    *)
(***************************************************************************)
EXTENDS DurableBillingProofs

SameEntry(q) ==
    /\ Phase(q)' = Phase(q) /\ charged'[q] = charged[q]
    /\ taskStatus'[q] = taskStatus[q] /\ Price(q)' = Price(q)

\* The steps of the ledger, seen from the request that takes them.
HoldEntry(r) ==
    /\ Phase(r) = "none" /\ Phase(r)' = "held" /\ charged'[r] \in Nat
    /\ taskStatus'[r] = taskStatus[r] /\ Price(r)' = Price(r)
AdjustEntry(r) ==
    /\ Phase(r) = "held" /\ taskStatus[r] = "none" /\ charged'[r] \in Nat
    /\ Phase(r)' = Phase(r) /\ taskStatus'[r] = taskStatus[r] /\ Price(r)' = Price(r)
StartEntry(r) ==
    /\ Phase(r) = "held" /\ taskStatus[r] = "none" /\ taskStatus'[r] = "LIVE"
    /\ Phase(r)' = Phase(r) /\ charged'[r] = charged[r] /\ Price(r)' = Price(r)
FinishEntry(r) ==
    /\ Phase(r) = "held" /\ taskStatus[r] = "LIVE"
    /\ taskStatus'[r] \in {"SUCCESS", "FAILURE"}
    /\ Phase(r)' = Phase(r) /\ charged'[r] = charged[r]
CloseEntry(r) ==
    /\ Phase(r) = "held"
    /\ \/ /\ taskStatus[r] = "SUCCESS"
          /\ Phase(r)' = "charged" /\ charged'[r] = Price(r)
       \/ /\ taskStatus[r] \in {"none", "FAILURE"}
          /\ Phase(r)' = "returned" /\ charged'[r] = 0
    /\ taskStatus'[r] = taskStatus[r] /\ Price(r)' = Price(r)

Entries == <<[r \in Polled |-> Phase(r)], [r \in Polled |-> charged[r]],
             [r \in Polled |-> taskStatus[r]], [r \in Polled |-> Price(r)]>>
LedgerStep == Ledger!Next \/ Entries' = Entries

-----------------------------------------------------------------------------
USE DEF Polled

LEMMA SameEntries ==
    ASSUME \A q \in Polled : SameEntry(q)
    PROVE  Entries' = Entries
<1>1. [r \in Polled |-> charged[r]]' = [r \in Polled |-> charged[r]]
    BY DEF SameEntry
<1>2. [r \in Polled |-> taskStatus[r]]' = [r \in Polled |-> taskStatus[r]]
    BY DEF SameEntry
<1>3. [r \in Polled |-> Phase(r)]' = [r \in Polled |-> Phase(r)]
    BY DEF SameEntry
<1>4. [r \in Polled |-> Price(r)]' = [r \in Polled |-> Price(r)]
    BY DEF SameEntry
<1> QED
    BY <1>1, <1>2, <1>3, <1>4 DEF Entries

LEMMA EntryStep ==
    ASSUME TypeOK, TypeOK', NEW r \in Polled,
           \A q \in Polled \ {r} : SameEntry(q),
           \/ SameEntry(r) \/ HoldEntry(r) \/ AdjustEntry(r) \/ StartEntry(r)
           \/ FinishEntry(r) \/ CloseEntry(r)
    PROVE  LedgerStep
<1> DEFINE phase == [q \in Polled |-> Phase(q)]
           paid  == [q \in Polled |-> charged[q]]
           ended == [q \in Polled |-> taskStatus[q]]
           price == [q \in Polled |-> Price(q)]
<1>1. taskStatus'[r] \in {"none", "LIVE", "SUCCESS", "FAILURE"} /\ final'[r] \in Nat
    BY DEF TypeOK, TaskTypes, RowTypes
<1>2. /\ paid' = [paid EXCEPT ![r] = charged'[r]]
      /\ ended' = [ended EXCEPT ![r] = taskStatus'[r]]
    BY DEF SameEntry
<1>3. phase' = [phase EXCEPT ![r] = Phase(r)']
    BY DEF SameEntry
<1>4. \A q \in Polled \ {r} : Price(q)' = Price(q)
    BY DEF SameEntry
<1>5. /\ Price(r)' \in Nat /\ (taskStatus'[r] = "FAILURE" => Price(r)' = 0)
    BY <1>1 DEF Price
<1>6. CASE SameEntry(r)
    BY <1>6, SameEntries DEF LedgerStep
<1>7. CASE HoldEntry(r)
  <2>1. ended' = ended /\ price' = price
    BY <1>1, <1>2, <1>4, <1>7 DEF HoldEntry
  <2>2. phase[r] = "none" /\ phase' = [phase EXCEPT ![r] = "held"]
    BY <1>3, <1>7 DEF HoldEntry
  <2>3. paid'[r] \in Nat /\ \A q \in Polled \ {r} : paid'[q] = paid[q]
    BY <1>7 DEF HoldEntry, SameEntry
  <2>4. Ledger!Hold(r)
    BY <2>1, <2>2, <2>3 DEF Ledger!Hold, Ledger!PaysSome
  <2> QED
    BY <2>4 DEF LedgerStep, Ledger!Next
<1>8. CASE AdjustEntry(r)
  <2>1. ended' = ended /\ price' = price
    BY <1>1, <1>2, <1>4, <1>8 DEF AdjustEntry
  <2>2. phase[r] = "held" /\ ended[r] = "none" /\ phase' = phase
    BY <1>3, <1>8 DEF AdjustEntry, SameEntry
  <2>3. paid'[r] \in Nat /\ \A q \in Polled \ {r} : paid'[q] = paid[q]
    BY <1>8 DEF AdjustEntry, SameEntry
  <2>4. Ledger!Adjust(r)
    BY <2>1, <2>2, <2>3 DEF Ledger!Adjust, Ledger!PaysSome
  <2> QED
    BY <2>4 DEF LedgerStep, Ledger!Next
<1>9. CASE StartEntry(r)
  <2>1. paid' = paid /\ price' = price
    BY <1>1, <1>2, <1>4, <1>9 DEF StartEntry
  <2>2. phase[r] = "held" /\ ended[r] = "none" /\ phase' = phase
    BY <1>3, <1>9 DEF StartEntry, SameEntry
  <2>3. ended' = [ended EXCEPT ![r] = "LIVE"]
    BY <1>2, <1>9 DEF StartEntry
  <2>4. Ledger!Start(r)
    BY <2>1, <2>2, <2>3 DEF Ledger!Start
  <2> QED
    BY <2>4 DEF LedgerStep, Ledger!Next
<1>10. CASE FinishEntry(r)
  <2>1. paid' = paid
    BY <1>1, <1>2, <1>10 DEF FinishEntry
  <2>2. phase[r] = "held" /\ ended[r] = "LIVE" /\ phase' = phase
    BY <1>3, <1>10 DEF FinishEntry, SameEntry
  <2>3. ended' \in {[ended EXCEPT ![r] = "SUCCESS"], [ended EXCEPT ![r] = "FAILURE"]}
    BY <1>2, <1>10 DEF FinishEntry
  <2>4. /\ price'[r] \in Nat /\ (ended'[r] = "FAILURE" => price'[r] = 0)
        /\ \A q \in Polled \ {r} : price'[q] = price[q]
    BY <1>4, <1>5
  <2>5. Ledger!Finish(r)
    BY <2>1, <2>2, <2>3, <2>4 DEF Ledger!Finish
  <2> QED
    BY <2>5 DEF LedgerStep, Ledger!Next
<1>11. CASE CloseEntry(r)
  <2>1. ended' = ended /\ price' = price
    BY <1>1, <1>2, <1>4, <1>11 DEF CloseEntry
  <2>2. phase[r] = "held" /\ price[r] = Price(r) /\ ended[r] = taskStatus[r]
    BY <1>11 DEF CloseEntry
  <2>3. CASE /\ taskStatus[r] = "SUCCESS"
             /\ Phase(r)' = "charged" /\ charged'[r] = Price(r)
    <3>1. Ledger!Charge(r)
      BY <1>2, <1>3, <2>1, <2>2, <2>3 DEF Ledger!Charge
    <3> QED
      BY <3>1 DEF LedgerStep, Ledger!Next
  <2>4. CASE /\ taskStatus[r] \in {"none", "FAILURE"}
             /\ Phase(r)' = "returned" /\ charged'[r] = 0
    <3>1. Ledger!GiveBack(r)
      BY <1>2, <1>3, <2>1, <2>2, <2>4 DEF Ledger!GiveBack
    <3> QED
      BY <3>1 DEF LedgerStep, Ledger!Next
  <2> QED
    BY <1>11, <2>3, <2>4 DEF CloseEntry
<1> QED
    BY <1>6, <1>7, <1>8, <1>9, <1>10, <1>11

-----------------------------------------------------------------------------
\* Nothing of a request's ledger entry changes unless its state, target, final
\* quota, balance, task or cache event does.
LEMMA SameSameEntry ==
    ASSUME NEW q \in Polled, Same(q)
    PROVE  SameEntry(q)
BY DEF Same, SameEntry, Phase, Price

LEMMA SameLedger ==
    ASSUME \A q \in Polled : Same(q)
    PROVE  LedgerStep
BY SameSameEntry, SameEntries DEF LedgerStep

\* What a row has cost is the user's natural number of quota units.
LEMMA ChargedNat ==
    ASSUME IndInv', NEW r \in Polled
    PROVE  charged'[r] \in Nat
<1>1. charged'[r] = Owed(r)' /\ reserved'[r] \in Nat /\ final'[r] \in Nat
    BY DEF IndInv, MoneyInv, TypeOK, RowTypes
<1> QED
    BY <1>1 DEF Owed

\* A reservation is a Hold.
LEMMA CreateRowHolds ==
    ASSUME IndInv, IndInv', NEW r \in Polled, req[r] = "idle",
           NEW q, NEW s, CreateRow(r, q, s)
    PROVE  LedgerStep
<1>1. TypeOK /\ TypeOK' /\ RowInv(r) /\ TaskInv(r)
    BY DEF IndInv
<1>2. charged'[r] \in Nat
    BY ChargedNat
<1>3. /\ state'[r] = "reserved"
      /\ \A p \in Polled \ {r} : state'[p] = state[p] /\ final'[p] = final[p] /\ charged'[p] = charged[p]
  <2>1. /\ state'[r] = "reserved"
        /\ \A p \in Polled \ {r} : state'[p] = state[p] /\ final'[p] = final[p]
    BY <1>1 DEF TypeOK, RowTypes, CreateRow
  <2>2. \A p \in Polled \ {r} : charged'[p] = charged[p]
    BY <1>1 DEF TypeOK, MoneyTypes, CreateRow, Move
  <2> QED
    BY <2>1, <2>2
<1>4. cacheEvent' = cacheEvent /\ taskStatus' = taskStatus /\ target' = target
    BY DEF CreateRow, outbox, task
<1>5. state[r] = "none" /\ r \notin cacheEvent /\ taskStatus[r] = "none"
    BY <1>1 DEF RowInv, TaskInv, Queued
<1>6. \A p \in Polled \ {r} : SameEntry(p)
    BY <1>3, <1>4 DEF SameEntry, Phase, Price
<1>7. HoldEntry(r)
    BY <1>2, <1>3, <1>4, <1>5 DEF HoldEntry, Phase, Price
<1> QED
    BY <1>1, <1>6, <1>7, EntryStep

\* A changed reservation is an Adjust: the request has no task yet.
LEMMA AdjustReservationAdjusts ==
    ASSUME IndInv, IndInv', NEW r \in Polled, req[r] = "holding", AdjustReservation(r)
    PROVE  LedgerStep
<1>1. TypeOK /\ TypeOK' /\ RowInv(r) /\ TaskInv(r)
    BY DEF IndInv
<1>2. charged'[r] \in Nat
    BY ChargedNat
<1>3. \A p \in Polled \ {r} : final'[p] = final[p] /\ charged'[p] = charged[p]
    BY <1>1 DEF TypeOK, RowTypes, MoneyTypes, AdjustReservation, Move
<1>4. UNCHANGED <<state, target, cacheEvent, taskStatus>>
    BY DEF AdjustReservation, outbox, task
<1>5. state[r] = "reserved" /\ r \notin cacheEvent /\ taskStatus[r] = "none"
    BY <1>1 DEF RowInv, TaskInv, Queued
<1>6. \A p \in Polled \ {r} : SameEntry(p)
    BY <1>3, <1>4 DEF SameEntry, Phase, Price
<1>7. AdjustEntry(r)
    BY <1>2, <1>4, <1>5 DEF AdjustEntry, Phase, Price
<1> QED
    BY <1>1, <1>6, <1>7, EntryStep

\* The insertion of the task is a Start.
LEMMA BindTaskStarts ==
    ASSUME IndInv, IndInv', NEW r \in Polled, req[r] = "held", BindTask(r)
    PROVE  LedgerStep
<1>1. TypeOK /\ TypeOK' /\ RowInv(r) /\ TaskInv(r)
    BY DEF IndInv
<1>2. /\ taskStatus'[r] = "LIVE"
      /\ \A p \in Polled \ {r} : taskStatus'[p] = taskStatus[p]
    BY <1>1 DEF TypeOK, TaskTypes, BindTask
<1>3. UNCHANGED <<state, final, target, cacheEvent, charged>>
    BY DEF BindTask, outbox, money
<1>4. state[r] = "reserved" /\ r \notin cacheEvent /\ taskStatus[r] = "none"
    BY <1>1 DEF RowInv, TaskInv, Queued
<1>5. \A p \in Polled \ {r} : SameEntry(p)
    BY <1>2, <1>3 DEF SameEntry, Phase, Price
<1>6. StartEntry(r)
    BY <1>2, <1>3, <1>4 DEF StartEntry, Phase, Price
<1> QED
    BY <1>1, <1>5, <1>6, EntryStep

\* A queued refund of requests without a task changes nothing on the ledger.
LEMMA RefundIntentQuiet ==
    ASSUME IndInv, IndInv', NEW R, RefundIntent(R), UNCHANGED <<money, outbox, task>>,
           \A r \in Polled \cap R : ~bound[r] /\ state[r] = "reserved"
    PROVE  LedgerStep
<1>1. TypeOK /\ TypeOK'
    BY DEF IndInv
<1>2. UNCHANGED <<charged, cacheEvent, taskStatus>>
    BY DEF money, outbox, task
<1>3. ASSUME NEW q \in Polled PROVE SameEntry(q)
  <2>1. RowInv(q) /\ TaskInv(q)
    BY DEF IndInv
  <2>2. CASE q \in R
    <3>1. ~bound[q] /\ state[q] = "reserved" /\ state'[q] = "refund_pending"
      BY <1>1, <2>2, RefundIntentFacts
    <3>2. q \notin cacheEvent /\ taskStatus[q] = "none"
      BY <2>1, <3>1 DEF RowInv, TaskInv, Queued
    <3> QED
      BY <1>2, <3>1, <3>2 DEF SameEntry, Phase, Price
  <2>3. CASE q \notin R
    <3>1. state'[q] = state[q] /\ target'[q] = target[q] /\ final'[q] = final[q]
      BY <1>1, <2>3, RefundIntentFacts
    <3> QED
      BY <1>2, <3>1 DEF SameEntry, Phase, Price
  <2> QED
    BY <2>2, <2>3
<1> QED
    BY <1>3, SameEntries DEF LedgerStep

\* The terminal transition of a task is a Finish, which fixes the price.
LEMMA TaskIntentFinishes ==
    ASSUME IndInv, IndInv', NEW r \in Polled, NEW status \in {"SUCCESS", "FAILURE"},
           NEW fin, TaskIntent(r, "LIVE", status, fin), UNCHANGED money
    PROVE  LedgerStep
<1>1. TypeOK /\ TypeOK' /\ RowInv(r) /\ TaskInv(r)
    BY DEF IndInv
<1>2. taskStatus[r] = "LIVE"
    BY DEF TaskIntent
<1>3. state[r] = "reserved" /\ r \notin cacheEvent
    BY <1>1, <1>2 DEF RowInv, TaskInv, Queued
<1>4. /\ taskStatus'[r] = status /\ state'[r] # "none"
      /\ \A p \in Polled \ {r} :
            /\ taskStatus'[p] = taskStatus[p] /\ state'[p] = state[p]
            /\ final'[p] = final[p] /\ target'[p] = target[p]
    BY <1>1, <1>3 DEF TypeOK, TaskTypes, RowTypes, TaskIntent
<1>5. UNCHANGED <<charged, cacheEvent>>
    BY DEF TaskIntent, outbox, money
<1>6. \A p \in Polled \ {r} : SameEntry(p)
    BY <1>4, <1>5 DEF SameEntry, Phase, Price
<1>7. FinishEntry(r)
    BY <1>2, <1>3, <1>4, <1>5 DEF FinishEntry, Phase
<1> QED
    BY <1>1, <1>6, <1>7, EntryStep

\* Claiming and releasing a queued row is invisible.
LEMMA QueueQuiet ==
    ASSUME IndInv, IndInv', NEW w \in Workers, job[w].row \in Polled,
           Claim(w) \/ Release(w)
    PROVE  LedgerStep
<1>1. TypeOK /\ TypeOK'
    BY DEF IndInv
<1>2. PICK r \in Polled : job[w].row = r
    OBVIOUS
<1>3. UNCHANGED <<charged, cacheEvent, taskStatus, target, final>>
    BY DEF Claim, Release, money, outbox, task
<1>4. state[r] # "none"
    BY <1>2 DEF IndInv, WorkerInv, Queued, Claim, Release
<1>5. job[w].pend # "none"
    BY <1>1, JobType DEF Pending
<1>6. state'[r] # "none" /\ \A p \in Polled \ {r} : state'[p] = state[p]
    BY <1>1, <1>2, <1>4, <1>5 DEF TypeOK, RowTypes, Claim, Release
<1>7. \A q \in Polled : SameEntry(q)
    BY <1>3, <1>4, <1>6 DEF SameEntry, Phase, Price
<1> QED
    BY <1>7, SameEntries DEF LedgerStep

\* The transaction of a worker is the Charge or the GiveBack of its row.
LEMMA ApplyCloses ==
    ASSUME IndInv, IndInv', NEW w \in Workers, job[w].row \in Polled,
           wpc[w] = "applying", Apply(w)
    PROVE  LedgerStep
<1>1. PICK r \in Polled : job[w].row = r
    OBVIOUS
<1>2. /\ TypeOK /\ TypeOK' /\ RowInv(r) /\ TaskInv(r) /\ QueueInv(r) /\ Queued(r)
      /\ MoneyInv(r)'
    BY <1>1 DEF IndInv, WorkerInv
<1>3. /\ \A p \in Polled \ {r} : Same(p)
      /\ SameOutcome(r)
    BY <1>1, ApplyKeepsRow
<1>4. \A p \in Polled \ {r} : SameEntry(p)
    BY <1>3, SameSameEntry
<1>5. UNCHANGED <<target, taskStatus>> /\ final'[r] = final[r]
    BY <1>2, <1>3 DEF Apply, SameOutcome
<1>6. r \notin cacheEvent /\ r \in cacheEvent'
    BY <1>1 DEF Apply, CanApply
<1>7. charged'[r] = IF target[r] = "SUCCESS" THEN final[r] ELSE 0
    BY <1>2, <1>5, <1>6 DEF MoneyInv, Owed
<1>8. /\ target[r] = "SUCCESS" => taskStatus[r] = "SUCCESS"
      /\ target[r] # "SUCCESS" => taskStatus[r] \in {"none", "FAILURE"}
    BY <1>2 DEF QueueInv, TaskInv
<1>9. CloseEntry(r)
    BY <1>2, <1>5, <1>6, <1>7, <1>8 DEF CloseEntry, Phase, Price, Queued
<1> QED
    BY <1>2, <1>4, <1>9, EntryStep

-----------------------------------------------------------------------------
\* Every step of durable billing is a step of the ledger or invisible on it.
LEMMA StepMaps ==
    ASSUME Survivable, IndInv, IndInv', [Next]_vars
    PROVE  LedgerStep
<1>1. TypeOK /\ TypeOK'
    BY DEF IndInv
<1>f. UNCHANGED <<row, money, outbox, task>> => LedgerStep
  <2>1. UNCHANGED <<row, money, outbox, task>> => \A q \in Polled : SameEntry(q)
    BY DEF row, money, outbox, task, SameEntry, Phase, Price
  <2> QED
    BY <2>1, SameEntries DEF LedgerStep
<1>2. ASSUME NEW r \in Polled, RequestStep(r) PROVE LedgerStep
  <2>1. CASE Reserve(r) \/ ReserveAckLost(r)
    BY <2>1, CreateRowHolds DEF Reserve, ReserveAckLost
  <2>2. CASE HoldCommit(r) \/ HoldAckLost(r)
    BY <2>2, AdjustReservationAdjusts DEF HoldCommit, HoldAckLost
  <2>3. CASE Bind(r) \/ BindAckLost(r)
    BY <2>3, BindTaskStarts DEF Bind, BindAckLost
  <2>4. CASE Refund(r)
    <3>1. /\ RefundIntent(IF ~bound[r] /\ state[r] = "reserved" THEN {r} ELSE {})
          /\ UNCHANGED <<money, outbox, task>>
      BY <2>4 DEF Refund
    <3> QED
      BY <3>1, RefundIntentQuiet
  <2>5. CASE QuietRequest(r)
    BY <1>f, <2>5 DEF QuietRequest, ReserveRefused, UpstreamAccepts, UpstreamFails, HoldRead,
                      HoldRollback, BindRollback, RefundError, RequestCrash
  <2> QED
    BY <1>2, <2>1, <2>2, <2>3, <2>4, <2>5 DEF RequestStep, QuietRequest
<1>3. ASSUME NEW r \in Polled, TaskStep(r) PROVE LedgerStep
  <2>1. CASE TaskSucceeds(r) \/ TaskFails(r)
    BY <2>1, TaskIntentFinishes DEF TaskSucceeds, TaskFails
  <2>2. ~(TaskEndsUntracked(r) \/ TaskSettlesUntracked(r) \/ TaskRefundsUntracked(r)
          \/ TaskRefundsTwice(r) \/ LostRaceRefund(r))
    BY DEF Survivable, TaskEndsUntracked, TaskSettlesUntracked, TaskRefundsUntracked, TaskEnds,
           TaskRefundsTwice, LostRaceRefund, Fault, Count
  <2> QED
    BY <1>3, <2>1, <2>2 DEF TaskStep
<1>4. ASSUME NEW r, ClockStep(r) PROVE LedgerStep
  <2>1. UNCHANGED <<state, final, target, money, outbox, task>>
    BY <1>4 DEF ClockStep, Age, LeaseTimeout, LeaseLost, RetryDue, RetryOverdue, ExpireLease, EndBackoff
  <2>2. \A q \in Polled : SameEntry(q)
    BY <2>1 DEF money, outbox, task, SameEntry, Phase, Price
  <2> QED
    BY <2>2, SameEntries DEF LedgerStep
<1>5. ASSUME NEW w \in Workers, WorkerStep(w) PROVE LedgerStep
  <2>1. CASE MarkStale(w)
    <3>1. /\ RefundIntent({r \in aged : ~bound[r] /\ state[r] = "reserved"})
          /\ UNCHANGED <<money, outbox, task>>
      BY <2>1 DEF MarkStale
    <3> QED
      BY <3>1, RefundIntentQuiet
  <2>2. CASE job[w].row \in Polled /\ (Claim(w) \/ Release(w))
    BY <2>2, QueueQuiet
  <2>3. CASE job[w].row \in Polled /\ (ApplyCommit(w) \/ ApplyAckLost(w))
    BY <2>3, ApplyCloses DEF ApplyCommit, ApplyAckLost
  <2>5. CASE /\ job[w].row \notin Polled
             /\ Claim(w) \/ Release(w) \/ ApplyCommit(w) \/ ApplyAckLost(w)
    <3>1. \A q \in Requests \ {job[w].row} : Same(q)
      BY <1>1, <2>5, WorkerIsLocal
    <3> QED
      BY <2>5, <3>1, SameLedger
  <2>4. CASE \/ (\E r \in Requests : Pick(w, r)) \/ ApplyRead(w)
             \/ ClaimLost(w) \/ ApplyRollback(w) \/ ReleaseError(w) \/ WorkerCrash(w)
    BY <1>f, <2>4 DEF Pick, ApplyRead, ClaimLost, ApplyRollback, ReleaseError, WorkerCrash
  <2> QED
    BY <1>5, <2>1, <2>2, <2>3, <2>4, <2>5 DEF WorkerStep
<1>6. CASE UNCHANGED vars
    BY <1>f, <1>6 DEF vars
<1>7. ASSUME NEW r \in Realtime, RequestStep(r) \/ TaskStep(r) \/ FetchStep(r) PROVE LedgerStep
  <2>1. r \in Requests
    BY RealtimeAssumption
  <2>2. \A q \in Requests \ {r} : Same(q)
    BY <1>1, <1>7, <2>1, RequestIsLocal, TaskIsLocal
  <2> QED
    BY <2>2, SameLedger
<1>8. ASSUME NEW x \in Deletable, Delete(x) PROVE LedgerStep
    BY <1>f, <1>8 DEF Delete
<1> QED
  <2>1. ASSUME NEW r \in Requests, RequestStep(r) \/ TaskStep(r) \/ ClockStep(r) PROVE LedgerStep
    <3>1. CASE r \in Polled
      BY <1>2, <1>3, <1>4, <2>1, <3>1
    <3>2. CASE r \in Realtime
      BY <1>4, <1>7, <2>1, <3>2
    <3> QED
      BY <3>1, <3>2
  <2> QED
    BY <1>5, <1>6, <1>7, <1>8, <2>1 DEF Next

\* The durable billing tables, the request goroutines and the workers implement
\* the ledger: for any number of requests, workers, retries, crashes, lost
\* leases and lost acknowledgements, a request for a polled task is charged the
\* price its task ended with, or gets its reservation back, in one step that
\* happens once.
THEOREM LedgerRefinement == Survivable => (Spec => ImplementsLedger)
<1>1. SUFFICES ASSUME Survivable PROVE Spec => ImplementsLedger
    OBVIOUS
<1>2. Init => Ledger!Init
  <2>1. SUFFICES ASSUME Init PROVE Ledger!Init
    OBVIOUS
  <2>2. \A r \in Polled : Phase(r) = "none" /\ Price(r) = 0
    BY <2>1 DEF Init, Phase, Price
  <2>3. \A r \in Polled : charged[r] = 0 /\ taskStatus[r] = "none"
    BY <2>1 DEF Init
  <2> QED
    BY <2>2, <2>3 DEF Ledger!Init
<1>3. IndInv /\ IndInv' /\ [Next]_vars => [Ledger!Next]_(Ledger!ledger)
    BY <1>1, StepMaps DEF LedgerStep, Entries, Ledger!ledger
<1>4. Spec => []IndInv
    BY <1>1, IndInvariant
<1> QED
    BY <1>2, <1>3, <1>4, PTL DEF Spec, ImplementsLedger, Ledger!Spec
=============================================================================
