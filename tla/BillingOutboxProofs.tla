------------------------ MODULE BillingOutboxProofs -------------------------
(***************************************************************************)
(* Proofs about BillingOutbox for any sets of events and workers, with or  *)
(* without consume logs, any deleted tokens and any faults.                *)
(***************************************************************************)
EXTENDS BillingOutbox, TLAPS

\* What a worker knows of its event from the steps it has taken.
Knows(w) ==
    /\ pc[w] \in {"user", "token"} => job[w] \in CacheEvents
    /\ pc[w] \in {"receipt", "insert", "link"} => job[w] \in LogEvents
    /\ pc[w] = "token" => job[w] \in userDropped
    /\ pc[w] = "link" => job[w] \in receipt
    /\ pc[w] = "ok" => Effects(job[w])

\* Each event has one log exactly if it has a receipt.
OneLog ==
    \A e \in Events : (logs[e] = IF e \in receipt THEN 1 ELSE 0) /\ (e \in linked => e \in receipt)

IndInv ==
    /\ TypeOK
    /\ OneLog
    /\ DeliveredMeansDone
    /\ \A w \in Workers : Knows(w)

-----------------------------------------------------------------------------
LEMMA NoEventType == NoEvent \in Events
BY EventsAssumption DEF NoEvent

LEMMA IndInit ==
    ASSUME Init
    PROVE  IndInv
BY NoEventType DEF Init, IndInv, OneLog, TypeOK, DeliveredMeansDone, Knows

\* Effects are never undone.
LEMMA EffectsLast ==
    ASSUME NEW e, Effects(e), userDropped \subseteq userDropped',
           tokenDropped \subseteq tokenDropped', receipt \subseteq receipt'
    PROVE  Effects(e)'
BY DEF Effects

\* A step of worker w, if its effects only grow, it knows what it should, and
\* marks an event delivered only when the effects are there.
LEMMA WorkerKeeps ==
    ASSUME IndInv, NEW w \in Workers, TypeOK', OneLog',
           userDropped \subseteq userDropped', tokenDropped \subseteq tokenDropped',
           receipt \subseteq receipt',
           \A v \in Workers \ {w} : pc'[v] = pc[v] /\ job'[v] = job[v],
           Knows(w)',
           \A e \in Events : event'[e] = "delivered" => event[e] = "delivered" \/ Effects(e)
    PROVE  IndInv'
<1>1. \A e \in Events : Effects(e) => Effects(e)'
    BY EffectsLast
<1>2. DeliveredMeansDone'
    BY <1>1 DEF IndInv, DeliveredMeansDone
<1>3. \A v \in Workers : Knows(v)'
  <2>1. SUFFICES ASSUME NEW v \in Workers \ {w} PROVE Knows(v)'
    OBVIOUS
  <2>2. Knows(v) /\ job[v] \in Events
    BY DEF IndInv, TypeOK
  <2> QED
    BY <1>1, <2>2 DEF Knows
<1> QED
    BY <1>2, <1>3 DEF IndInv

\* What the moves of a worker do to the program counters.
LEMMA Moves ==
    ASSUME TypeOK, NEW w \in Workers
    PROVE  /\ \A x : Goto(w, x) => pc'[w] = x /\ \A v \in Workers \ {w} : pc'[v] = pc[v]
           /\ EndPass(w) => /\ pc'[w] = "idle" /\ job'[w] = NoEvent
                            /\ \A v \in Workers \ {w} : pc'[v] = pc[v] /\ job'[v] = job[v]
BY DEF TypeOK, Goto, EndPass

\* Types.
LEMMA TypeStep ==
    ASSUME TypeOK, [Next]_vars
    PROVE  TypeOK'
<1> USE NoEventType DEF TypeOK, Fault, NoFault, Goto, EndPass, table, caches, logdb
<1>1. ASSUME NEW e \in Events, Emit(e) PROVE TypeOK'
    BY <1>1 DEF Emit
<1>2. ASSUME NEW e \in Events, ClockStep(e) PROVE TypeOK'
    BY <1>2 DEF ClockStep, LeaseTimeout, LeaseLost, ExpireLease, RetryDue
<1>3. ASSUME NEW w \in Workers, NEW e \in Events, Pick(w, e) PROVE TypeOK'
    BY <1>3 DEF Pick
<1>4. ASSUME NEW w \in Workers, WorkerStep(w) PROVE TypeOK'
  <2> job[w] \in Events
    OBVIOUS
  <2>1. CASE Claim(w)
    BY <2>1 DEF Claim
  <2>2. CASE ClaimLost(w)
    BY <2>2 DEF ClaimLost
  <2>3. CASE InvalidateUserCache(w)
    BY <2>3 DEF InvalidateUserCache
  <2>4. CASE InvalidateTokenCache(w)
    BY <2>4 DEF InvalidateTokenCache
  <2>5. CASE FindReceipt(w)
    BY <2>5 DEF FindReceipt
  <2>6. CASE InsertCommit(w)
    BY <2>6 DEF InsertCommit, InsertLog, CanInsert
  <2>7. CASE InsertAckLost(w)
    BY <2>7 DEF InsertAckLost, InsertLog, CanInsert
  <2>8. CASE InsertConflict(w)
    BY <2>8 DEF InsertConflict
  <2>9. CASE LinkTask(w)
    BY <2>9 DEF LinkTask
  <2>10. CASE LinkSkipped(w)
    BY <2>10 DEF LinkSkipped
  <2>11. CASE DeliverError(w)
    BY <2>11 DEF DeliverError
  <2>12. CASE MarkDelivered(w)
    BY <2>12 DEF MarkDelivered, Deliverable
  <2>13. CASE MarkPending(w)
    BY <2>13 DEF MarkPending
  <2>14. CASE MarkLost(w)
    BY <2>14 DEF MarkLost
  <2>15. CASE Crash(w)
    BY <2>15 DEF Crash
  <2>16. CASE TokenMissing(w)
    BY <2>16 DEF TokenMissing
  <2> QED
    BY <1>4, <2>1, <2>2, <2>3, <2>4, <2>5, <2>6, <2>7, <2>8,
       <2>9, <2>10, <2>11, <2>12, <2>13, <2>14, <2>15, <2>16
    DEF WorkerStep, Deliver, Disturb
<1>5. CASE UNCHANGED vars
    BY <1>5 DEF vars
<1>6. ASSUME NEW e \in Events, DeleteToken(e) PROVE TypeOK'
    BY <1>6 DEF DeleteToken, Events
<1> QED
    BY <1>1, <1>2, <1>3, <1>4, <1>5, <1>6 DEF Next

\* One case per action of a worker.
LEMMA WorkerStepKeeps ==
    ASSUME IndInv, TypeOK', NEW w \in Workers, WorkerStep(w)
    PROVE  IndInv'
<1> USE DEF Fault, NoFault, table, caches, logdb
<1>1. TypeOK /\ OneLog /\ Knows(w) /\ DeliveredMeansDone /\ job[w] \in Events
    BY DEF IndInv, TypeOK
<1>2. CASE Claim(w)
  <2>1. /\ \A v \in Workers \ {w} : pc'[v] = pc[v] /\ job'[v] = job[v]
        /\ Knows(w)'
    BY <1>1, <1>2, Moves DEF Claim, Knows, Effects, Events
  <2>2. /\ OneLog'
        /\ userDropped \subseteq userDropped' /\ tokenDropped \subseteq tokenDropped'
        /\ receipt \subseteq receipt'
    BY <1>1, <1>2 DEF Claim, OneLog, TypeOK
  <2>3. \A e \in Events : event'[e] = "delivered" => event[e] = "delivered" \/ Effects(e)
    BY <1>1, <1>2 DEF Claim, TypeOK
  <2> QED
    BY <2>1, <2>2, <2>3, WorkerKeeps
<1>3. CASE ClaimLost(w)
  <2>1. /\ \A v \in Workers \ {w} : pc'[v] = pc[v] /\ job'[v] = job[v]
        /\ Knows(w)'
    BY <1>1, <1>3, Moves DEF ClaimLost, Knows, Effects
  <2>2. /\ OneLog'
        /\ userDropped \subseteq userDropped' /\ tokenDropped \subseteq tokenDropped'
        /\ receipt \subseteq receipt'
    BY <1>1, <1>3 DEF ClaimLost, OneLog, TypeOK
  <2>3. \A e \in Events : event'[e] = "delivered" => event[e] = "delivered" \/ Effects(e)
    BY <1>1, <1>3 DEF ClaimLost, TypeOK
  <2> QED
    BY <2>1, <2>2, <2>3, WorkerKeeps
<1>4. CASE InvalidateUserCache(w)
  <2>1. /\ \A v \in Workers \ {w} : pc'[v] = pc[v] /\ job'[v] = job[v]
        /\ Knows(w)'
    BY <1>1, <1>4, Moves DEF InvalidateUserCache, Knows, Effects
  <2>2. /\ OneLog'
        /\ userDropped \subseteq userDropped' /\ tokenDropped \subseteq tokenDropped'
        /\ receipt \subseteq receipt'
    BY <1>1, <1>4 DEF InvalidateUserCache, OneLog, TypeOK
  <2>3. \A e \in Events : event'[e] = "delivered" => event[e] = "delivered" \/ Effects(e)
    BY <1>1, <1>4 DEF InvalidateUserCache, TypeOK
  <2> QED
    BY <2>1, <2>2, <2>3, WorkerKeeps
<1>5. CASE InvalidateTokenCache(w)
  <2>1. /\ \A v \in Workers \ {w} : pc'[v] = pc[v] /\ job'[v] = job[v]
        /\ Knows(w)'
    BY <1>1, <1>5, Moves, EventsAssumption DEF InvalidateTokenCache, Knows, Effects
  <2>2. /\ OneLog'
        /\ userDropped \subseteq userDropped' /\ tokenDropped \subseteq tokenDropped'
        /\ receipt \subseteq receipt'
    BY <1>1, <1>5 DEF InvalidateTokenCache, OneLog, TypeOK
  <2>3. \A e \in Events : event'[e] = "delivered" => event[e] = "delivered" \/ Effects(e)
    BY <1>1, <1>5 DEF InvalidateTokenCache, TypeOK
  <2> QED
    BY <2>1, <2>2, <2>3, WorkerKeeps
<1>6. CASE FindReceipt(w)
  <2>1. /\ \A v \in Workers \ {w} : pc'[v] = pc[v] /\ job'[v] = job[v]
        /\ Knows(w)'
    BY <1>1, <1>6, Moves, EventsAssumption DEF FindReceipt, Knows, Effects
  <2>2. /\ OneLog'
        /\ userDropped \subseteq userDropped' /\ tokenDropped \subseteq tokenDropped'
        /\ receipt \subseteq receipt'
    BY <1>1, <1>6 DEF FindReceipt, OneLog, TypeOK
  <2>3. \A e \in Events : event'[e] = "delivered" => event[e] = "delivered" \/ Effects(e)
    BY <1>1, <1>6 DEF FindReceipt, TypeOK
  <2> QED
    BY <2>1, <2>2, <2>3, WorkerKeeps
<1>7. CASE InsertCommit(w)
  <2>1. /\ \A v \in Workers \ {w} : pc'[v] = pc[v] /\ job'[v] = job[v]
        /\ Knows(w)'
    BY <1>1, <1>7, Moves DEF InsertCommit, InsertLog, CanInsert, Knows, Effects
  <2>2. /\ OneLog'
        /\ userDropped \subseteq userDropped' /\ tokenDropped \subseteq tokenDropped'
        /\ receipt \subseteq receipt'
    BY <1>1, <1>7 DEF InsertCommit, InsertLog, CanInsert, OneLog, TypeOK
  <2>3. \A e \in Events : event'[e] = "delivered" => event[e] = "delivered" \/ Effects(e)
    BY <1>1, <1>7 DEF InsertCommit, InsertLog, CanInsert, TypeOK
  <2> QED
    BY <2>1, <2>2, <2>3, WorkerKeeps
<1>8. CASE InsertAckLost(w)
  <2>1. /\ \A v \in Workers \ {w} : pc'[v] = pc[v] /\ job'[v] = job[v]
        /\ Knows(w)'
    BY <1>1, <1>8, Moves DEF InsertAckLost, InsertLog, CanInsert, Knows, Effects
  <2>2. /\ OneLog'
        /\ userDropped \subseteq userDropped' /\ tokenDropped \subseteq tokenDropped'
        /\ receipt \subseteq receipt'
    BY <1>1, <1>8 DEF InsertAckLost, InsertLog, CanInsert, OneLog, TypeOK
  <2>3. \A e \in Events : event'[e] = "delivered" => event[e] = "delivered" \/ Effects(e)
    BY <1>1, <1>8 DEF InsertAckLost, InsertLog, CanInsert, TypeOK
  <2> QED
    BY <2>1, <2>2, <2>3, WorkerKeeps
<1>9. CASE InsertConflict(w)
  <2>1. /\ \A v \in Workers \ {w} : pc'[v] = pc[v] /\ job'[v] = job[v]
        /\ Knows(w)'
    BY <1>1, <1>9, Moves DEF InsertConflict, Knows, Effects
  <2>2. /\ OneLog'
        /\ userDropped \subseteq userDropped' /\ tokenDropped \subseteq tokenDropped'
        /\ receipt \subseteq receipt'
    BY <1>1, <1>9 DEF InsertConflict, OneLog, TypeOK
  <2>3. \A e \in Events : event'[e] = "delivered" => event[e] = "delivered" \/ Effects(e)
    BY <1>1, <1>9 DEF InsertConflict, TypeOK
  <2> QED
    BY <2>1, <2>2, <2>3, WorkerKeeps
<1>10. CASE LinkTask(w)
  <2>1. /\ \A v \in Workers \ {w} : pc'[v] = pc[v] /\ job'[v] = job[v]
        /\ Knows(w)'
    BY <1>1, <1>10, Moves, EventsAssumption DEF LinkTask, Knows, Effects
  <2>2. /\ OneLog'
        /\ userDropped \subseteq userDropped' /\ tokenDropped \subseteq tokenDropped'
        /\ receipt \subseteq receipt'
    BY <1>1, <1>10 DEF LinkTask, OneLog, TypeOK, Knows
  <2>3. \A e \in Events : event'[e] = "delivered" => event[e] = "delivered" \/ Effects(e)
    BY <1>1, <1>10 DEF LinkTask, TypeOK
  <2> QED
    BY <2>1, <2>2, <2>3, WorkerKeeps
<1>11. CASE LinkSkipped(w)
  <2>1. /\ \A v \in Workers \ {w} : pc'[v] = pc[v] /\ job'[v] = job[v]
        /\ Knows(w)'
    BY <1>1, <1>11, Moves, EventsAssumption DEF LinkSkipped, Knows, Effects
  <2>2. /\ OneLog'
        /\ userDropped \subseteq userDropped' /\ tokenDropped \subseteq tokenDropped'
        /\ receipt \subseteq receipt'
    BY <1>1, <1>11 DEF LinkSkipped, OneLog, TypeOK
  <2>3. \A e \in Events : event'[e] = "delivered" => event[e] = "delivered" \/ Effects(e)
    BY <1>1, <1>11 DEF LinkSkipped, TypeOK
  <2> QED
    BY <2>1, <2>2, <2>3, WorkerKeeps
<1>12. CASE DeliverError(w)
  <2>1. /\ \A v \in Workers \ {w} : pc'[v] = pc[v] /\ job'[v] = job[v]
        /\ Knows(w)'
    BY <1>1, <1>12, Moves DEF DeliverError, Knows, Effects
  <2>2. /\ OneLog'
        /\ userDropped \subseteq userDropped' /\ tokenDropped \subseteq tokenDropped'
        /\ receipt \subseteq receipt'
    BY <1>1, <1>12 DEF DeliverError, OneLog, TypeOK
  <2>3. \A e \in Events : event'[e] = "delivered" => event[e] = "delivered" \/ Effects(e)
    BY <1>1, <1>12 DEF DeliverError, TypeOK
  <2> QED
    BY <2>1, <2>2, <2>3, WorkerKeeps
<1>13. CASE MarkDelivered(w)
  <2>1. /\ \A v \in Workers \ {w} : pc'[v] = pc[v] /\ job'[v] = job[v]
        /\ Knows(w)'
    BY <1>1, <1>13, Moves DEF MarkDelivered, Deliverable, Knows, Effects
  <2>2. /\ OneLog'
        /\ userDropped \subseteq userDropped' /\ tokenDropped \subseteq tokenDropped'
        /\ receipt \subseteq receipt'
    BY <1>1, <1>13 DEF MarkDelivered, Deliverable, OneLog, TypeOK
  <2>3. \A e \in Events : event'[e] = "delivered" => event[e] = "delivered" \/ Effects(e)
    BY <1>1, <1>13 DEF MarkDelivered, Deliverable, TypeOK, Knows
  <2> QED
    BY <2>1, <2>2, <2>3, WorkerKeeps
<1>14. CASE MarkPending(w)
  <2>1. /\ \A v \in Workers \ {w} : pc'[v] = pc[v] /\ job'[v] = job[v]
        /\ Knows(w)'
    BY <1>1, <1>14, Moves DEF MarkPending, Knows, Effects
  <2>2. /\ OneLog'
        /\ userDropped \subseteq userDropped' /\ tokenDropped \subseteq tokenDropped'
        /\ receipt \subseteq receipt'
    BY <1>1, <1>14 DEF MarkPending, OneLog, TypeOK
  <2>3. \A e \in Events : event'[e] = "delivered" => event[e] = "delivered" \/ Effects(e)
    BY <1>1, <1>14 DEF MarkPending, TypeOK
  <2> QED
    BY <2>1, <2>2, <2>3, WorkerKeeps
<1>15. CASE MarkLost(w)
  <2>1. /\ \A v \in Workers \ {w} : pc'[v] = pc[v] /\ job'[v] = job[v]
        /\ Knows(w)'
    BY <1>1, <1>15, Moves DEF MarkLost, Knows, Effects
  <2>2. /\ OneLog'
        /\ userDropped \subseteq userDropped' /\ tokenDropped \subseteq tokenDropped'
        /\ receipt \subseteq receipt'
    BY <1>1, <1>15 DEF MarkLost, OneLog, TypeOK
  <2>3. \A e \in Events : event'[e] = "delivered" => event[e] = "delivered" \/ Effects(e)
    BY <1>1, <1>15 DEF MarkLost, TypeOK
  <2> QED
    BY <2>1, <2>2, <2>3, WorkerKeeps
<1>16. CASE Crash(w)
  <2>1. /\ \A v \in Workers \ {w} : pc'[v] = pc[v] /\ job'[v] = job[v]
        /\ Knows(w)'
    BY <1>1, <1>16, Moves DEF Crash, Knows, Effects
  <2>2. /\ OneLog'
        /\ userDropped \subseteq userDropped' /\ tokenDropped \subseteq tokenDropped'
        /\ receipt \subseteq receipt'
    BY <1>1, <1>16 DEF Crash, OneLog, TypeOK
  <2>3. \A e \in Events : event'[e] = "delivered" => event[e] = "delivered" \/ Effects(e)
    BY <1>1, <1>16 DEF Crash, TypeOK
  <2> QED
    BY <2>1, <2>2, <2>3, WorkerKeeps
<1>17. CASE TokenMissing(w)
  <2>1. /\ \A v \in Workers \ {w} : pc'[v] = pc[v] /\ job'[v] = job[v]
        /\ Knows(w)'
    BY <1>1, <1>17, Moves DEF TokenMissing, Knows, Effects
  <2>2. /\ OneLog'
        /\ userDropped \subseteq userDropped' /\ tokenDropped \subseteq tokenDropped'
        /\ receipt \subseteq receipt'
    BY <1>1, <1>17 DEF TokenMissing, OneLog, TypeOK
  <2>3. \A e \in Events : event'[e] = "delivered" => event[e] = "delivered" \/ Effects(e)
    BY <1>1, <1>17 DEF TokenMissing, TypeOK
  <2> QED
    BY <2>1, <2>2, <2>3, WorkerKeeps
<1> QED
    BY <1>2, <1>3, <1>4, <1>5, <1>6, <1>7, <1>8, <1>9,
       <1>10, <1>11, <1>12, <1>13, <1>14, <1>15, <1>16, <1>17
    DEF WorkerStep, Deliver, Disturb

\* Insertion, the clock and the pick change nothing an effect depends on.
LEMMA QuietKeeps ==
    ASSUME IndInv, TypeOK', UNCHANGED <<caches, logdb, linked>>,
           \A e \in Events : event'[e] = "delivered" => event[e] = "delivered",
           \A v \in Workers : /\ job'[v] = job[v] \/ pc'[v] = "picked"
                              /\ pc'[v] = pc[v] \/ pc'[v] = "picked"
    PROVE  IndInv'
<1>1. UNCHANGED <<userDropped, tokenDropped, logs, receipt, linked>>
    BY DEF caches, logdb
<1>2. \A v \in Workers : Knows(v)'
    BY <1>1 DEF IndInv, Knows, Effects
<1>3. DeliveredMeansDone'
    BY <1>1 DEF IndInv, DeliveredMeansDone, Effects
<1> QED
    BY <1>1, <1>2, <1>3 DEF IndInv, OneLog

LEMMA IndStep ==
    ASSUME IndInv, [Next]_vars
    PROVE  IndInv'
<1>1. TypeOK /\ TypeOK'
    BY TypeStep DEF IndInv
<1>2. ASSUME NEW e \in Events, Emit(e) PROVE IndInv'
    BY <1>1, <1>2, QuietKeeps DEF Emit, TypeOK
<1>3. ASSUME NEW e \in Events, ClockStep(e) PROVE IndInv'
    BY <1>1, <1>3, QuietKeeps DEF ClockStep, LeaseTimeout, LeaseLost, ExpireLease, RetryDue
<1>4. ASSUME NEW w \in Workers, NEW e \in Events, Pick(w, e) PROVE IndInv'
    BY <1>1, <1>4, QuietKeeps DEF Pick, Goto, TypeOK, table
<1>5. ASSUME NEW w \in Workers, WorkerStep(w) PROVE IndInv'
    BY <1>1, <1>5, WorkerStepKeeps
<1>6. CASE UNCHANGED vars
    BY <1>1, <1>6, QuietKeeps DEF vars, table
<1>7. ASSUME NEW e \in Events, DeleteToken(e) PROVE IndInv'
    BY <1>1, <1>7, QuietKeeps DEF DeleteToken, table
<1> QED
    BY <1>2, <1>3, <1>4, <1>5, <1>6, <1>7 DEF Next

\* Every table of the outbox keeps its type and the inductive invariant ties
\* receipts, logs, delivered marks and running passes together, with any number
\* of passes of ProcessBillingOutboxOnce at once.
THEOREM OutboxInvariant == Spec => []IndInv
BY IndInit, IndStep, PTL DEF Spec

\* Every variable of the outbox has its type: no event is left in a status the
\* passes do not know.
THEOREM OutboxTypes == Spec => []TypeOK
<1>1. IndInv => TypeOK
    BY DEF IndInv
<1> QED
    BY <1>1, OutboxInvariant, PTL

\* RecordTaskBillingLogIdempotent writes one log per event, however often and
\* by however many passes the event is delivered.
THEOREM OneLogCorrect == Spec => []OneLogPerEvent
<1>1. IndInv => OneLogPerEvent
    BY DEF IndInv, OneLog, OneLogPerEvent
<1> QED
    BY <1>1, OutboxInvariant, PTL

\* ProcessBillingOutboxOnce marks an event delivered only after all its effects,
\* with any number of passes at once, crashes, lost leases and retries.
THEOREM DeliveredCorrect == Spec => []DeliveredMeansDone
<1>1. IndInv => DeliveredMeansDone
    BY DEF IndInv
<1> QED
    BY <1>1, OutboxInvariant, PTL
=============================================================================
