---------------------------- MODULE SyncBilling ----------------------------
(* Billing of a synchronous request: service/billing_session.go with the two  *)
(* funding sources of service/funding_source.go, and the subscription row of  *)
(* model/subscription.go that the sessions share with the periodic reset and  *)
(* the administrator.                                                          *)
(*                                                                             *)
(* A session pre-consumes the token, then the funding source, is relayed, and *)
(* is either settled (the handler succeeded) or refunded in the background    *)
(* (it failed).  Every statement or transaction is one step: between any two  *)
(* the process may die, and a step may fail or succeed without being          *)
(* acknowledged.                                                               *)
EXTENDS Integers

CONSTANTS
    Sessions,        \* requests, each with its own request id
    Playground,      \* those of relayInfo.IsPlayground: no token is charged
    Quotas,          \* estimated and actual prices
    Total,           \* AmountTotal of the subscription, 0 for unlimited
    MaxPeriods,      \* bound on the reset periods that pass
    RefundAttempts,  \* maxAttempts of refundWithRetry
    Faults,          \* kinds of fault: "dberr", "ack", "crash"
    MaxFaults        \* bound on the number of faults

ASSUME SyncAssumption ==
    /\ Playground \subseteq Sessions
    /\ Quotas \subseteq Nat
    /\ Total \in Nat
    /\ MaxPeriods \in Nat
    /\ RefundAttempts \in Nat \ {0}
    /\ MaxFaults \in Nat

VARIABLES
    stage,     \* where the session stands
    source,    \* the funding source being tried or used
    next,      \* the source to fall back to, or "none"
    ask,       \* preConsumedQuota of NewBillingSession
    amount,    \* effectiveQuota, then s.preConsumedQuota
    held,      \* s.tokenConsumed
    price,     \* actualQuota of Settle
    outcome,   \* how the session ended
    fund,      \* net amount the session's statements took from its source
    tok,       \* net amount they took from the token
    record,    \* status of the SubscriptionPreConsumeRecord
    tries,     \* failed attempts of refundWithRetry
    lost,      \* a fault the code can only log has hit the session
    used,      \* AmountUsed
    period,    \* the current reset period
    reset,     \* the period the row was last reset for
    status,    \* status of the subscription
    cancelled, \* AdminInvalidateUserSubscription has returned
    resetter,  \* the reset task: where it stands, its now, the status it read
    faults     \* number of faults so far

session == <<stage, source, next, ask, amount, held, price, outcome, fund, tok,
             record, tries, lost>>
row     == <<used, period, reset, status, cancelled, resetter>>
vars    == <<session, row, faults>>

Sources == {"wallet", "subscription"}
Stages  == {"idle", "try", "token", "funding", "rollback", "open", "settle",
            "refund", "refund_token", "end"}

(* The orders in which NewBillingSession tries the sources.  A user with      *)
(* "subscription_first" and no active subscription is one with "wallet_only". *)
Preferences == {<<"wallet", "none">>, <<"subscription", "none">>,
                <<"wallet", "subscription">>, <<"subscription", "wallet">>}

Init ==
    /\ stage = [s \in Sessions |-> "idle"]
    /\ source = [s \in Sessions |-> "wallet"]
    /\ next = [s \in Sessions |-> "none"]
    /\ ask = [s \in Sessions |-> 0]
    /\ amount = [s \in Sessions |-> 0]
    /\ held = [s \in Sessions |-> 0]
    /\ price = [s \in Sessions |-> 0]
    /\ outcome = [s \in Sessions |-> "none"]
    /\ fund = [s \in Sessions |-> 0]
    /\ tok = [s \in Sessions |-> 0]
    /\ record = [s \in Sessions |-> "none"]
    /\ tries = [s \in Sessions |-> 0]
    /\ lost = [s \in Sessions |-> FALSE]
    /\ used = 0 /\ period = 0 /\ reset = 0
    /\ status = "active" /\ cancelled = FALSE
    /\ resetter = [at |-> "idle", now |-> 0, seen |-> "active"]
    /\ faults = 0

(* ------------------------------ Helpers -------------------------------- *)

\* A further fault of one of the given kinds.
Fault(kind) ==
    /\ kind \in Faults
    /\ faults < MaxFaults
    /\ faults' = faults + 1

\* What a movement of n quota means for the token: nothing in the playground.
Token(s, n) == IF s \in Playground THEN 0 ELSE n

\* AmountTotal limits the use only when it is positive.
Fits(n) == Total = 0 \/ n <= Total

(* MUTANT: no clamp, so that a refund across a reset makes the use negative. *)
ClampMissing(n) == n

\* PostConsumeUserSubscriptionDeltaTx clamps the new use at zero.
Clamp(n) == IF n < 0 THEN 0 ELSE n

(* MUTANT: the settlement does not look at the total. *)
PostFitsAlways(delta) == TRUE

\* The use after moving it by delta, and whether the transaction commits.
PostUsed(delta) == Clamp(used + delta)
PostFits(delta) == Fits(PostUsed(delta))

\* The use as a pre-consumption finds it, a due reset included.
UsedNow == IF reset < period THEN 0 ELSE used

At(s, from, to) == stage[s] = from /\ stage' = [stage EXCEPT ![s] = to]
End(s, from, how) == At(s, from, "end") /\ outcome' = [outcome EXCEPT ![s] = how]
MoveFund(s, n) == fund' = [fund EXCEPT ![s] = @ + n]
MoveToken(s, n) == tok' = [tok EXCEPT ![s] = @ + Token(s, n)]
Lose(s) == lost' = [lost EXCEPT ![s] = TRUE]

\* The attempt with this source is over: try the other one, or give up.
Fallback(s, from) ==
    \/ /\ next[s] = "none"
       /\ End(s, from, "rejected")
       /\ UNCHANGED <<source, next>>
    \/ /\ next[s] # "none"
       /\ At(s, from, "try")
       /\ source' = [source EXCEPT ![s] = next[s]]
       /\ next' = [next EXCEPT ![s] = "none"]
       /\ UNCHANGED outcome

(* ---------------------------- Pre-consumption -------------------------- *)

NewBillingSession(s) ==
    /\ At(s, "idle", "try")
    /\ \E q \in Quotas, p \in Preferences :
         /\ ask' = [ask EXCEPT ![s] = q]
         /\ source' = [source EXCEPT ![s] = p[1]]
         /\ next' = [next EXCEPT ![s] = p[2]]
    /\ UNCHANGED <<amount, held, price, outcome, fund, tok, record, tries, lost, row, faults>>

\* tryWallet and shouldTrust: the balance also depends on everything else the
\* user does, so it may be too low, enough, or above the trusted quota.
TryWallet(s) ==
    /\ source[s] = "wallet"
    /\ \/ /\ At(s, "try", "token")
          /\ \E q \in {0, ask[s]} : amount' = [amount EXCEPT ![s] = q]
          /\ UNCHANGED <<source, next, outcome, faults>>
       \/ Fallback(s, "try") /\ UNCHANGED <<amount, faults>>
       \/ /\ Fault("dberr")
          /\ End(s, "try", "rejected")
          /\ UNCHANGED <<source, next, amount>>
    /\ UNCHANGED <<ask, held, price, fund, tok, record, tries, lost, row>>

\* A subscription is never trusted and always pre-consumes at least 1.
TrySubscription(s) ==
    /\ source[s] = "subscription"
    /\ At(s, "try", "token")
    /\ amount' = [amount EXCEPT ![s] = IF ask[s] = 0 THEN 1 ELSE ask[s]]
    /\ UNCHANGED <<source, next, ask, held, price, outcome, fund, tok, record,
                   tries, lost, row, faults>>

\* Step 1 of preConsume: the token.
TakeToken(s) ==
    /\ At(s, "token", "funding")
    /\ held' = [held EXCEPT ![s] = amount[s]]
    /\ MoveToken(s, amount[s])
    /\ UNCHANGED <<source, next, ask, amount, price, outcome, fund, record, tries,
                   lost, row, faults>>

\* The token is short of quota or cannot be read, or its UPDATE reports an error
\* after it was committed.
RefuseToken(s) ==
    /\ amount[s] > 0
    /\ s \notin Playground
    /\ End(s, "token", "rejected")
    /\ \/ UNCHANGED <<tok, lost, faults>>
       \/ Fault("ack") /\ MoveToken(s, amount[s]) /\ Lose(s)
    /\ UNCHANGED <<source, next, ask, amount, held, price, fund, record, tries, row>>

\* Step 2 of preConsume with WalletFunding: an unconditional decrement.
TakeWallet(s) ==
    /\ source[s] = "wallet"
    /\ At(s, "funding", "open")
    /\ MoveFund(s, amount[s])
    /\ UNCHANGED <<source, next, ask, amount, held, price, outcome, tok, record,
                   tries, lost, row, faults>>

\* The transaction of PreConsumeUserSubscription: reset if due, count, record.
ConsumeSubscription(s) ==
    /\ status = "active"
    /\ Fits(UsedNow + amount[s])
    /\ used' = UsedNow + amount[s]
    /\ reset' = IF reset < period THEN period ELSE reset
    /\ record' = [record EXCEPT ![s] = "consumed"]

\* Step 2 of preConsume with SubscriptionFunding.
TakeSubscription(s) ==
    /\ source[s] = "subscription"
    /\ At(s, "funding", "open")
    /\ ConsumeSubscription(s)
    /\ MoveFund(s, amount[s])
    /\ UNCHANGED <<source, next, ask, amount, held, price, outcome, tok, tries,
                   lost, period, status, cancelled, resetter, faults>>

\* "no active subscription" or "subscription quota insufficient": the token is
\* given back and the wallet may be tried.
RefuseSubscription(s) ==
    /\ source[s] = "subscription"
    /\ status # "active" \/ ~Fits(UsedNow + amount[s])
    /\ At(s, "funding", "rollback")
    /\ UNCHANGED <<source, next, ask, amount, held, price, outcome, fund, tok,
                   record, tries, lost, row, faults>>

\* An error that is no refusal ends the attempts, unless it is one of the locking
\* SELECT, which is reported as "no active subscription".  An unacknowledged commit
\* keeps the money.
FundingFails(s) ==
    /\ amount[s] > 0
    /\ At(s, "funding", "rollback")
    /\ \/ /\ Fault("dberr")
          /\ \/ next' = [next EXCEPT ![s] = "none"]
             \/ source[s] = "subscription" /\ UNCHANGED next
          /\ UNCHANGED <<fund, record, lost, row>>
       \/ /\ Fault("ack")
          /\ next' = [next EXCEPT ![s] = "none"]
          /\ Lose(s)
          /\ MoveFund(s, amount[s])
          /\ IF source[s] = "wallet"
               THEN UNCHANGED <<record, row>>
               ELSE /\ ConsumeSubscription(s)
                    /\ UNCHANGED <<period, status, cancelled, resetter>>
    /\ UNCHANGED <<source, ask, amount, held, price, outcome, tok, tries>>

(* MUTANT: the token is not given back. *)
RollbackForgotten(s) ==
    /\ Fallback(s, "rollback")
    /\ held' = [held EXCEPT ![s] = 0]
    /\ UNCHANGED <<ask, amount, price, fund, tok, record, tries, lost, row, faults>>

\* preConsume gives the token back after a refusal of the funding source.
RollbackToken(s) ==
    /\ Fallback(s, "rollback")
    /\ held' = [held EXCEPT ![s] = 0]
    /\ \/ MoveToken(s, -held[s]) /\ UNCHANGED <<lost, faults>>
       \/ Token(s, held[s]) > 0 /\ Fault("dberr") /\ Lose(s) /\ UNCHANGED tok
    /\ UNCHANGED <<ask, amount, price, fund, record, tries, row>>

(* ------------------------------ Settlement ----------------------------- *)

\* funding.Settle(delta): the wallet or the row moves by the difference.
SettleFunding(s, delta) ==
    /\ MoveFund(s, delta)
    /\ IF source[s] = "wallet"
         THEN UNCHANGED used
         ELSE PostFits(delta) /\ used' = PostUsed(delta)

\* Settle, up to the commit of the funding source.
Settle(s) ==
    \E p \in Quotas :
      LET delta == p - amount[s] IN
      /\ price' = [price EXCEPT ![s] = p]
      /\ \/ /\ delta = 0
            /\ End(s, "open", "settled")
            /\ UNCHANGED <<fund, used>>
         \/ /\ delta # 0
            /\ At(s, "open", "settle")
            /\ SettleFunding(s, delta)
            /\ UNCHANGED outcome
      /\ UNCHANGED <<source, next, ask, amount, held, tok, record, tries, lost,
                     period, reset, status, cancelled, resetter, faults>>

\* funding.Settle reports an error, which the callers of SettleBilling only log:
\* the subscription's total is exceeded, or the statement fails, or its commit
\* is not acknowledged.
SettleRefused(s) ==
    \E p \in Quotas :
      LET delta == p - amount[s] IN
      /\ delta # 0
      /\ End(s, "open", "unsettled")
      /\ \/ /\ source[s] = "subscription" /\ ~PostFits(delta)
            /\ UNCHANGED <<fund, used, lost, faults>>
         \/ Fault("dberr") /\ UNCHANGED <<fund, used, lost>>
         \/ Fault("ack") /\ Lose(s) /\ SettleFunding(s, delta)
      /\ UNCHANGED <<source, next, ask, amount, held, price, tok, record, tries, period,
                     reset, status, cancelled, resetter>>

\* Settle, second half: the token.  An error can only be logged.
SettleToken(s) ==
    /\ End(s, "settle", "settled")
    /\ \/ MoveToken(s, price[s] - amount[s]) /\ UNCHANGED <<lost, faults>>
       \/ s \notin Playground /\ Fault("dberr") /\ Lose(s) /\ UNCHANGED tok
    /\ UNCHANGED <<source, next, ask, amount, held, price, fund, record, tries, row>>

(* -------------------------------- Refund ------------------------------- *)

\* needsRefundLocked for a session that is neither settled nor refunded.
NeedsRefund(s) == held[s] > 0 \/ source[s] = "subscription"

\* Refund: decided at once, carried out by a goroutine of its own.
Refund(s) ==
    /\ \/ NeedsRefund(s) /\ At(s, "open", "refund")
       \/ ~NeedsRefund(s) /\ At(s, "open", "end")
    /\ outcome' = [outcome EXCEPT ![s] = "refunded"]
    /\ UNCHANGED <<source, next, ask, amount, held, price, fund, tok, record, tries,
                   lost, row, faults>>

\* WalletFunding.Refund is not idempotent and is tried once.
RefundWallet(s) ==
    /\ source[s] = "wallet"
    /\ At(s, "refund", "refund_token")
    /\ \/ MoveFund(s, -amount[s]) /\ UNCHANGED <<lost, faults>>
       \/ Fault("dberr") /\ Lose(s) /\ UNCHANGED fund
    /\ UNCHANGED <<source, next, ask, amount, held, price, outcome, tok, record,
                   tries, row>>

(* MUTANT: the record is not looked at. *)
ReturnAgain(s) ==
    /\ MoveFund(s, -amount[s])
    /\ used' = PostUsed(-amount[s])
    /\ record' = [record EXCEPT ![s] = "refunded"]

\* The transaction of RefundSubscriptionPreConsume, idempotent by the record.
ReturnSubscription(s) ==
    \/ /\ record[s] = "consumed"
       /\ MoveFund(s, -amount[s])
       /\ used' = PostUsed(-amount[s])
       /\ record' = [record EXCEPT ![s] = "refunded"]
    \/ record[s] = "refunded" /\ UNCHANGED <<fund, used, record>>

RefundSubscription(s) ==
    /\ source[s] = "subscription"
    /\ At(s, "refund", "refund_token")
    /\ ReturnSubscription(s)
    /\ UNCHANGED <<source, next, ask, amount, held, price, outcome, tok, tries,
                   lost, period, reset, status, cancelled, resetter, faults>>

\* refundWithRetry: an attempt reports an error, whether or not it was
\* committed; after the last one the refund goes on with the token.
RefundRetried(s) ==
    /\ source[s] = "subscription"
    /\ stage[s] = "refund"
    /\ tries' = [tries EXCEPT ![s] = @ + 1]
    /\ \/ Fault("dberr") /\ UNCHANGED <<fund, used, record>>
       \/ Fault("ack") /\ ReturnSubscription(s)
    /\ IF tries[s] + 1 < RefundAttempts
         THEN UNCHANGED <<stage, lost>>
         ELSE /\ stage' = [stage EXCEPT ![s] = "refund_token"]
              /\ lost' = [lost EXCEPT ![s] = @ \/ record'[s] = "consumed"]
    /\ UNCHANGED <<source, next, ask, amount, held, price, outcome, tok, period,
                   reset, status, cancelled, resetter>>

RefundToken(s) ==
    /\ At(s, "refund_token", "end")
    /\ \/ MoveToken(s, -held[s]) /\ UNCHANGED <<lost, faults>>
       \/ Token(s, held[s]) > 0 /\ Fault("dberr") /\ Lose(s) /\ UNCHANGED tok
    /\ UNCHANGED <<source, next, ask, amount, held, price, outcome, fund, record,
                   tries, row>>

\* The process dies, and with it the session and its goroutine.
Crash(s) ==
    /\ Fault("crash")
    /\ stage[s] \notin {"idle", "end"}
    /\ End(s, stage[s], "crashed")
    /\ Lose(s)
    /\ UNCHANGED <<source, next, ask, amount, held, price, fund, tok, record, tries, row>>

(* ---------------------------- The subscription ------------------------- *)

\* The next reset time passes.
PeriodEnds ==
    /\ period < MaxPeriods
    /\ period' = period + 1
    /\ UNCHANGED <<session, used, reset, status, cancelled, resetter, faults>>

\* ResetDueSubscriptions: the list of due rows.
ResetList ==
    /\ resetter.at = "idle"
    /\ status = "active"
    /\ reset < period
    /\ resetter' = [resetter EXCEPT !.at = "listed", !.now = period]
    /\ UNCHANGED <<session, used, period, reset, status, cancelled, faults>>

\* Its transaction reads the row again; GORM v2 ignores "gorm:query_option", so
\* the row is not locked.
ResetRead ==
    /\ resetter.at = "listed"
    /\ resetter' = IF reset < resetter.now
                     THEN [resetter EXCEPT !.at = "read", !.seen = status]
                     ELSE [resetter EXCEPT !.at = "idle"]
    /\ UNCHANGED <<session, used, period, reset, status, cancelled, faults>>

\* maybeResetUserSubscriptionWithPlanTx saves every column of what was read.
ResetSave ==
    /\ resetter.at = "read"
    /\ used' = 0
    /\ reset' = resetter.now
    /\ status' = resetter.seen
    /\ resetter' = [resetter EXCEPT !.at = "idle"]
    /\ UNCHANGED <<session, period, cancelled, faults>>

\* The reset task's statement fails or its process dies.
ResetFails ==
    /\ \E kind \in {"dberr", "crash"} : Fault(kind)
    /\ resetter.at # "idle"
    /\ resetter' = [resetter EXCEPT !.at = "idle"]
    /\ UNCHANGED <<session, used, period, reset, status, cancelled>>

\* AdminInvalidateUserSubscription.
AdminInvalidate ==
    /\ ~cancelled
    /\ status' = "cancelled"
    /\ cancelled' = TRUE
    /\ UNCHANGED <<session, used, period, reset, resetter, faults>>

(* ----------------------------- Specification --------------------------- *)

SessionStep(s) ==
    \/ NewBillingSession(s) \/ TryWallet(s) \/ TrySubscription(s)
    \/ TakeToken(s) \/ RefuseToken(s)
    \/ TakeWallet(s) \/ TakeSubscription(s) \/ RefuseSubscription(s) \/ FundingFails(s)
    \/ RollbackToken(s)
    \/ Settle(s) \/ SettleRefused(s) \/ SettleToken(s)
    \/ Refund(s) \/ RefundWallet(s) \/ RefundSubscription(s) \/ RefundRetried(s)
    \/ RefundToken(s)
    \/ Crash(s)

Next ==
    \/ \E s \in Sessions : SessionStep(s)
    \/ PeriodEnds \/ ResetList \/ ResetRead \/ ResetSave \/ ResetFails
    \/ AdminInvalidate

Spec == Init /\ [][Next]_vars

(* ------------------------------ Properties ----------------------------- *)

\* The fields with numbers and names.
Shapes ==
    /\ stage \in [Sessions -> Stages]
    /\ source \in [Sessions -> Sources]
    /\ next \in [Sessions -> Sources \cup {"none"}]
    /\ ask \in [Sessions -> Nat]
    /\ amount \in [Sessions -> Nat]
    /\ held \in [Sessions -> Nat]
    /\ price \in [Sessions -> Nat]
    /\ outcome \in [Sessions -> {"none", "rejected", "settled", "unsettled",
                                 "refunded", "crashed"}]
    /\ fund \in [Sessions -> Int]
    /\ tok \in [Sessions -> Int]
    /\ record \in [Sessions -> {"none", "consumed", "refunded"}]
    /\ tries \in [Sessions -> Nat]
    /\ used \in Nat
    /\ period \in Nat
    /\ reset \in Nat
    /\ status \in {"active", "cancelled"}
    /\ resetter \in [at : {"idle", "listed", "read"}, now : Nat,
                     seen : {"active", "cancelled"}]
    /\ faults \in Nat

\* The Boolean ones.
Flags == lost \in [Sessions -> BOOLEAN] /\ cancelled \in BOOLEAN

(* The variables have the shapes the code's fields have; in particular the    *)
(* use of a subscription is never negative, although a refund may come after  *)
(* the reset of the period it was consumed in.                                *)
TypeOK == Shapes /\ Flags

\* What a session that ended owes.
Due(s) ==
    CASE outcome[s] = "settled" -> price[s]
      [] outcome[s] = "unsettled" -> amount[s]
      [] OTHER -> 0

(* A session that ended took from its source and from the token exactly what  *)
(* it owes: the price once settled, the reservation if the settlement was     *)
(* refused, nothing if it was rejected on the way (whatever steps of          *)
(* preConsume were done and undone, on one source or two) or refunded.  The   *)
(* exceptions are the faults the code can only log (lost).                    *)
LedgerAtEnd ==
    \A s \in Sessions :
        stage[s] = "end" /\ ~lost[s] =>
            /\ fund[s] = Due(s)
            /\ tok[s] = Token(s, Due(s))

(* Whatever fails, goes unacknowledged, is retried or dies, no session gives  *)
(* back more than it took, neither to the source nor to the token: the wallet *)
(* is refunded once, the subscription once per record.                        *)
NeverOverRefunded == \A s \in Sessions : fund[s] >= 0 /\ tok[s] >= 0

(* Sessions, settlements, refunds and resets together never take the use of a *)
(* limited subscription beyond its total.                                     *)
WithinTotal == Total > 0 => used <= Total

(* AdminInvalidateUserSubscription "marks a user subscription as cancelled    *)
(* and ends it immediately": from then on it is cancelled.                    *)
CancelledIsFinal == cancelled => status = "cancelled"

=============================================================================
