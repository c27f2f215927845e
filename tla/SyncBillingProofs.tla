------------------------- MODULE SyncBillingProofs -------------------------
(* Theorems about SyncBilling for any sessions, quotas, totals, periods and    *)
(* faults.                                                                     *)
EXTENDS SyncBilling, TLAPS

(* What a session knows it has taken from its source, by where it stands.      *)
FundHeld(s) ==
    CASE stage[s] = "open" -> amount[s]
      [] stage[s] = "settle" -> price[s]
      [] stage[s] = "refund" ->
            IF source[s] = "wallet" \/ record[s] = "consumed" THEN amount[s] ELSE 0
      [] stage[s] = "end" -> IF lost[s] THEN 0 ELSE Due(s)
      [] OTHER -> 0

\* The stages in which the token has been charged and not yet given back.
Working == {"funding", "rollback", "open", "settle", "refund", "refund_token"}

(* What it knows it has taken from the token.                                  *)
TokHeld(s) ==
    CASE stage[s] \in Working -> Token(s, held[s])
      [] stage[s] = "end" -> IF lost[s] THEN 0 ELSE Token(s, Due(s))
      [] OTHER -> 0

\* The columns of a session agree with where it stands.
Own(s) ==
    /\ stage[s] \in Working => held[s] = amount[s]
    /\ stage[s] \in {"refund", "refund_token"} => outcome[s] = "refunded"
    /\ stage[s] = "open" /\ source[s] = "subscription" => record[s] = "consumed"

\* The balances carry at least what the session will give back or keep, and
\* exactly that unless a fault hit it.
Covered(s) ==
    /\ fund[s] >= FundHeld(s)
    /\ tok[s] >= TokHeld(s)
    /\ ~lost[s] => fund[s] = FundHeld(s) /\ tok[s] = TokHeld(s)

SessionInv(s) == Own(s) /\ Covered(s)

(* The inductive invariant.                                                    *)
IndInv == TypeOK /\ WithinTotal /\ \A s \in Sessions : SessionInv(s)

\* A step of session s leaves the columns of the others alone.
OthersSame(s) ==
    \A t \in Sessions \ {s} :
        /\ stage'[t] = stage[t] /\ source'[t] = source[t] /\ amount'[t] = amount[t]
        /\ held'[t] = held[t] /\ price'[t] = price[t] /\ outcome'[t] = outcome[t]
        /\ fund'[t] = fund[t] /\ tok'[t] = tok[t] /\ record'[t] = record[t]
        /\ lost'[t] = lost[t]

(* Marking a session keeps the flags Boolean.                                  *)
LEMMA FlagsKept ==
    ASSUME Flags, NEW s \in Sessions, cancelled' = cancelled,
           \/ lost' = lost
           \/ Lose(s)
           \/ lost' = [lost EXCEPT ![s] = @ \/ record'[s] = "consumed"]
    PROVE  Flags'
  BY Zenon DEF Flags, Lose

(* Sessions do not disturb each other's part of the invariant.                 *)
LEMMA OthersKeep ==
    ASSUME IndInv, NEW s \in Sessions, OthersSame(s), TypeOK', WithinTotal', SessionInv(s)'
    PROVE  IndInv'
<1>1. SUFFICES ASSUME NEW t \in Sessions \ {s}
               PROVE  SessionInv(t)'
  BY DEF IndInv
<1>2. SessionInv(t)
  BY DEF IndInv
<1> QED
  BY <1>1, <1>2 DEF OthersSame, SessionInv, Own, Covered, FundHeld, TokHeld, Working,
     Due, Token

(* The initial state satisfies the invariant.                                  *)
LEMMA InitOk == Init => IndInv
<1> SUFFICES ASSUME Init PROVE IndInv
  OBVIOUS
<1>0. Flags
  BY Zenon DEF Init, Flags
<1>1. Shapes /\ WithinTotal
  BY SyncAssumption DEF Init, Shapes, WithinTotal, Stages, Sources
<1>2. ASSUME NEW s \in Sessions PROVE SessionInv(s)
  BY DEF Init, SessionInv, Own, Covered, FundHeld, TokHeld, Working, Due, Token
<1> QED
  BY <1>0, <1>1, <1>2 DEF IndInv, TypeOK

(* NewBillingSession keeps the shapes. *)
LEMMA ShapesOfNewBillingSession ==
    ASSUME Shapes, NEW s \in Sessions, NewBillingSession(s)
    PROVE  Shapes'
  BY SyncAssumption DEF Shapes, Stages, Sources, Token, NewBillingSession, At, row,
     Preferences

(* NewBillingSession preserves the invariant. *)
LEMMA NewBillingSessionOk ==
    ASSUME IndInv, NEW s \in Sessions, NewBillingSession(s)
    PROVE  IndInv'
<1>0. Flags'
  <2>1. cancelled' = cancelled
    BY DEF NewBillingSession, row, ConsumeSubscription
  <2>2. lost' = lost
    BY DEF NewBillingSession
  <2> QED
    BY <2>1, <2>2, FlagsKept DEF IndInv, TypeOK
<1>1. TypeOK'
  BY <1>0, ShapesOfNewBillingSession DEF IndInv, TypeOK
<1>2. WithinTotal'
  BY SyncAssumption DEF IndInv, TypeOK, Shapes, WithinTotal, NewBillingSession, At,
     row, Preferences
<1>3. SessionInv(s)'
  BY SyncAssumption, <1>1 DEF IndInv, TypeOK, Shapes, Flags, SessionInv, Own, Covered,
     FundHeld, TokHeld, Working, Due, Token, Stages, Sources, NewBillingSession, At,
     row, Preferences
<1>4. OthersSame(s)
  BY DEF IndInv, TypeOK, Shapes, Flags, OthersSame, NewBillingSession, At, row,
     Preferences
<1> QED
  BY <1>1, <1>2, <1>3, <1>4, OthersKeep

(* TryWallet keeps the shapes. *)
LEMMA ShapesOfTryWallet ==
    ASSUME Shapes, NEW s \in Sessions, TryWallet(s)
    PROVE  Shapes'
  BY SyncAssumption DEF Shapes, Stages, Sources, Token, TryWallet, At, row, Fallback,
     Fault, End

(* TryWallet preserves the invariant. *)
LEMMA TryWalletOk ==
    ASSUME IndInv, NEW s \in Sessions, TryWallet(s)
    PROVE  IndInv'
<1>0. Flags'
  <2>1. cancelled' = cancelled
    BY DEF TryWallet, row, ConsumeSubscription
  <2>2. lost' = lost
    BY DEF TryWallet
  <2> QED
    BY <2>1, <2>2, FlagsKept DEF IndInv, TypeOK
<1>1. TypeOK'
  BY <1>0, ShapesOfTryWallet DEF IndInv, TypeOK
<1>2. WithinTotal'
  BY SyncAssumption DEF IndInv, TypeOK, Shapes, WithinTotal, TryWallet, At, row,
     Fallback, Fault, End
<1>3. SessionInv(s)'
  BY SyncAssumption, <1>1 DEF IndInv, TypeOK, Shapes, Flags, SessionInv, Own, Covered,
     FundHeld, TokHeld, Working, Due, Token, Stages, Sources, TryWallet, At, row,
     Fallback, Fault, End
<1>4. OthersSame(s)
  BY DEF IndInv, TypeOK, Shapes, Flags, OthersSame, TryWallet, At, row, Fallback,
     Fault, End
<1> QED
  BY <1>1, <1>2, <1>3, <1>4, OthersKeep

(* TrySubscription keeps the shapes. *)
LEMMA ShapesOfTrySubscription ==
    ASSUME Shapes, NEW s \in Sessions, TrySubscription(s)
    PROVE  Shapes'
  BY SyncAssumption DEF Shapes, Stages, Sources, Token, TrySubscription, At, row

(* TrySubscription preserves the invariant. *)
LEMMA TrySubscriptionOk ==
    ASSUME IndInv, NEW s \in Sessions, TrySubscription(s)
    PROVE  IndInv'
<1>0. Flags'
  <2>1. cancelled' = cancelled
    BY DEF TrySubscription, row, ConsumeSubscription
  <2>2. lost' = lost
    BY DEF TrySubscription
  <2> QED
    BY <2>1, <2>2, FlagsKept DEF IndInv, TypeOK
<1>1. TypeOK'
  BY <1>0, ShapesOfTrySubscription DEF IndInv, TypeOK
<1>2. WithinTotal'
  BY SyncAssumption DEF IndInv, TypeOK, Shapes, WithinTotal, TrySubscription, At, row
<1>3. SessionInv(s)'
  BY SyncAssumption, <1>1 DEF IndInv, TypeOK, Shapes, Flags, SessionInv, Own, Covered,
     FundHeld, TokHeld, Working, Due, Token, Stages, Sources, TrySubscription, At, row
<1>4. OthersSame(s)
  BY DEF IndInv, TypeOK, Shapes, Flags, OthersSame, TrySubscription, At, row
<1> QED
  BY <1>1, <1>2, <1>3, <1>4, OthersKeep

(* TakeToken keeps the shapes. *)
LEMMA ShapesOfTakeToken ==
    ASSUME Shapes, NEW s \in Sessions, TakeToken(s)
    PROVE  Shapes'
  BY SyncAssumption DEF Shapes, Stages, Sources, Token, TakeToken, At, row, MoveToken

(* TakeToken preserves the invariant. *)
LEMMA TakeTokenOk ==
    ASSUME IndInv, NEW s \in Sessions, TakeToken(s)
    PROVE  IndInv'
<1>0. Flags'
  <2>1. cancelled' = cancelled
    BY DEF TakeToken, row, ConsumeSubscription
  <2>2. lost' = lost
    BY DEF TakeToken
  <2> QED
    BY <2>1, <2>2, FlagsKept DEF IndInv, TypeOK
<1>1. TypeOK'
  BY <1>0, ShapesOfTakeToken DEF IndInv, TypeOK
<1>2. WithinTotal'
  BY SyncAssumption DEF IndInv, TypeOK, Shapes, WithinTotal, TakeToken, At, row,
     MoveToken
<1>3. SessionInv(s)'
  BY SyncAssumption, <1>1 DEF IndInv, TypeOK, Shapes, Flags, SessionInv, Own, Covered,
     FundHeld, TokHeld, Working, Due, Token, Stages, Sources, TakeToken, At, row,
     MoveToken
<1>4. OthersSame(s)
  BY DEF IndInv, TypeOK, Shapes, Flags, OthersSame, TakeToken, At, row, MoveToken
<1> QED
  BY <1>1, <1>2, <1>3, <1>4, OthersKeep

(* RefuseToken keeps the shapes. *)
LEMMA ShapesOfRefuseToken ==
    ASSUME Shapes, NEW s \in Sessions, RefuseToken(s)
    PROVE  Shapes'
  BY SyncAssumption DEF Shapes, Stages, Sources, Token, RefuseToken, At, row, End,
     Fault, MoveToken

(* RefuseToken preserves the invariant. *)
LEMMA RefuseTokenOk ==
    ASSUME IndInv, NEW s \in Sessions, RefuseToken(s)
    PROVE  IndInv'
<1>0. Flags'
  <2>1. cancelled' = cancelled
    BY DEF RefuseToken, row, ConsumeSubscription
  <2>2. lost' = lost \/ Lose(s)
    BY DEF RefuseToken
  <2> QED
    BY <2>1, <2>2, FlagsKept DEF IndInv, TypeOK
<1>1. TypeOK'
  BY <1>0, ShapesOfRefuseToken DEF IndInv, TypeOK
<1>2. WithinTotal'
  BY SyncAssumption DEF IndInv, TypeOK, Shapes, WithinTotal, RefuseToken, At, row,
     End, Fault, MoveToken
<1>3. SessionInv(s)'
  BY SyncAssumption, <1>1 DEF IndInv, TypeOK, Shapes, Flags, SessionInv, Own, Covered,
     FundHeld, TokHeld, Working, Due, Token, Stages, Sources, RefuseToken, At, row,
     End, Fault, MoveToken, Lose
<1>4. OthersSame(s)
  BY DEF IndInv, TypeOK, Shapes, Flags, OthersSame, RefuseToken, At, row, End, Fault,
     MoveToken, Lose
<1> QED
  BY <1>1, <1>2, <1>3, <1>4, OthersKeep

(* TakeWallet keeps the shapes. *)
LEMMA ShapesOfTakeWallet ==
    ASSUME Shapes, NEW s \in Sessions, TakeWallet(s)
    PROVE  Shapes'
  BY SyncAssumption DEF Shapes, Stages, Sources, Token, TakeWallet, At, row, MoveFund

(* TakeWallet preserves the invariant. *)
LEMMA TakeWalletOk ==
    ASSUME IndInv, NEW s \in Sessions, TakeWallet(s)
    PROVE  IndInv'
<1>0. Flags'
  <2>1. cancelled' = cancelled
    BY DEF TakeWallet, row, ConsumeSubscription
  <2>2. lost' = lost
    BY DEF TakeWallet
  <2> QED
    BY <2>1, <2>2, FlagsKept DEF IndInv, TypeOK
<1>1. TypeOK'
  BY <1>0, ShapesOfTakeWallet DEF IndInv, TypeOK
<1>2. WithinTotal'
  BY SyncAssumption DEF IndInv, TypeOK, Shapes, WithinTotal, TakeWallet, At, row,
     MoveFund
<1>3. SessionInv(s)'
  BY SyncAssumption, <1>1 DEF IndInv, TypeOK, Shapes, Flags, SessionInv, Own, Covered,
     FundHeld, TokHeld, Working, Due, Token, Stages, Sources, TakeWallet, At, row,
     MoveFund
<1>4. OthersSame(s)
  BY DEF IndInv, TypeOK, Shapes, Flags, OthersSame, TakeWallet, At, row, MoveFund
<1> QED
  BY <1>1, <1>2, <1>3, <1>4, OthersKeep

(* TakeSubscription keeps the shapes. *)
LEMMA ShapesOfTakeSubscription ==
    ASSUME Shapes, NEW s \in Sessions, TakeSubscription(s)
    PROVE  Shapes'
  BY SyncAssumption DEF Shapes, Stages, Sources, Token, TakeSubscription, At, row,
     ConsumeSubscription, UsedNow, Fits, MoveFund

(* TakeSubscription preserves the invariant. *)
LEMMA TakeSubscriptionOk ==
    ASSUME IndInv, NEW s \in Sessions, TakeSubscription(s)
    PROVE  IndInv'
<1>0. Flags'
  <2>1. cancelled' = cancelled
    BY DEF TakeSubscription, row, ConsumeSubscription
  <2>2. lost' = lost
    BY DEF TakeSubscription
  <2> QED
    BY <2>1, <2>2, FlagsKept DEF IndInv, TypeOK
<1>1. TypeOK'
  BY <1>0, ShapesOfTakeSubscription DEF IndInv, TypeOK
<1>2. WithinTotal'
  BY SyncAssumption DEF IndInv, TypeOK, Shapes, WithinTotal, TakeSubscription, At,
     row, ConsumeSubscription, UsedNow, Fits, MoveFund
<1>3. SessionInv(s)'
  BY SyncAssumption, <1>1 DEF IndInv, TypeOK, Shapes, Flags, SessionInv, Own, Covered,
     FundHeld, TokHeld, Working, Due, Token, Stages, Sources, TakeSubscription, At,
     row, ConsumeSubscription, UsedNow, Fits, MoveFund
<1>4. OthersSame(s)
  BY DEF IndInv, TypeOK, Shapes, Flags, OthersSame, TakeSubscription, At, row,
     ConsumeSubscription, UsedNow, Fits, MoveFund
<1> QED
  BY <1>1, <1>2, <1>3, <1>4, OthersKeep

(* RefuseSubscription keeps the shapes. *)
LEMMA ShapesOfRefuseSubscription ==
    ASSUME Shapes, NEW s \in Sessions, RefuseSubscription(s)
    PROVE  Shapes'
  BY SyncAssumption DEF Shapes, Stages, Sources, Token, RefuseSubscription, At, row

(* RefuseSubscription preserves the invariant. *)
LEMMA RefuseSubscriptionOk ==
    ASSUME IndInv, NEW s \in Sessions, RefuseSubscription(s)
    PROVE  IndInv'
<1>0. Flags'
  <2>1. cancelled' = cancelled
    BY DEF RefuseSubscription, row, ConsumeSubscription
  <2>2. lost' = lost
    BY DEF RefuseSubscription
  <2> QED
    BY <2>1, <2>2, FlagsKept DEF IndInv, TypeOK
<1>1. TypeOK'
  BY <1>0, ShapesOfRefuseSubscription DEF IndInv, TypeOK
<1>2. WithinTotal'
  BY SyncAssumption DEF IndInv, TypeOK, Shapes, WithinTotal, RefuseSubscription, At,
     row
<1>3. SessionInv(s)'
  BY SyncAssumption, <1>1 DEF IndInv, TypeOK, Shapes, Flags, SessionInv, Own, Covered,
     FundHeld, TokHeld, Working, Due, Token, Stages, Sources, RefuseSubscription, At,
     row
<1>4. OthersSame(s)
  BY DEF IndInv, TypeOK, Shapes, Flags, OthersSame, RefuseSubscription, At, row
<1> QED
  BY <1>1, <1>2, <1>3, <1>4, OthersKeep

(* FundingFails keeps the shapes. *)
LEMMA ShapesOfFundingFails ==
    ASSUME Shapes, NEW s \in Sessions, FundingFails(s)
    PROVE  Shapes'
  BY SyncAssumption DEF Shapes, Stages, Sources, Token, FundingFails, At, row, Fault,
     MoveFund, ConsumeSubscription, UsedNow, Fits

(* FundingFails preserves the invariant. *)
LEMMA FundingFailsOk ==
    ASSUME IndInv, NEW s \in Sessions, FundingFails(s)
    PROVE  IndInv'
<1>0. Flags'
  <2>1. cancelled' = cancelled
    BY DEF FundingFails, row, ConsumeSubscription
  <2>2. lost' = lost \/ Lose(s)
    BY DEF FundingFails
  <2> QED
    BY <2>1, <2>2, FlagsKept DEF IndInv, TypeOK
<1>1. TypeOK'
  BY <1>0, ShapesOfFundingFails DEF IndInv, TypeOK
<1>2. WithinTotal'
  BY SyncAssumption DEF IndInv, TypeOK, Shapes, WithinTotal, FundingFails, At, row,
     Fault, MoveFund, ConsumeSubscription, UsedNow, Fits
<1>3. SessionInv(s)'
  BY SyncAssumption, <1>1 DEF IndInv, TypeOK, Shapes, Flags, SessionInv, Own, Covered,
     FundHeld, TokHeld, Working, Due, Token, Stages, Sources, FundingFails, At, row,
     Fault, Lose, MoveFund, ConsumeSubscription, UsedNow, Fits
<1>4. OthersSame(s)
  BY DEF IndInv, TypeOK, Shapes, Flags, OthersSame, FundingFails, At, row, Fault,
     Lose, MoveFund, ConsumeSubscription, UsedNow, Fits
<1> QED
  BY <1>1, <1>2, <1>3, <1>4, OthersKeep

(* RollbackToken keeps the shapes. *)
LEMMA ShapesOfRollbackToken ==
    ASSUME Shapes, NEW s \in Sessions, RollbackToken(s)
    PROVE  Shapes'
  BY SyncAssumption DEF Shapes, Stages, Sources, Token, RollbackToken, At, row,
     Fallback, End, MoveToken, Fault

(* RollbackToken preserves the invariant. *)
LEMMA RollbackTokenOk ==
    ASSUME IndInv, NEW s \in Sessions, RollbackToken(s)
    PROVE  IndInv'
<1>0. Flags'
  <2>1. cancelled' = cancelled
    BY DEF RollbackToken, row, ConsumeSubscription
  <2>2. lost' = lost \/ Lose(s)
    BY DEF RollbackToken
  <2> QED
    BY <2>1, <2>2, FlagsKept DEF IndInv, TypeOK
<1>1. TypeOK'
  BY <1>0, ShapesOfRollbackToken DEF IndInv, TypeOK
<1>2. WithinTotal'
  BY SyncAssumption DEF IndInv, TypeOK, Shapes, WithinTotal, RollbackToken, At, row,
     Fallback, End, MoveToken, Fault
<1>3. SessionInv(s)'
  BY SyncAssumption, <1>1 DEF IndInv, TypeOK, Shapes, Flags, SessionInv, Own, Covered,
     FundHeld, TokHeld, Working, Due, Token, Stages, Sources, RollbackToken, At, row,
     Fallback, End, MoveToken, Fault, Lose
<1>4. OthersSame(s)
  BY DEF IndInv, TypeOK, Shapes, Flags, OthersSame, RollbackToken, At, row, Fallback,
     End, MoveToken, Fault, Lose
<1> QED
  BY <1>1, <1>2, <1>3, <1>4, OthersKeep

(* Settle keeps the shapes. *)
LEMMA ShapesOfSettle ==
    ASSUME Shapes, NEW s \in Sessions, Settle(s)
    PROVE  Shapes'
  BY SyncAssumption DEF Shapes, Stages, Sources, Token, Settle, At, row, End,
     SettleFunding, MoveFund, PostFits, PostUsed, Clamp, Fits

(* Settle preserves the invariant. *)
LEMMA SettleOk ==
    ASSUME IndInv, NEW s \in Sessions, Settle(s)
    PROVE  IndInv'
<1>0. Flags'
  <2>1. cancelled' = cancelled
    BY DEF Settle, row, ConsumeSubscription
  <2>2. lost' = lost
    BY DEF Settle
  <2> QED
    BY <2>1, <2>2, FlagsKept DEF IndInv, TypeOK
<1>1. TypeOK'
  BY <1>0, ShapesOfSettle DEF IndInv, TypeOK
<1>2. WithinTotal'
  BY SyncAssumption DEF IndInv, TypeOK, Shapes, WithinTotal, Settle, At, row, End,
     SettleFunding, MoveFund, PostFits, PostUsed, Clamp, Fits
<1>3. SessionInv(s)'
  <2>1. PICK p \in Quotas :
          /\ price' = [price EXCEPT ![s] = p]
          /\ \/ /\ p - amount[s] = 0
                /\ End(s, "open", "settled")
                /\ UNCHANGED <<fund, used>>
             \/ /\ At(s, "open", "settle")
                /\ MoveFund(s, p - amount[s])
                /\ UNCHANGED outcome
          /\ UNCHANGED <<source, amount, held, tok, record, lost>>
    BY SyncAssumption DEF Settle, SettleFunding
  <2>2. CASE p - amount[s] = 0 /\ End(s, "open", "settled") /\ UNCHANGED <<fund, used>>
    BY SyncAssumption, <2>1, <2>2 DEF IndInv, TypeOK, Shapes, Flags, SessionInv, Own,
       Covered, FundHeld, TokHeld, Working, Due, Token, End, At
  <2>3. CASE At(s, "open", "settle") /\ MoveFund(s, p - amount[s]) /\ UNCHANGED outcome
    BY SyncAssumption, <2>1, <2>3 DEF IndInv, TypeOK, Shapes, Flags, SessionInv, Own,
       Covered, FundHeld, TokHeld, Working, Due, Token, At, MoveFund
  <2> QED
    BY <2>1, <2>2, <2>3
<1>4. OthersSame(s)
  BY DEF IndInv, TypeOK, Shapes, Flags, OthersSame, Settle, At, row, End,
     SettleFunding, MoveFund, PostFits, PostUsed, Clamp, Fits
<1> QED
  BY <1>1, <1>2, <1>3, <1>4, OthersKeep

(* SettleRefused keeps the shapes. *)
LEMMA ShapesOfSettleRefused ==
    ASSUME Shapes, NEW s \in Sessions, SettleRefused(s)
    PROVE  Shapes'
  BY SyncAssumption DEF Shapes, Stages, Sources, Token, SettleRefused, At, row, End,
     Fault, SettleFunding, MoveFund, PostFits, PostUsed, Clamp, Fits

(* SettleRefused preserves the invariant. *)
LEMMA SettleRefusedOk ==
    ASSUME IndInv, NEW s \in Sessions, SettleRefused(s)
    PROVE  IndInv'
<1>0. Flags'
  <2>1. cancelled' = cancelled
    BY DEF SettleRefused, row, ConsumeSubscription
  <2>2. lost' = lost \/ Lose(s)
    BY DEF SettleRefused
  <2> QED
    BY <2>1, <2>2, FlagsKept DEF IndInv, TypeOK
<1>1. TypeOK'
  BY <1>0, ShapesOfSettleRefused DEF IndInv, TypeOK
<1>2. WithinTotal'
  BY SyncAssumption DEF IndInv, TypeOK, Shapes, WithinTotal, SettleRefused, At, row,
     End, Fault, SettleFunding, MoveFund, PostFits, PostUsed, Clamp, Fits
<1>3. SessionInv(s)'
  BY SyncAssumption, <1>1 DEF IndInv, TypeOK, Shapes, Flags, SessionInv, Own, Covered,
     FundHeld, TokHeld, Working, Due, Token, Stages, Sources, SettleRefused, At, row,
     End, Fault, Lose, SettleFunding, MoveFund, PostFits, PostUsed, Clamp, Fits
<1>4. OthersSame(s)
  BY DEF IndInv, TypeOK, Shapes, Flags, OthersSame, SettleRefused, At, row, End,
     Fault, Lose, SettleFunding, MoveFund, PostFits, PostUsed, Clamp, Fits
<1> QED
  BY <1>1, <1>2, <1>3, <1>4, OthersKeep

(* SettleToken keeps the shapes. *)
LEMMA ShapesOfSettleToken ==
    ASSUME Shapes, NEW s \in Sessions, SettleToken(s)
    PROVE  Shapes'
  BY SyncAssumption DEF Shapes, Stages, Sources, Token, SettleToken, At, row, End,
     MoveToken, Fault

(* SettleToken preserves the invariant. *)
LEMMA SettleTokenOk ==
    ASSUME IndInv, NEW s \in Sessions, SettleToken(s)
    PROVE  IndInv'
<1>0. Flags'
  <2>1. cancelled' = cancelled
    BY DEF SettleToken, row, ConsumeSubscription
  <2>2. lost' = lost \/ Lose(s)
    BY DEF SettleToken
  <2> QED
    BY <2>1, <2>2, FlagsKept DEF IndInv, TypeOK
<1>1. TypeOK'
  BY <1>0, ShapesOfSettleToken DEF IndInv, TypeOK
<1>2. WithinTotal'
  BY SyncAssumption DEF IndInv, TypeOK, Shapes, WithinTotal, SettleToken, At, row,
     End, MoveToken, Fault
<1>3. SessionInv(s)'
  BY SyncAssumption, <1>1 DEF IndInv, TypeOK, Shapes, Flags, SessionInv, Own, Covered,
     FundHeld, TokHeld, Working, Due, Token, Stages, Sources, SettleToken, At, row,
     End, MoveToken, Fault, Lose
<1>4. OthersSame(s)
  BY DEF IndInv, TypeOK, Shapes, Flags, OthersSame, SettleToken, At, row, End,
     MoveToken, Fault, Lose
<1> QED
  BY <1>1, <1>2, <1>3, <1>4, OthersKeep

(* Refund keeps the shapes. *)
LEMMA ShapesOfRefund ==
    ASSUME Shapes, NEW s \in Sessions, Refund(s)
    PROVE  Shapes'
  BY SyncAssumption DEF Shapes, Stages, Sources, Token, Refund, At, row, NeedsRefund

(* Refund preserves the invariant. *)
LEMMA RefundOk ==
    ASSUME IndInv, NEW s \in Sessions, Refund(s)
    PROVE  IndInv'
<1>0. Flags'
  <2>1. cancelled' = cancelled
    BY DEF Refund, row, ConsumeSubscription
  <2>2. lost' = lost
    BY DEF Refund
  <2> QED
    BY <2>1, <2>2, FlagsKept DEF IndInv, TypeOK
<1>1. TypeOK'
  BY <1>0, ShapesOfRefund DEF IndInv, TypeOK
<1>2. WithinTotal'
  BY SyncAssumption DEF IndInv, TypeOK, Shapes, WithinTotal, Refund, At, row,
     NeedsRefund
<1>3. SessionInv(s)'
  BY SyncAssumption, <1>1 DEF IndInv, TypeOK, Shapes, Flags, SessionInv, Own, Covered,
     FundHeld, TokHeld, Working, Due, Token, Stages, Sources, Refund, At, row,
     NeedsRefund
<1>4. OthersSame(s)
  BY DEF IndInv, TypeOK, Shapes, Flags, OthersSame, Refund, At, row, NeedsRefund
<1> QED
  BY <1>1, <1>2, <1>3, <1>4, OthersKeep

(* RefundWallet keeps the shapes. *)
LEMMA ShapesOfRefundWallet ==
    ASSUME Shapes, NEW s \in Sessions, RefundWallet(s)
    PROVE  Shapes'
  BY SyncAssumption DEF Shapes, Stages, Sources, Token, RefundWallet, At, row,
     MoveFund, Fault

(* RefundWallet preserves the invariant. *)
LEMMA RefundWalletOk ==
    ASSUME IndInv, NEW s \in Sessions, RefundWallet(s)
    PROVE  IndInv'
<1>0. Flags'
  <2>1. cancelled' = cancelled
    BY DEF RefundWallet, row, ConsumeSubscription
  <2>2. lost' = lost \/ Lose(s)
    BY DEF RefundWallet
  <2> QED
    BY <2>1, <2>2, FlagsKept DEF IndInv, TypeOK
<1>1. TypeOK'
  BY <1>0, ShapesOfRefundWallet DEF IndInv, TypeOK
<1>2. WithinTotal'
  BY SyncAssumption DEF IndInv, TypeOK, Shapes, WithinTotal, RefundWallet, At, row,
     MoveFund, Fault
<1>3. SessionInv(s)'
  BY SyncAssumption, <1>1 DEF IndInv, TypeOK, Shapes, Flags, SessionInv, Own, Covered,
     FundHeld, TokHeld, Working, Due, Token, Stages, Sources, RefundWallet, At, row,
     MoveFund, Fault, Lose
<1>4. OthersSame(s)
  BY DEF IndInv, TypeOK, Shapes, Flags, OthersSame, RefundWallet, At, row, MoveFund,
     Fault, Lose
<1> QED
  BY <1>1, <1>2, <1>3, <1>4, OthersKeep

(* RefundSubscription keeps the shapes. *)
LEMMA ShapesOfRefundSubscription ==
    ASSUME Shapes, NEW s \in Sessions, RefundSubscription(s)
    PROVE  Shapes'
  BY SyncAssumption DEF Shapes, Stages, Sources, Token, RefundSubscription, At, row,
     ReturnSubscription, MoveFund, PostUsed, Clamp

(* RefundSubscription preserves the invariant. *)
LEMMA RefundSubscriptionOk ==
    ASSUME IndInv, NEW s \in Sessions, RefundSubscription(s)
    PROVE  IndInv'
<1>0. Flags'
  <2>1. cancelled' = cancelled
    BY DEF RefundSubscription, row, ConsumeSubscription
  <2>2. lost' = lost
    BY DEF RefundSubscription
  <2> QED
    BY <2>1, <2>2, FlagsKept DEF IndInv, TypeOK
<1>1. TypeOK'
  BY <1>0, ShapesOfRefundSubscription DEF IndInv, TypeOK
<1>2. WithinTotal'
  BY SyncAssumption DEF IndInv, TypeOK, Shapes, WithinTotal, RefundSubscription, At,
     row, ReturnSubscription, MoveFund, PostUsed, Clamp
<1>3. SessionInv(s)'
  BY SyncAssumption, <1>1 DEF IndInv, TypeOK, Shapes, Flags, SessionInv, Own, Covered,
     FundHeld, TokHeld, Working, Due, Token, Stages, Sources, RefundSubscription, At,
     row, ReturnSubscription, MoveFund, PostUsed, Clamp
<1>4. OthersSame(s)
  BY DEF IndInv, TypeOK, Shapes, Flags, OthersSame, RefundSubscription, At, row,
     ReturnSubscription, MoveFund, PostUsed, Clamp
<1> QED
  BY <1>1, <1>2, <1>3, <1>4, OthersKeep

(* RefundRetried keeps the shapes. *)
LEMMA ShapesOfRefundRetried ==
    ASSUME Shapes, NEW s \in Sessions, RefundRetried(s)
    PROVE  Shapes'
  BY SyncAssumption DEF Shapes, Stages, Sources, Token, RefundRetried, At, row, Fault,
     ReturnSubscription, MoveFund, PostUsed, Clamp

(* RefundRetried preserves the invariant. *)
LEMMA RefundRetriedOk ==
    ASSUME IndInv, NEW s \in Sessions, RefundRetried(s)
    PROVE  IndInv'
<1>0. Flags'
  <2>1. cancelled' = cancelled
    BY DEF RefundRetried, row, ConsumeSubscription
  <2>2. lost' = lost \/ lost' = [lost EXCEPT ![s] = @ \/ record'[s] = "consumed"]
    BY DEF RefundRetried
  <2> QED
    BY <2>1, <2>2, FlagsKept DEF IndInv, TypeOK
<1>1. TypeOK'
  BY <1>0, ShapesOfRefundRetried DEF IndInv, TypeOK
<1>2. WithinTotal'
  BY SyncAssumption DEF IndInv, TypeOK, Shapes, WithinTotal, RefundRetried, At, row,
     Fault, ReturnSubscription, MoveFund, PostUsed, Clamp
<1>3. SessionInv(s)'
  BY SyncAssumption, <1>1 DEF IndInv, TypeOK, Shapes, Flags, SessionInv, Own, Covered,
     FundHeld, TokHeld, Working, Due, Token, Stages, Sources, RefundRetried, At, row,
     Fault, ReturnSubscription, MoveFund, PostUsed, Clamp
<1>4. OthersSame(s)
  BY DEF IndInv, TypeOK, Shapes, Flags, OthersSame, RefundRetried, At, row, Fault,
     ReturnSubscription, MoveFund, PostUsed, Clamp
<1> QED
  BY <1>1, <1>2, <1>3, <1>4, OthersKeep

(* RefundToken keeps the shapes. *)
LEMMA ShapesOfRefundToken ==
    ASSUME Shapes, NEW s \in Sessions, RefundToken(s)
    PROVE  Shapes'
  BY SyncAssumption DEF Shapes, Stages, Sources, Token, RefundToken, At, row,
     MoveToken, Fault

(* RefundToken preserves the invariant. *)
LEMMA RefundTokenOk ==
    ASSUME IndInv, NEW s \in Sessions, RefundToken(s)
    PROVE  IndInv'
<1>0. Flags'
  <2>1. cancelled' = cancelled
    BY DEF RefundToken, row, ConsumeSubscription
  <2>2. lost' = lost \/ Lose(s)
    BY DEF RefundToken
  <2> QED
    BY <2>1, <2>2, FlagsKept DEF IndInv, TypeOK
<1>1. TypeOK'
  BY <1>0, ShapesOfRefundToken DEF IndInv, TypeOK
<1>2. WithinTotal'
  BY SyncAssumption DEF IndInv, TypeOK, Shapes, WithinTotal, RefundToken, At, row,
     MoveToken, Fault
<1>3. SessionInv(s)'
  <2>1. CASE MoveToken(s, -held[s]) /\ UNCHANGED <<lost, faults>>
    BY <2>1, <1>1 DEF IndInv, TypeOK, Shapes, Flags, SessionInv, Own, Covered,
       FundHeld, TokHeld, Working, Due, Token, RefundToken, At, MoveToken
  <2>2. CASE Lose(s) /\ UNCHANGED tok
    BY <2>2, <1>1 DEF IndInv, TypeOK, Shapes, Flags, SessionInv, Own, Covered,
       FundHeld, TokHeld, Working, Due, Token, RefundToken, At, Lose
  <2> QED
    BY <2>1, <2>2 DEF RefundToken
<1>4. OthersSame(s)
  BY DEF IndInv, TypeOK, Shapes, Flags, OthersSame, RefundToken, At, row, MoveToken,
     Fault, Lose
<1> QED
  BY <1>1, <1>2, <1>3, <1>4, OthersKeep

(* Crash keeps the shapes. *)
LEMMA ShapesOfCrash ==
    ASSUME Shapes, NEW s \in Sessions, Crash(s)
    PROVE  Shapes'
  BY SyncAssumption DEF Shapes, Stages, Sources, Token, Crash, At, row, Fault, End

(* Crash preserves the invariant. *)
LEMMA CrashOk ==
    ASSUME IndInv, NEW s \in Sessions, Crash(s)
    PROVE  IndInv'
<1>0. Flags'
  <2>1. cancelled' = cancelled
    BY DEF Crash, row, ConsumeSubscription
  <2>2. lost' = lost \/ Lose(s)
    BY DEF Crash
  <2> QED
    BY <2>1, <2>2, FlagsKept DEF IndInv, TypeOK
<1>1. TypeOK'
  BY <1>0, ShapesOfCrash DEF IndInv, TypeOK
<1>2. WithinTotal'
  BY SyncAssumption DEF IndInv, TypeOK, Shapes, WithinTotal, Crash, At, row, Fault,
     End
<1>3. SessionInv(s)'
  BY SyncAssumption, <1>1 DEF IndInv, TypeOK, Shapes, Flags, SessionInv, Own, Covered,
     FundHeld, TokHeld, Working, Due, Token, Stages, Sources, Crash, At, row, Fault,
     End, Lose
<1>4. OthersSame(s)
  BY DEF IndInv, TypeOK, Shapes, Flags, OthersSame, Crash, At, row, Fault, End, Lose
<1> QED
  BY <1>1, <1>2, <1>3, <1>4, OthersKeep

(* Steps of the reset task, the clock and the administrator touch no session.  *)
LEMMA RowOk ==
    ASSUME IndInv,
           PeriodEnds \/ ResetList \/ ResetRead \/ ResetSave \/ ResetFails \/ AdminInvalidate
    PROVE  IndInv'
<1>0. Flags'
  <2>1. lost' = lost /\ (cancelled' = cancelled \/ cancelled' = TRUE)
    BY DEF session, PeriodEnds, ResetList, ResetRead, ResetSave, ResetFails,
       AdminInvalidate
  <2> QED
    BY <2>1, Zenon DEF IndInv, TypeOK, Flags
<1>1. Shapes'
  <2>0. Shapes
    BY DEF IndInv, TypeOK
  <2>1. CASE PeriodEnds
    BY <2>0, <2>1, SyncAssumption DEF Shapes, session, PeriodEnds
  <2>2. CASE ResetList
    BY <2>0, <2>2, SyncAssumption DEF Shapes, session, ResetList
  <2>3. CASE ResetRead
    BY <2>0, <2>3, SyncAssumption DEF Shapes, session, ResetRead
  <2>4. CASE ResetSave
    BY <2>0, <2>4, SyncAssumption DEF Shapes, session, ResetSave
  <2>5. CASE ResetFails
    BY <2>0, <2>5, SyncAssumption DEF Shapes, session, ResetFails, Fault
  <2>6. CASE AdminInvalidate
    BY <2>0, <2>6, SyncAssumption DEF Shapes, session, AdminInvalidate
  <2> QED
    BY <2>1, <2>2, <2>3, <2>4, <2>5, <2>6
<1>2. WithinTotal'
  BY SyncAssumption DEF IndInv, TypeOK, Shapes, WithinTotal, PeriodEnds, ResetList,
     ResetRead, ResetSave, ResetFails, AdminInvalidate
<1>3. UNCHANGED session
  BY DEF PeriodEnds, ResetList, ResetRead, ResetSave, ResetFails, AdminInvalidate
<1>4. \A s \in Sessions : SessionInv(s)'
  BY <1>3 DEF IndInv, session, SessionInv, Own, Covered, FundHeld, TokHeld, Working,
     Due, Token
<1> QED
  BY <1>0, <1>1, <1>2, <1>4 DEF IndInv, TypeOK

(* Every step preserves the invariant.                                         *)
LEMMA StepOk == IndInv /\ [Next]_vars => IndInv'
<1> SUFFICES ASSUME IndInv, [Next]_vars PROVE IndInv'
  OBVIOUS
<1>1. ASSUME NEW s \in Sessions, SessionStep(s) PROVE IndInv'
  BY <1>1, NewBillingSessionOk, TryWalletOk, TrySubscriptionOk, TakeTokenOk,
     RefuseTokenOk, TakeWalletOk, TakeSubscriptionOk, RefuseSubscriptionOk,
     FundingFailsOk, RollbackTokenOk, SettleOk, SettleRefusedOk, SettleTokenOk,
     RefundOk, RefundWalletOk, RefundSubscriptionOk, RefundRetriedOk, RefundTokenOk,
     CrashOk DEF SessionStep
<1>2. CASE PeriodEnds \/ ResetList \/ ResetRead \/ ResetSave \/ ResetFails \/ AdminInvalidate
  BY <1>2, RowOk
<1>3. CASE UNCHANGED vars
  <2>1. UNCHANGED <<session, row, faults>>
    BY <1>3 DEF vars
  <2>2. TypeOK' /\ WithinTotal'
    BY <2>1 DEF IndInv, TypeOK, Shapes, Flags, WithinTotal, session, row
  <2>3. \A s \in Sessions : SessionInv(s)'
    BY <2>1 DEF IndInv, session, SessionInv, Own, Covered, FundHeld, TokHeld, Working,
       Due, Token
  <2> QED
    BY <2>2, <2>3 DEF IndInv
<1> QED
  BY <1>1, <1>2, <1>3 DEF Next

(* The invariant holds of every behaviour of the sessions and the row.         *)
THEOREM SyncInvariant == Spec => []IndInv
<1> QED
  BY InitOk, StepOk, PTL DEF Spec

(* The fields keep their shapes; the use of a subscription is never negative   *)
(* although refunds come after resets (the clamp of                            *)
(* PostConsumeUserSubscriptionDeltaTx).                                        *)
THEOREM SyncTypes == Spec => []TypeOK
<1>1. IndInv => TypeOK
  BY DEF IndInv
<1> QED
  BY <1>1, SyncInvariant, PTL

(* A session that ended has taken exactly what it owes: the rollbacks of       *)
(* preConsume, the fallback between sources, settle and refund agree.          *)
THEOREM LedgerCorrect == Spec => []LedgerAtEnd
<1>1. IndInv => LedgerAtEnd
  BY DEF IndInv, SessionInv, Covered, FundHeld, TokHeld, Working, LedgerAtEnd
<1> QED
  BY <1>1, SyncInvariant, PTL

(* No session ever gives back more than it took, whatever is retried or fails. *)
THEOREM NoOverRefund == Spec => []NeverOverRefunded
<1>1. ASSUME IndInv, NEW s \in Sessions PROVE fund[s] >= 0 /\ tok[s] >= 0
  BY <1>1 DEF IndInv, TypeOK, Shapes, SessionInv, Covered, FundHeld, TokHeld, Working,
     Due, Token
<1>2. IndInv => NeverOverRefunded
  BY <1>1 DEF NeverOverRefunded
<1> QED
  BY <1>2, SyncInvariant, PTL

(* The use of a limited subscription stays within its total.                   *)
THEOREM TotalCorrect == Spec => []WithinTotal
<1>1. IndInv => WithinTotal
  BY DEF IndInv
<1> QED
  BY <1>1, SyncInvariant, PTL

=============================================================================
