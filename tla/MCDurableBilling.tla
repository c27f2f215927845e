-------------------------- MODULE MCDurableBilling --------------------------
(* Instances of DurableBilling for TLC. *)
EXTENDS DurableBilling, TLC

MCSources == [s \in Sources |-> IF s = "wallet" THEN 3 ELSE 2]
MCScarce == [s \in Sources |-> IF s = "wallet" THEN 1 ELSE 2]
MCWalletFirst == <<"wallet", "subscription">>
MCSubscriptionFirst == <<"subscription", "wallet">>

\* Workers differ in nothing.
MCSymmetry == Permutations(Workers)
=============================================================================
