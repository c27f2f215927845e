---------------------------- MODULE BillingLedger ----------------------------
(***************************************************************************)
(* What durable billing promises a user, without rows, leases, workers or  *)
(* retries: a submission holds an amount, may change it until its task     *)
(* starts, and gives it back or replaces it by the price of the result in  *)
(* one step, once, according to how the task ended.                        *)
(***************************************************************************)
EXTENDS Integers

CONSTANT Requests

VARIABLES phase,    \* "none", "held", then "charged" or "returned"
          paid,     \* what the user is out of pocket for the request
          job,      \* the task: "none", "LIVE", "SUCCESS" or "FAILURE"
          price     \* what a task that succeeded costs, fixed when it ends

ledger == <<phase, paid, job, price>>

\* Request r pays some amount, the others what they paid before.
PaysSome(r) == /\ paid'[r] \in Nat
               /\ \A q \in Requests \ {r} : paid'[q] = paid[q]

Hold(r) ==
    /\ phase[r] = "none"
    /\ phase' = [phase EXCEPT ![r] = "held"]
    /\ PaysSome(r)
    /\ UNCHANGED <<job, price>>

Adjust(r) ==
    /\ phase[r] = "held" /\ job[r] = "none"
    /\ PaysSome(r)
    /\ UNCHANGED <<phase, job, price>>

Start(r) ==
    /\ phase[r] = "held" /\ job[r] = "none"
    /\ job' = [job EXCEPT ![r] = "LIVE"]
    /\ UNCHANGED <<phase, paid, price>>

Finish(r) ==
    /\ phase[r] = "held" /\ job[r] = "LIVE"
    /\ job' \in {[job EXCEPT ![r] = "SUCCESS"], [job EXCEPT ![r] = "FAILURE"]}
    /\ price'[r] \in Nat /\ (job'[r] = "FAILURE" => price'[r] = 0)
    /\ \A q \in Requests \ {r} : price'[q] = price[q]
    /\ UNCHANGED <<phase, paid>>

Charge(r) ==
    /\ phase[r] = "held" /\ job[r] = "SUCCESS"
    /\ phase' = [phase EXCEPT ![r] = "charged"]
    /\ paid' = [paid EXCEPT ![r] = price[r]]
    /\ UNCHANGED <<job, price>>

GiveBack(r) ==
    /\ phase[r] = "held" /\ job[r] \in {"none", "FAILURE"}
    /\ phase' = [phase EXCEPT ![r] = "returned"]
    /\ paid' = [paid EXCEPT ![r] = 0]
    /\ UNCHANGED <<job, price>>

Init == /\ phase = [r \in Requests |-> "none"]
        /\ paid = [r \in Requests |-> 0]
        /\ job = [r \in Requests |-> "none"]
        /\ price = [r \in Requests |-> 0]

Next == \E r \in Requests :
    Hold(r) \/ Adjust(r) \/ Start(r) \/ Finish(r) \/ Charge(r) \/ GiveBack(r)

Spec == Init /\ [][Next]_ledger
=============================================================================
