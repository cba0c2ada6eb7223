----------------------------- MODULE WorkBudget -----------------------------
(***************************************************************************)
(* The request-scoped budget of work_budget.py as operators on its state.  *)
(* Each method of the class runs under the budget's own lock, so a method  *)
(* is one operator here and one step of a module that uses it.  The        *)
(* absolute deadline is the flag expired, which once set stays set.        *)
(***************************************************************************)
EXTENDS Naturals

CONSTANTS MaxAttempts, MaxInputBytes, MaxOutputTokens

ASSUME BudgetAssumption ==
    /\ MaxAttempts \in Nat \ {0}
    /\ MaxInputBytes \in Nat \ {0}
    /\ MaxOutputTokens \in Nat \ {0}

\* What WorkBudgetExceeded may carry; "none" is cancel_reason = None.
Reasons == {"cancelled", "deadline", "attempts", "input_bytes",
            "output_tokens", "queue"}

Budget == [attempts : Nat, inputBytes : Nat, outputTokens : Nat,
           cancelReason : Reasons \cup {"none"}, expired : BOOLEAN]

\* What one provider call would consume.
Cost == [inputBytes : Nat, outputTokens : Nat \ {0}]

NewBudget == [attempts |-> 0, inputBytes |-> 0, outputTokens |-> 0,
              cancelReason |-> "none", expired |-> FALSE]

\* cancel(): the first reason stays.
Cancel(b, reason) ==
    IF b.cancelReason = "none" THEN [b EXCEPT !.cancelReason = reason] ELSE b

\* ensure_active(): "none", or the reason it raises.
Inactive(b) ==
    IF b.cancelReason # "none" THEN b.cancelReason
    ELSE IF b.expired THEN "deadline" ELSE "none"

Active(b) == Inactive(b) = "none"

RefusalLate(b, cost) ==                 \* mutant: the limit is checked before the call is added
    IF ~Active(b) THEN Inactive(b)
    ELSE IF b.attempts > MaxAttempts THEN "attempts"
    ELSE IF b.inputBytes > MaxInputBytes THEN "input_bytes"
    ELSE IF b.outputTokens > MaxOutputTokens THEN "output_tokens"
    ELSE "none"

\* reserve_attempt(): "none", or the reason it raises, checked in this order.
Refusal(b, cost) ==
    IF ~Active(b) THEN Inactive(b)
    ELSE IF b.attempts + 1 > MaxAttempts THEN "attempts"
    ELSE IF b.inputBytes + cost.inputBytes > MaxInputBytes THEN "input_bytes"
    ELSE IF b.outputTokens + cost.outputTokens > MaxOutputTokens
         THEN "output_tokens"
    ELSE "none"

\* reserve_attempt() when it does not raise.
Reserved(b, cost) ==
    [b EXCEPT !.attempts = @ + 1,
              !.inputBytes = @ + cost.inputBytes,
              !.outputTokens = @ + cost.outputTokens]

\* No counter is ever above its limit.
WithinLimits(b) ==
    /\ b.attempts <= MaxAttempts
    /\ b.inputBytes <= MaxInputBytes
    /\ b.outputTokens <= MaxOutputTokens
=============================================================================
