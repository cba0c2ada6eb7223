------------------------- MODULE ProviderCallProofs -------------------------
(***************************************************************************)
(* Proofs about ProviderCall for every finite set of workers, every number *)
(* of requests, slots and retries, every budget and every configuration of *)
(* the two providers.                                                      *)
(***************************************************************************)
EXTENDS ProviderCall, FiniteSetTheorems, TLAPS

Providers == {"primary", "fallback"}
FinalKinds == {"ok", "rate_limited", "refused", "crashed"}
Answer == Providers \X (Failures \cup {"ok"})

\* The part of TypeOK about the locals of a worker.  One that gave up has a
\* reason to cancel the request with, one that pauses has an attempt left.
ControlOK ==
    /\ pc \in [Workers -> Labels]
    /\ provider \in [Workers -> Providers]
    /\ attempt \in [Workers -> 0..MaxRetries - 1]
    /\ status \in [Workers -> Failures \cup {"none"}]
    /\ result \in [Workers -> Reasons \cup
                     {"none", "ok", "provider_rate_limited", "provider_unavailable"}]
    /\ \A w \in Workers : pc[w] = "raised" => result[w] \in Reasons
    /\ \A w \in Workers : pc[w] = "backoff" => attempt[w] + 1 < MaxRetries

Typed == TypeOK /\ ControlOK /\ history \in [Workers -> Seq(Answer)]

-----------------------------------------------------------------------------
(* The budget. *)

LEMMA NewBudgetFits == NewBudget \in Budget /\ WithinLimits(NewBudget)
BY BudgetAssumption DEF NewBudget, Budget, WithinLimits, Reasons

LEMMA CancelKeeps ==
    ASSUME NEW b \in Budget, NEW reason \in Reasons
    PROVE  /\ Cancel(b, reason) \in Budget
           /\ Cancel(b, reason).attempts = b.attempts
           /\ WithinLimits(b) => WithinLimits(Cancel(b, reason))
BY DEF Cancel, Budget, WithinLimits

LEMMA InactiveReason ==
    ASSUME NEW b \in Budget
    PROVE  Inactive(b) \in Reasons \cup {"none"}
BY DEF Inactive, Budget, Reasons

LEMMA RefusalReason ==
    ASSUME NEW b \in Budget, NEW cost \in Cost
    PROVE  Refusal(b, cost) \in Reasons \cup {"none"}
BY InactiveReason DEF Refusal, Reasons

\* reserve_attempt takes a budget to its limits and not past them.
LEMMA ReservedFits ==
    ASSUME NEW b \in Budget, NEW cost \in Cost
    PROVE  /\ Reserved(b, cost) \in Budget
           /\ Reserved(b, cost).attempts = b.attempts + 1
           /\ Refusal(b, cost) = "none" => WithinLimits(Reserved(b, cost))
<1> DEFINE c == Reserved(b, cost)
           x == b.attempts + 1
           y == b.inputBytes + cost.inputBytes
           z == b.outputTokens + cost.outputTokens
<1>1. x \in Nat /\ y \in Nat /\ z \in Nat
  BY DEF Cost, Budget
<1>2. c = [b EXCEPT !.attempts = x, !.inputBytes = y, !.outputTokens = z]
  BY DEF Reserved
<1>3. ASSUME Refusal(b, cost) = "none"
      PROVE  ~(x > MaxAttempts) /\ ~(y > MaxInputBytes) /\ ~(z > MaxOutputTokens)
  <2>1. Inactive(b) \in Reasons \cup {"none"}
    BY InactiveReason
  <2> QED
    BY <1>3, <2>1 DEF Refusal, Active, Reasons
<1> HIDE DEF x, y, z, c
<1>4. c \in Budget /\ c.attempts = x /\ c.inputBytes = y /\ c.outputTokens = z
  BY <1>1, <1>2 DEF Budget
<1>5. Refusal(b, cost) = "none" => WithinLimits(c)
  BY <1>1, <1>3, <1>4, BudgetAssumption DEF WithinLimits
<1> QED
  BY <1>4, <1>5 DEF c, x

LEMMA ExpiredKeeps ==
    ASSUME NEW b \in Budget
    PROVE  /\ [b EXCEPT !.expired = TRUE] \in Budget
           /\ [b EXCEPT !.expired = TRUE].attempts = b.attempts
           /\ WithinLimits(b) => WithinLimits([b EXCEPT !.expired = TRUE])
BY DEF Budget, WithinLimits

-----------------------------------------------------------------------------
(* Types. *)

LEMMA RaiseControl ==
    ASSUME ControlOK, NEW w \in Workers, NEW reason \in Reasons, RaiseBudget(w, reason)
    PROVE  ControlOK' /\ pc' = [pc EXCEPT ![w] = "raised"]
BY DEF ControlOK, RaiseBudget, Goto, Labels

LEMMA LeaveControl ==
    ASSUME ControlOK, NEW w \in Workers, NEW o \in Failures, LeaveProvider(w, o)
    PROVE  ControlOK' /\ \E l \in {"check", "done"} : pc' = [pc EXCEPT ![w] = l]
<1> DEFINE kind == IF o = "crashed" THEN status[w] ELSE o
<1>1. kind \in Failures \cup {"none"}
  BY DEF ControlOK
<1>2. status' = [status EXCEPT ![w] = kind]
  BY DEF LeaveProvider
<1>3. CASE FallbackEligible(o) /\ provider[w] = "primary" /\ FallbackAllowed(w)
  BY <1>1, <1>2, <1>3, LimitsAssumption DEF ControlOK, LeaveProvider, Goto, Labels, Providers
<1>4. CASE ~(FallbackEligible(o) /\ provider[w] = "primary" /\ FallbackAllowed(w))
  BY <1>1, <1>2, <1>4 DEF ControlOK, LeaveProvider, Goto, Labels
<1> QED
  BY <1>3, <1>4

LEMMA AfterFailureControl ==
    ASSUME Typed, NEW w \in Workers, NEW o \in Failures, AfterFailure(w, o)
    PROVE  /\ ControlOK'
           /\ \E l \in {"backoff", "raised", "check", "done"} : pc' = [pc EXCEPT ![w] = l]
<1>1. CASE Retryable(o) /\ attempt[w] + 1 < MaxRetries /\ Active(BudgetOf(w))
  BY <1>1 DEF AfterFailure, Goto, Typed, ControlOK, Labels
<1>2. CASE Retryable(o) /\ attempt[w] + 1 < MaxRetries /\ ~Active(BudgetOf(w))
  <2>1. Inactive(BudgetOf(w)) \in Reasons
    BY <1>2, InactiveReason, WorkersAssumption DEF Typed, TypeOK, BudgetOf, Active
  <2> QED
    BY <1>2, <2>1, RaiseControl DEF AfterFailure, Typed
<1>3. CASE ~(Retryable(o) /\ attempt[w] + 1 < MaxRetries)
  BY <1>3, LeaveControl DEF AfterFailure, Typed
<1> QED
  BY <1>1, <1>2, <1>3

\* Whoever finds its budget inactive has a reason to raise.
LEMMA ReasonToRaise ==
    ASSUME Typed, NEW w \in Workers
    PROVE  /\ BudgetOf(w) \in Budget /\ RequestOf[w] \in Requests /\ CostOf[w] \in Cost
           /\ ~Active(BudgetOf(w)) => Inactive(BudgetOf(w)) \in Reasons
           /\ Refusal(BudgetOf(w), CostOf[w]) # "none"
                => Refusal(BudgetOf(w), CostOf[w]) \in Reasons
<1>1. BudgetOf(w) \in Budget /\ RequestOf[w] \in Requests /\ CostOf[w] \in Cost
  BY WorkersAssumption DEF Typed, TypeOK, BudgetOf
<1> QED
  BY <1>1, InactiveReason, RefusalReason DEF Active

MetricsType == [attempts : Nat, successes : Nat, rateLimited : Nat, failures : Nat]

LEMMA CountFailureType ==
    ASSUME metrics \in MetricsType, NEW o, CountFailure(o)
    PROVE  metrics' \in MetricsType
<1> DEFINE x == metrics.failures + 1
           y == IF o = "rate_limited" THEN metrics.rateLimited + 1 ELSE metrics.rateLimited
<1>1. x \in Nat /\ y \in Nat
  BY DEF MetricsType
<1>2. metrics' = [metrics EXCEPT !.failures = x, !.rateLimited = y]
  BY DEF CountFailure
<1> HIDE DEF x, y
<1> QED
  BY <1>1, <1>2 DEF MetricsType

-----------------------------------------------------------------------------
(* What a step of a worker does to what it shares with others. *)

One(P) == IF P THEN 1 ELSE 0
Spending(w) == pc[w] \in {"resolve", "dispatch", "sending", "inflight"}

Answered(w) == \E o \in Failures \cup {"ok"} :
                  history' = [history EXCEPT ![w] = Append(history[w], <<provider[w], o>>)]
Cancelled(w) == \E reason \in Reasons :
                   budget' = [budget EXCEPT ![RequestOf[w]] = Cancel(BudgetOf(w), reason)]

\* The slot is taken and given back with the label, an attempt is reserved
\* before the worker spends and an answer ends the spending.
StepEffect(w) ==
    /\ pc' = [pc EXCEPT ![w] = pc'[w]]
    /\ slots' = slots + One(HoldsSlot(w)) - One(HoldsSlot(w)')
    /\ slots = 0 => ~HoldsSlot(w)' \/ HoldsSlot(w)
    /\ \/ history' = history
       \/ Spending(w) /\ ~Spending(w)' /\ Answered(w)
    /\ \/ budget' = budget /\ (Spending(w)' => Spending(w))
       \/ /\ ~Spending(w)
          /\ Refusal(BudgetOf(w), CostOf[w]) = "none"
          /\ budget' = [budget EXCEPT ![RequestOf[w]] = Reserved(BudgetOf(w), CostOf[w])]
          /\ history' = history
       \/ ~Spending(w)' /\ Cancelled(w)
    /\ consent' = consent

LEMMA StepDoes ==
    ASSUME Typed, NEW w \in Workers, Step(w)
    PROVE  ControlOK' /\ metrics' \in MetricsType /\ StepEffect(w)
<1> USE DEF StepEffect, HoldsSlot, Spending, One
<1>t. ControlOK /\ metrics \in MetricsType /\ slots \in Int
  BY LimitsAssumption DEF Typed, TypeOK, MetricsType
<1>l. pc[w] \in Labels /\ pc \in [Workers -> Labels]
  BY <1>t DEF ControlOK
<1>r. /\ BudgetOf(w) \in Budget /\ RequestOf[w] \in Requests /\ CostOf[w] \in Cost
      /\ ~Active(BudgetOf(w)) => Inactive(BudgetOf(w)) \in Reasons
      /\ Refusal(BudgetOf(w), CostOf[w]) # "none"
           => Refusal(BudgetOf(w), CostOf[w]) \in Reasons
  BY ReasonToRaise
<1>1. CASE CheckActive(w)
  <2>1. CASE Active(BudgetOf(w))
    BY <1>1, <2>1, <1>t, <1>l DEF CheckActive, Goto, ControlOK, Labels
  <2>2. CASE ~Active(BudgetOf(w))
    <3>1. ControlOK' /\ pc' = [pc EXCEPT ![w] = "raised"]
      BY <1>1, <2>2, <1>t, <1>r, RaiseControl DEF CheckActive
    <3> QED
      BY <1>1, <3>1, <1>t, <1>l DEF CheckActive
  <2> QED
    BY <2>1, <2>2
<1>2. CASE TakeSlot(w)
  BY <1>2, <1>t, <1>l DEF TakeSlot, Goto, ControlOK, Labels
<1>3. CASE QueueTimeout(w)
  <2>1. ControlOK' /\ pc' = [pc EXCEPT ![w] = "raised"]
    BY <1>3, <1>t, RaiseControl DEF QueueTimeout, Reasons
  <2> QED
    BY <1>3, <2>1, <1>t, <1>l DEF QueueTimeout
<1>4. CASE Reserve(w)
  <2>1. CASE Refusal(BudgetOf(w), CostOf[w]) = "none"
    <3>1. budget' = [budget EXCEPT ![RequestOf[w]] = Reserved(BudgetOf(w), CostOf[w])]
      BY <1>4, <2>1 DEF Reserve, BudgetOf
    <3>2. /\ ControlOK'
          /\ pc' = [pc EXCEPT ![w] = pc'[w]] /\ pc'[w] \in {"resolve", "dispatch"}
      BY <1>4, <2>1, <1>t, <1>l DEF Reserve, Goto, ControlOK, Labels
    <3> QED
      BY <1>4, <2>1, <3>1, <3>2, <1>t, <1>l DEF Reserve
  <2>2. CASE Refusal(BudgetOf(w), CostOf[w]) # "none"
    <3>1. ControlOK' /\ pc' = [pc EXCEPT ![w] = "raised"]
      BY <1>4, <2>2, <1>t, <1>r, RaiseControl DEF Reserve
    <3> QED
      BY <1>4, <2>2, <3>1, <1>t, <1>l DEF Reserve
  <2> QED
    BY <2>1, <2>2
<1>5. CASE Resolve(w)
  BY <1>5, <1>t, <1>l DEF Resolve, Goto, ControlOK, Labels
<1>6. CASE ResolveInactive(w)
  <2>1. ControlOK' /\ pc' = [pc EXCEPT ![w] = "raised"]
    BY <1>6, <1>t, <1>r, RaiseControl DEF ResolveInactive
  <2> QED
    BY <1>6, <2>1, <1>t, <1>l DEF ResolveInactive
<1>7. ASSUME NEW o \in {"transient", "refused"}, ResolveFailed(w, o)
      PROVE  ControlOK' /\ metrics' \in MetricsType /\ StepEffect(w)
  <2>1. /\ ControlOK'
        /\ \E l \in {"backoff", "raised", "check", "done"} : pc' = [pc EXCEPT ![w] = l]
    BY <1>7, AfterFailureControl DEF ResolveFailed, Failures
  <2> QED
    BY <1>7, <2>1, <1>t, <1>l DEF ResolveFailed
<1>8. CASE Dispatch(w)
  <2>1. CASE BudgetOf(w).expired
    <3>1. ControlOK' /\ pc' = [pc EXCEPT ![w] = "raised"]
      BY <1>8, <2>1, <1>t, RaiseControl DEF Dispatch, Reasons
    <3> QED
      BY <1>8, <2>1, <3>1, <1>t, <1>l DEF Dispatch
  <2>2. CASE ~BudgetOf(w).expired
    <3>1. metrics' \in MetricsType
      BY <1>8, <2>2, <1>t DEF Dispatch, MetricsType
    <3>2. ControlOK' /\ pc' = [pc EXCEPT ![w] = "sending"]
      BY <1>8, <2>2, <1>t, <1>l DEF Dispatch, Goto, ControlOK, Labels
    <3> QED
      BY <1>8, <2>2, <3>1, <3>2, <1>t, <1>l DEF Dispatch
  <2> QED
    BY <2>1, <2>2
<1>9. CASE Send(w)
  <2>1. CASE Active(BudgetOf(w))
    BY <1>9, <2>1, <1>t, <1>l DEF Send, Goto, ControlOK, Labels
  <2>2. CASE ~Active(BudgetOf(w))
    <3>1. ControlOK' /\ pc' = [pc EXCEPT ![w] = "raised"]
      BY <1>9, <2>2, <1>t, <1>r, RaiseControl DEF Send
    <3>2. metrics' \in MetricsType
      BY <1>9, <2>2, <1>t, CountFailureType DEF Send
    <3> QED
      BY <1>9, <2>2, <3>1, <3>2, <1>t, <1>l DEF Send
  <2> QED
    BY <2>1, <2>2
<1>10. CASE Succeed(w)
  <2>1. metrics' \in MetricsType
    BY <1>10, <1>t DEF Succeed, MetricsType
  <2>2. ControlOK' /\ pc' = [pc EXCEPT ![w] = "done"]
    BY <1>10, <1>t, <1>l DEF Succeed, Goto, ControlOK, Labels
  <2>3. Answered(w)
    BY <1>10 DEF Succeed, Answered
  <2>4. Spending(w) /\ ~Spending(w)' /\ slots' = slots + 1 /\ UNCHANGED <<budget, consent>>
    BY <1>10, <2>2, <1>l DEF Succeed
  <2> QED
    BY <2>1, <2>2, <2>3, <2>4, <1>t, <1>l
<1>11. CASE Abort(w)
  <2>1. ControlOK' /\ pc' = [pc EXCEPT ![w] = "raised"]
    BY <1>11, <1>t, <1>r, RaiseControl DEF Abort
  <2>2. metrics' \in MetricsType
    BY <1>11, <1>t, CountFailureType DEF Abort
  <2> QED
    BY <1>11, <2>1, <2>2, <1>t, <1>l DEF Abort
<1>12. ASSUME NEW o \in Failures, Fail(w, o)
       PROVE  ControlOK' /\ metrics' \in MetricsType /\ StepEffect(w)
  <2>1. /\ ControlOK'
        /\ \E l \in {"backoff", "raised", "check", "done"} : pc' = [pc EXCEPT ![w] = l]
    BY <1>12, AfterFailureControl DEF Fail
  <2>2. metrics' \in MetricsType
    BY <1>12, <1>t, CountFailureType DEF Fail
  <2>3. Answered(w)
    BY <1>12 DEF Fail, Answered
  <2>4. Spending(w) /\ ~Spending(w)' /\ slots' = slots + 1 /\ UNCHANGED <<budget, consent>>
    BY <1>12, <2>1, <1>l DEF Fail
  <2> QED
    BY <2>1, <2>2, <2>3, <2>4, <1>t, <1>l
<1>13. CASE Retry(w)
  <2>1. CASE Active(BudgetOf(w))
    BY <1>13, <2>1, <1>t, <1>l, LimitsAssumption DEF Retry, Goto, ControlOK, Labels
  <2>2. CASE ~Active(BudgetOf(w))
    <3>1. ControlOK' /\ pc' = [pc EXCEPT ![w] = "raised"]
      BY <1>13, <2>2, <1>t, <1>r, RaiseControl DEF Retry
    <3> QED
      BY <1>13, <3>1, <1>t, <1>l DEF Retry
  <2> QED
    BY <2>1, <2>2
<1>14. CASE CancelRequest(w)
  <2>1. result[w] \in Reasons
    BY <1>14, <1>t DEF CancelRequest, ControlOK
  <2>2. ControlOK' /\ pc' = [pc EXCEPT ![w] = "done"]
    BY <1>14, <1>t, <1>l DEF CancelRequest, Goto, ControlOK, Labels
  <2>3. budget' = [budget EXCEPT ![RequestOf[w]] = Cancel(BudgetOf(w), result[w])]
    BY <1>14 DEF CancelRequest, BudgetOf
  <2>4. Cancelled(w)
    BY <2>1, <2>3 DEF Cancelled
  <2>5. /\ pc[w] = "raised" /\ slots' = slots /\ history' = history /\ consent' = consent
        /\ metrics' = metrics
    BY <1>14 DEF CancelRequest
  <2> QED
    BY <2>2, <2>4, <2>5, <1>t, <1>l
<1> QED
  BY <1>1, <1>2, <1>3, <1>4, <1>5, <1>6, <1>7, <1>8, <1>9, <1>10, <1>11, <1>12,
     <1>13, <1>14 DEF Step

-----------------------------------------------------------------------------
(* Slots and budgets: counting. *)

LEMMA OneMember ==
    ASSUME NEW A, NEW B, NEW w, IsFiniteSet(A), A \ {w} = B \ {w}
    PROVE  /\ IsFiniteSet(B)
           /\ Cardinality(A) \in Nat /\ Cardinality(B) \in Nat
           /\ Cardinality(B) = Cardinality(A) - One(w \in A) + One(w \in B)
<1> DEFINE C == A \ {w}
<1>1. IsFiniteSet(C) /\ w \notin C
  BY FS_RemoveElement
<1>2. Cardinality(A) \in Nat /\ Cardinality(C) \in Nat
  BY <1>1, FS_CardinalityType
<1>3. Cardinality(C) = Cardinality(A) - One(w \in A)
  <2>1. CASE w \in A
    BY <2>1, <1>2, FS_RemoveElement DEF One
  <2>2. CASE w \notin A
    BY <2>2, <1>2, FS_RemoveElement DEF One
  <2> QED
    BY <2>1, <2>2
<1>4. IsFiniteSet(B) /\ Cardinality(B) = Cardinality(C) + One(w \in B)
  <2>1. CASE w \in B
    <3>1. B = C \cup {w}
      BY <2>1
    <3> QED
      BY <2>1, <3>1, <1>1, <1>2, FS_AddElement DEF One
  <2>2. CASE w \notin B
    <3>1. B = C
      BY <2>2
    <3> QED
      BY <2>2, <3>1, <1>1, <1>2 DEF One
  <2> QED
    BY <2>1, <2>2
<1> QED
  BY <1>2, <1>3, <1>4, FS_CardinalityType DEF One

SlotHolders == {w \in Workers : HoldsSlot(w)}
WorkersOf(r) == {w \in Workers : RequestOf[w] = r}
Spenders(r) == {w \in WorkersOf(r) : Spending(w)}
Landed(r) == UNION {{<<w, i>> : i \in DOMAIN history[w]} : w \in WorkersOf(r)}

\* A reserved attempt is either still being spent, has an answer or is lost.
ReservationsCover ==
    \A r \in Requests :
        /\ WithinLimits(budget[r])
        /\ IsFiniteSet(Landed(r))
        /\ Cardinality(Landed(r)) + Cardinality(Spenders(r)) <= budget[r].attempts

LEMMA SlotsStep ==
    ASSUME Typed, SlotsConserved, NEW w \in Workers, StepEffect(w), ControlOK'
    PROVE  SlotsConserved' /\ slots' \in 0..MaxInflight
<1>1. IsFiniteSet(SlotHolders)
  BY WorkersAssumption, FS_Subset DEF SlotHolders
<1>2. SlotHolders \ {w} = SlotHolders' \ {w}
  BY DEF SlotHolders, HoldsSlot, StepEffect, Typed, ControlOK
<1>3. /\ Cardinality(SlotHolders) \in Nat /\ Cardinality(SlotHolders') \in Nat
      /\ Cardinality(SlotHolders') =
            Cardinality(SlotHolders) - One(HoldsSlot(w)) + One(HoldsSlot(w)')
  <2>1. (w \in SlotHolders <=> HoldsSlot(w)) /\ (w \in SlotHolders' <=> HoldsSlot(w)')
    BY DEF SlotHolders
  <2> QED
    BY <1>1, <1>2, <2>1, OneMember DEF One
<1>4. slots + Cardinality(SlotHolders) = MaxInflight /\ slots \in Nat
  BY LimitsAssumption DEF SlotsConserved, SlotHolders, Typed, TypeOK
<1>5. slots' + Cardinality(SlotHolders') = MaxInflight /\ slots' \in Nat
  BY <1>3, <1>4, LimitsAssumption DEF StepEffect, One
<1> QED
  BY <1>3, <1>5, LimitsAssumption DEF SlotsConserved, SlotHolders

LEMMA CoverStep ==
    ASSUME Typed, ReservationsCover, NEW w \in Workers, StepEffect(w), ControlOK'
    PROVE  ReservationsCover' /\ budget' \in [Requests -> Budget]
<1>t. /\ BudgetOf(w) \in Budget /\ RequestOf[w] \in Requests /\ CostOf[w] \in Cost
      /\ budget \in [Requests -> Budget]
  BY ReasonToRaise DEF Typed, TypeOK
<1>1. ASSUME NEW r \in Requests
      PROVE  /\ budget'[r] \in Budget /\ WithinLimits(budget'[r])
             /\ IsFiniteSet(Landed(r)')
             /\ Cardinality(Landed(r)') + Cardinality(Spenders(r)') <= budget'[r].attempts
  <2>1. /\ WithinLimits(budget[r]) /\ IsFiniteSet(Landed(r))
        /\ Cardinality(Landed(r)) + Cardinality(Spenders(r)) <= budget[r].attempts
        /\ budget[r].attempts \in Nat
    BY <1>t DEF ReservationsCover, Budget
  <2>2. IsFiniteSet(Spenders(r))
    BY WorkersAssumption, FS_Subset DEF Spenders, WorkersOf
  <2>3. Spenders(r) \ {w} = Spenders(r)' \ {w}
    BY DEF Spenders, WorkersOf, Spending, StepEffect, Typed, ControlOK
  <2>4. Landed(r) \in SUBSET Landed(r)
    OBVIOUS
  <2>n. Cardinality(Landed(r)) \in Nat /\ Cardinality(Spenders(r)) \in Nat
    BY <2>1, <2>2, FS_CardinalityType
  <2>7. \A x : x \in Landed(r) <=>
                 \E v \in WorkersOf(r) : \E i \in DOMAIN history[v] : x = <<v, i>>
    BY DEF Landed
  <2>8. \A x : x \in Landed(r)' <=>
                 \E v \in WorkersOf(r) : \E i \in DOMAIN history'[v] : x = <<v, i>>
    BY DEF Landed, WorkersOf
  <2>5. CASE RequestOf[w] # r
    <3>1. Spenders(r)' = Spenders(r)
      BY <2>3, <2>5 DEF Spenders, WorkersOf
    <3>2. Landed(r)' = Landed(r)
      <4>1. \A v \in WorkersOf(r) : v # w /\ history'[v] = history[v]
        BY <2>5 DEF StepEffect, Answered, WorkersOf, Typed
      <4>2. \A x : x \in Landed(r)' <=> x \in Landed(r)
        BY <4>1, <2>7, <2>8
      <4> QED
        BY <4>2
    <3>3. budget'[r] = budget[r]
      BY <2>5, <1>t DEF StepEffect, Cancelled
    <3> QED
      BY <2>1, <3>1, <3>2, <3>3, <1>t
  <2>6. CASE RequestOf[w] = r
    <3>1. (w \in Spenders(r) <=> Spending(w)) /\ (w \in Spenders(r)' <=> Spending(w)')
      BY <2>6 DEF Spenders, WorkersOf
    <3>2. /\ Cardinality(Spenders(r)') \in Nat
          /\ Cardinality(Spenders(r)') =
                Cardinality(Spenders(r)) - One(Spending(w)) + One(Spending(w)')
      BY <2>2, <2>3, <3>1, OneMember DEF One
    <3>3. /\ IsFiniteSet(Landed(r)') /\ Cardinality(Landed(r)') \in Nat
          /\ \/ history' = history /\ Cardinality(Landed(r)') = Cardinality(Landed(r))
             \/ /\ Spending(w) /\ ~Spending(w)'
                /\ Cardinality(Landed(r)') = Cardinality(Landed(r)) + 1
      <4>1. CASE history' = history
        BY <4>1, <2>1, <2>n DEF Landed
      <4>2. CASE Spending(w) /\ ~Spending(w)' /\ Answered(w)
        <5>1. PICK o \in Failures \cup {"ok"} :
                 history' = [history EXCEPT ![w] = Append(history[w], <<provider[w], o>>)]
          BY <4>2 DEF Answered
        <5>2. /\ history \in [Workers -> Seq(Answer)] /\ provider[w] \in Providers
              /\ history[w] \in Seq(Answer) /\ Len(history[w]) \in Nat
          BY DEF Typed, ControlOK
        <5> DEFINE n == Len(history[w])
        <5>a. <<provider[w], o>> \in Answer
          BY <5>2 DEF Answer
        <5>b. /\ DOMAIN history[w] = 1..n
              /\ DOMAIN Append(history[w], <<provider[w], o>>) = 1..(n + 1)
          BY <5>2, <5>a
        <5>3. /\ DOMAIN history'[w] = (DOMAIN history[w]) \cup {n + 1}
              /\ \A v \in Workers : v # w => history'[v] = history[v]
          BY <5>1, <5>2, <5>b
        <5>4. <<w, n + 1>> \notin Landed(r)
          BY <5>2, <5>b, <2>7
        <5>5. Landed(r)' = Landed(r) \cup {<<w, n + 1>>}
          <6>1. w \in WorkersOf(r) /\ WorkersOf(r) \subseteq Workers
            BY <2>6 DEF WorkersOf
          <6>2. \A x : x \in Landed(r)' <=> x \in Landed(r) \/ x = <<w, n + 1>>
            BY <5>3, <6>1, <2>7, <2>8
          <6> QED
            BY <6>2
        <5> QED
          BY <4>2, <5>4, <5>5, <2>1, FS_AddElement, FS_CardinalityType
      <4> QED
        BY <4>1, <4>2 DEF StepEffect
    <3>4. CASE budget' = budget /\ (Spending(w)' => Spending(w))
      BY <3>2, <3>3, <3>4, <2>1, <2>n, <1>t DEF One
    <3>5. CASE /\ ~Spending(w)
               /\ Refusal(BudgetOf(w), CostOf[w]) = "none"
               /\ budget' = [budget EXCEPT ![RequestOf[w]] = Reserved(BudgetOf(w), CostOf[w])]
               /\ history' = history
      <4>1. budget'[r] = Reserved(BudgetOf(w), CostOf[w]) /\ BudgetOf(w) = budget[r]
        BY <3>5, <2>6, <1>t DEF BudgetOf
      <4>2. budget'[r] \in Budget /\ budget'[r].attempts = budget[r].attempts + 1 /\ WithinLimits(budget'[r])
        BY <3>5, <4>1, <1>t, ReservedFits
      <4> QED
        BY <3>2, <3>3, <3>5, <4>2, <2>1, <2>n DEF One
    <3>6. CASE ~Spending(w)' /\ Cancelled(w)
      <4>1. PICK reason \in Reasons : budget'[r] = Cancel(budget[r], reason)
        BY <3>6, <2>6, <1>t DEF BudgetOf, Cancelled
      <4>2. budget'[r] \in Budget /\ budget'[r].attempts = budget[r].attempts /\ WithinLimits(budget'[r])
        BY <4>1, <2>1, <1>t, CancelKeeps
      <4> QED
        BY <3>2, <3>3, <3>6, <4>2, <2>1, <2>n DEF One
    <3> QED
      BY <3>4, <3>5, <3>6 DEF StepEffect
  <2> QED
    BY <2>5, <2>6
<1>2. budget' = [r \in Requests |-> budget'[r]]
  BY <1>t DEF StepEffect, Cancelled
<1>3. budget' \in [Requests -> Budget]
  BY <1>1, <1>2
<1> QED
  BY <1>1, <1>3 DEF ReservationsCover

-----------------------------------------------------------------------------
(* The way of one worker through providers and retries. *)

Tries(w, p) == Cardinality(Answers(w, p))
Over(w) == pc[w] \in {"raised", "done"}

\* A final answer is the last one and ends the run; the tries of the provider
\* at hand are counted by the loop variable, exactly so where each try leaves
\* an answer; the fallback has its permission.
WorkerInv(w) ==
    /\ \A i \in DOMAIN history[w] :
          history[w][i][2] \in FinalKinds => i = Len(history[w]) /\ pc[w] = "done"
    /\ \A i \in DOMAIN history[w] :
          history[w][i][2] = "rate_limited" => result[w] = "provider_rate_limited"
    /\ pc[w] = "resolve" => provider[w] \in CustomProviders
    /\ Tries(w, provider[w]) <= attempt[w] + 1
    /\ ~Over(w) => Tries(w, provider[w]) <= attempt[w] + One(pc[w] = "backoff")
    /\ provider[w] = "primary" =>
          /\ Answers(w, "fallback") = {}
          /\ ~Over(w) /\ "primary" \notin CustomProviders =>
                Tries(w, "primary") = attempt[w] + One(pc[w] = "backoff")
    /\ provider[w] = "fallback" =>
          /\ FallbackKind = "cloud" => consent[RequestOf[w]]
          /\ \A i \in Answers(w, "primary") : history[w][i][2] \notin FinalKinds
          /\ \/ \E i \in Answers(w, "primary") : history[w][i][2] = "invalid"
             \/ Tries(w, "primary") = MaxRetries
             \/ "primary" \in CustomProviders

LEMMA AnswersFinite ==
    ASSUME Typed, NEW w \in Workers, NEW p
    PROVE  IsFiniteSet(Answers(w, p)) /\ Tries(w, p) \in Nat
<1>1. DOMAIN history[w] = 1..Len(history[w]) /\ Len(history[w]) \in Nat
  BY DEF Typed
<1>2. IsFiniteSet(1..Len(history[w])) /\ Answers(w, p) \in SUBSET (1..Len(history[w]))
  BY <1>1, FS_Interval DEF Answers
<1> QED
  BY <1>2, FS_Subset, FS_CardinalityType DEF Tries

\* An answer of kind o is noted.
Noted(w, o) == history' = [history EXCEPT ![w] = Append(history[w], <<provider[w], o>>)]

LEMMA NotedAnswers ==
    ASSUME Typed, NEW w \in Workers, NEW o \in Failures \cup {"ok"}, Noted(w, o)
    PROVE  LET n == Len(history[w]) + 1 IN
           /\ Len(history'[w]) = n /\ DOMAIN history'[w] = DOMAIN history[w] \cup {n}
           /\ n \notin DOMAIN history[w]
           /\ history'[w][n] = <<provider[w], o>>
           /\ \A i \in DOMAIN history[w] : history'[w][i] = history[w][i]
           /\ \A p : p # provider[w] => Answers(w, p)' = Answers(w, p)
           /\ \A p : p = provider[w] => /\ Answers(w, p)' = Answers(w, p) \cup {n}
                                        /\ Tries(w, p)' = Tries(w, p) + 1
<1> DEFINE h == history[w]
           n == Len(h) + 1
           a == <<provider[w], o>>
<1>1. h \in Seq(Answer) /\ a \in Answer
  BY DEF Typed, ControlOK, Answer
<1>2. history'[w] = Append(h, a)
  BY DEF Noted, Typed
<1> HIDE DEF h, a
<1>3. /\ Len(history'[w]) = n /\ DOMAIN history'[w] = DOMAIN h \cup {n}
      /\ n \notin DOMAIN h
      /\ history'[w][n] = a
      /\ \A i \in DOMAIN h : history'[w][i] = h[i]
  BY <1>1, <1>2
<1>4. a[1] = provider[w]
  BY DEF a
<1>5. ASSUME NEW p, p # provider[w] PROVE Answers(w, p)' = Answers(w, p)
  BY <1>3, <1>4, <1>5 DEF Answers, h
<1>6. ASSUME NEW p, p = provider[w]
      PROVE  Answers(w, p)' = Answers(w, p) \cup {n} /\ Tries(w, p)' = Tries(w, p) + 1
  <2>1. Answers(w, p)' = Answers(w, p) \cup {n} /\ n \notin Answers(w, p)
    BY <1>3, <1>4, <1>6 DEF Answers, h
  <2> QED
    BY <2>1, AnswersFinite, FS_AddElement DEF Tries
<1> QED
  BY <1>3, <1>5, <1>6 DEF h, a

\* A worker keeps its invariant when it notes nothing and stays with its try.
LEMMA QuietStep ==
    ASSUME Typed, NEW w \in Workers, WorkerInv(w),
           history'[w] = history[w], provider'[w] = provider[w], attempt'[w] = attempt[w],
           consent' = consent,
           \/ pc'[w] = pc[w] /\ result'[w] = result[w]
           \/ pc[w] # "done" /\ Over(w)'
           \/ /\ ~Over(w) /\ pc[w] # "backoff"
              /\ ~Over(w)' /\ pc'[w] # "backoff"
              /\ pc'[w] = "resolve" => provider[w] \in CustomProviders
    PROVE  WorkerInv(w)'
<1>1. \A p : Answers(w, p)' = Answers(w, p) /\ Tries(w, p)' = Tries(w, p)
  BY DEF Answers, Tries
<1>2. Tries(w, provider[w]) \in Nat /\ attempt[w] \in Nat
  BY AnswersFinite, LimitsAssumption DEF Typed, ControlOK
<1> QED
  BY <1>1, <1>2 DEF WorkerInv, Over, One, FinalKinds

\* A try failed with o: in flight, and the answer is noted, or while the custom
\* endpoint was resolved, and nothing is.
LEMMA FailureStep ==
    ASSUME Typed, NEW w \in Workers, NEW o \in Failures, WorkerInv(w), ControlOK',
           AfterFailure(w, o), consent' = consent,
           \/ pc[w] = "inflight" /\ Noted(w, o)
           \/ pc[w] = "resolve" /\ history' = history /\ o \in {"transient", "refused"}
    PROVE  WorkerInv(w)'
<1> DEFINE n == Len(history[w]) + 1
           me == provider[w]
<1>t. /\ attempt[w] \in 0..MaxRetries - 1 /\ MaxRetries \in Nat \ {0} /\ me \in Providers
      /\ Tries(w, me) \in Nat /\ Tries(w, "primary") \in Nat /\ Tries(w, "fallback") \in Nat
      /\ pc \in [Workers -> Labels] /\ provider \in [Workers -> Providers]
      /\ attempt \in [Workers -> 0..MaxRetries - 1]
      /\ result \in [Workers -> Reasons \cup
                     {"none", "ok", "provider_rate_limited", "provider_unavailable"}]
  BY AnswersFinite, LimitsAssumption DEF Typed, ControlOK
\* The answers so far are not final.
<1>1. /\ ~Over(w) /\ pc[w] # "backoff"
      /\ \A i \in DOMAIN history[w] : history[w][i][2] \notin FinalKinds
      /\ Tries(w, me) <= attempt[w]
      /\ pc[w] = "resolve" => me \in CustomProviders
      /\ me = "primary" =>
            /\ Answers(w, "fallback") = {}
            /\ "primary" \notin CustomProviders => Tries(w, "primary") = attempt[w]
  BY <1>t DEF WorkerInv, Over, One
\* Afterwards they are those, and possibly o.
<1>2. /\ \A i \in DOMAIN history'[w] :
            \/ i \in DOMAIN history[w] /\ history'[w][i] = history[w][i]
            \/ i = n /\ Len(history'[w]) = n /\ history'[w][n] = <<me, o>>
      /\ \A p : p # me => Answers(w, p)' = Answers(w, p) /\ Tries(w, p)' = Tries(w, p)
      /\ \A p : p = me =>
            \/ me \in CustomProviders /\ Answers(w, p)' = Answers(w, p) /\ Tries(w, p)' = Tries(w, p)
            \/ /\ Answers(w, p)' = Answers(w, p) \cup {n} /\ Tries(w, p)' = Tries(w, p) + 1
               /\ history'[w][n] = <<me, o>>
  <2>1. CASE Noted(w, o)
    <3>1. o \in Failures \cup {"ok"}
      OBVIOUS
    <3> QED
      BY <2>1, <3>1, NotedAnswers DEF Tries
  <2>2. CASE pc[w] = "resolve" /\ history' = history
    BY <2>2, <1>1 DEF Answers, Tries
  <2> QED
    BY <2>1, <2>2
<1>3. \A i \in DOMAIN history'[w] :
          history'[w][i][2] \in FinalKinds => i = Len(history'[w]) /\ i = n /\ history'[w][n][2] = o
  BY <1>1, <1>2
<1> HIDE DEF n, me
\* What permitted the fallback still does.
<1>8. me = "fallback" =>
        /\ FallbackKind = "cloud" => consent'[RequestOf[w]]
        /\ \A i \in Answers(w, "primary")' : history'[w][i][2] \notin FinalKinds
        /\ \/ \E i \in Answers(w, "primary")' : history'[w][i][2] = "invalid"
           \/ Tries(w, "primary")' = MaxRetries
           \/ "primary" \in CustomProviders
  <2>1. me = "fallback" => /\ Answers(w, "primary")' = Answers(w, "primary")
                           /\ Tries(w, "primary")' = Tries(w, "primary")
    BY <1>2
  <2>2. \A i \in Answers(w, "primary") : i \in DOMAIN history[w]
    BY DEF Answers
  <2>3. \A i \in DOMAIN history[w] : history'[w][i] = history[w][i]
    <3>1. CASE Noted(w, o)
      BY <3>1, NotedAnswers
    <3> QED
      BY <3>1
  <2> QED
    BY <2>1, <2>2, <2>3 DEF WorkerInv, me
\* Another attempt.
<1>4. CASE Retryable(o) /\ attempt[w] + 1 < MaxRetries /\ Active(BudgetOf(w))
  <2>1. /\ pc'[w] = "backoff" /\ provider'[w] = me /\ attempt'[w] = attempt[w]
        /\ result'[w] = result[w] /\ o = "transient"
    BY <1>4, <1>t DEF AfterFailure, Goto, Retryable, me
  <2>2. \A i \in DOMAIN history'[w] : history'[w][i][2] \notin FinalKinds
    BY <1>3, <2>1 DEF FinalKinds
  <2> QED
    BY <2>1, <2>2, <1>8, <1>1, <1>2, <1>t DEF WorkerInv, Over, One, FinalKinds, Providers
\* No time for it.
<1>5. CASE Retryable(o) /\ attempt[w] + 1 < MaxRetries /\ ~Active(BudgetOf(w))
  <2>1. /\ pc'[w] = "raised" /\ provider'[w] = me /\ attempt'[w] = attempt[w] /\ o = "transient"
    BY <1>5, <1>t DEF AfterFailure, RaiseBudget, Goto, Retryable, me
  <2>2. \A i \in DOMAIN history'[w] : history'[w][i][2] \notin FinalKinds
    BY <1>3, <2>1 DEF FinalKinds
  <2> QED
    BY <2>1, <2>2, <1>8, <1>1, <1>2, <1>t DEF WorkerInv, Over, One, FinalKinds, Providers
\* The second provider.
<1>6. CASE /\ LeaveProvider(w, o)
           /\ ~(Retryable(o) /\ attempt[w] + 1 < MaxRetries)
           /\ FallbackEligible(o) /\ provider[w] = "primary" /\ FallbackAllowed(w)
  <2>1. /\ pc'[w] = "check" /\ me = "primary" /\ provider'[w] = "fallback" /\ attempt'[w] = 0
        /\ o \in {"transient", "invalid"}
        /\ FallbackKind = "cloud" => consent'[RequestOf[w]]
    BY <1>6, <1>t DEF LeaveProvider, Goto, FallbackEligible, FallbackAllowed, me
  <2>2. \A i \in DOMAIN history'[w] : history'[w][i][2] \notin FinalKinds
    BY <1>3, <2>1 DEF FinalKinds
  <2>3. Answers(w, "fallback")' = {} /\ Tries(w, "fallback")' = 0
    BY <2>1, <1>1, <1>2, FS_EmptySet DEF Tries
  <2>4. \/ \E i \in Answers(w, "primary")' : history'[w][i][2] = "invalid"
        \/ Tries(w, "primary")' = MaxRetries
        \/ "primary" \in CustomProviders
    <3>1. CASE me \in CustomProviders
      BY <3>1, <2>1
    <3>2. CASE me \notin CustomProviders /\ o = "invalid"
      <4>1. n \in Answers(w, "primary")' /\ history'[w][n] = <<me, o>>
        BY <3>2, <2>1, <1>2
      <4> QED
        BY <3>2, <4>1
    <3>3. CASE me \notin CustomProviders /\ o = "transient"
      BY <3>3, <2>1, <1>1, <1>2, <1>6, <1>t DEF Retryable
    <3> QED
      BY <3>1, <3>2, <3>3, <2>1
  <2>5. \A i \in Answers(w, "primary")' : i \in DOMAIN history'[w]
    BY DEF Answers
  <2> QED
    BY <2>1, <2>2, <2>3, <2>4, <2>5, <1>t DEF WorkerInv, Over, One, FinalKinds
\* The end.
<1>7. CASE /\ LeaveProvider(w, o)
           /\ ~(FallbackEligible(o) /\ provider[w] = "primary" /\ FallbackAllowed(w))
  <2>1. /\ pc'[w] = "done" /\ provider'[w] = me /\ attempt'[w] = attempt[w]
        /\ o = "rate_limited" => result'[w] = "provider_rate_limited"
    BY <1>7, <1>t DEF LeaveProvider, Goto, me
  <2>2. \A i \in DOMAIN history'[w] :
           history'[w][i][2] = "rate_limited" => result'[w] = "provider_rate_limited"
    BY <1>3, <2>1 DEF FinalKinds
  <2> QED
    BY <2>1, <2>2, <1>8, <1>1, <1>2, <1>3, <1>t DEF WorkerInv, Over, One, Providers
<1> QED
  BY <1>4, <1>5, <1>6, <1>7 DEF AfterFailure, LeaveProvider

LEMMA SuccessStep ==
    ASSUME Typed, NEW w \in Workers, WorkerInv(w), Succeed(w)
    PROVE  WorkerInv(w)'
<1>1. /\ Noted(w, "ok") /\ pc'[w] = "done" /\ ~Over(w) /\ pc[w] # "backoff"
      /\ provider' = provider /\ attempt' = attempt /\ consent' = consent
  BY DEF Succeed, Goto, Noted, Over, Typed, ControlOK
<1>2. /\ attempt[w] \in Nat /\ provider[w] \in Providers
      /\ \A p : Tries(w, p) \in Nat
  BY AnswersFinite, LimitsAssumption DEF Typed, ControlOK
<1>3. /\ Tries(w, provider[w]) <= attempt[w]
      /\ \A i \in DOMAIN history[w] : history[w][i][2] \notin FinalKinds
  BY <1>1, <1>2 DEF WorkerInv, Over, One
<1> DEFINE n == Len(history[w]) + 1
<1>4. /\ Len(history'[w]) = n /\ DOMAIN history'[w] = DOMAIN history[w] \cup {n}
      /\ history'[w][n][2] = "ok"
      /\ \A i \in DOMAIN history[w] : history'[w][i] = history[w][i]
      /\ \A p : p # provider[w] => Answers(w, p)' = Answers(w, p) /\ Tries(w, p)' = Tries(w, p)
      /\ \A p : p = provider[w] => Tries(w, p)' = Tries(w, p) + 1
  BY <1>1, NotedAnswers DEF Tries
<1>5. \A p : Answers(w, p) \subseteq DOMAIN history[w]
  BY DEF Answers
<1> HIDE DEF n
<1>6. pc'[w] = "done" /\ provider' = provider /\ attempt' = attempt /\ consent' = consent
  BY <1>1
<1>7. \A i \in DOMAIN history'[w] :
        /\ history'[w][i][2] \in FinalKinds => i = Len(history'[w])
        /\ i = n \/ (i \in DOMAIN history[w] /\ history'[w][i] = history[w][i])
  BY <1>3, <1>4
<1> QED
  BY <1>1, <1>2, <1>3, <1>4, <1>5, <1>6, <1>7 DEF WorkerInv, Over, One, FinalKinds, Providers

LEMMA RetryStep ==
    ASSUME Typed, NEW w \in Workers, WorkerInv(w), consent' = consent, history' = history,
           provider' = provider, pc[w] = "backoff", pc'[w] = "check",
           attempt'[w] = attempt[w] + 1, result' = result
    PROVE  WorkerInv(w)'
<1>1. \A p : Answers(w, p)' = Answers(w, p) /\ Tries(w, p)' = Tries(w, p)
  BY DEF Answers, Tries
<1>2. Tries(w, provider[w]) \in Nat /\ attempt[w] \in Nat
  BY AnswersFinite, LimitsAssumption DEF Typed, ControlOK
<1>3. /\ ~Over(w) /\ ~Over(w)' /\ One(pc[w] = "backoff") = 1 /\ One(pc[w] = "backoff")' = 0
  BY DEF Over, One
<1>4. provider'[w] = provider[w]
  OBVIOUS
<1> QED
  BY <1>1, <1>2, <1>3, <1>4 DEF WorkerInv, FinalKinds

\* A step of w leaves the locals of the others alone.
LEMMA OthersStep ==
    ASSUME Typed, NEW w \in Workers, Step(w), NEW v \in Workers, v # w
    PROVE  provider'[v] = provider[v] /\ attempt'[v] = attempt[v] /\ result'[v] = result[v]
<1> DEFINE Same == provider'[v] = provider[v] /\ attempt'[v] = attempt[v] /\ result'[v] = result[v]
<1>t. /\ provider \in [Workers -> Providers] /\ attempt \in [Workers -> 0..MaxRetries - 1]
      /\ DOMAIN result = Workers
  BY DEF Typed, ControlOK
<1>1. ASSUME NEW reason, RaiseBudget(w, reason) PROVE Same
  BY <1>1, <1>t DEF RaiseBudget
<1>2. ASSUME NEW o \in Failures, AfterFailure(w, o) PROVE Same
  <2>1. CASE LeaveProvider(w, o)
    BY <2>1, <1>t DEF LeaveProvider
  <2> QED
    BY <1>1, <1>2, <2>1 DEF AfterFailure
<1> HIDE DEF Same
<1>3. CASE CheckActive(w) \/ QueueTimeout(w) \/ ResolveInactive(w) \/ Dispatch(w) \/ Abort(w)
  BY <1>3, <1>1 DEF CheckActive, QueueTimeout, ResolveInactive, Dispatch, Abort, Same
<1>4. CASE Reserve(w) \/ Send(w)
  BY <1>4, <1>1 DEF Reserve, Send, Same
<1>5. CASE TakeSlot(w) \/ Resolve(w) \/ CancelRequest(w)
  BY <1>5 DEF TakeSlot, Resolve, CancelRequest, Same
<1>6. CASE Succeed(w)
  BY <1>6, <1>t DEF Succeed, Same
<1>7. CASE Retry(w)
  <2>1. ASSUME Active(BudgetOf(w)) PROVE Same
    BY <1>7, <2>1, <1>t DEF Retry, Same
  <2>2. ASSUME ~Active(BudgetOf(w)) PROVE Same
    <3>1. PICK reason : RaiseBudget(w, reason)
      BY <1>7, <2>2 DEF Retry
    <3> QED
      BY <3>1, <1>1
  <2> QED
    BY <2>1, <2>2 DEF Same
<1>8. ASSUME NEW o \in {"transient", "refused"}, ResolveFailed(w, o) PROVE Same
  BY <1>8, <1>2 DEF ResolveFailed, Failures
<1>9. ASSUME NEW o \in Failures, Fail(w, o) PROVE Same
  BY <1>9, <1>2 DEF Fail
<1> QED
  BY <1>3, <1>4, <1>5, <1>6, <1>7, <1>8, <1>9 DEF Step, Same

\* Every step of w keeps the invariants of all workers.
LEMMA WorkersStep ==
    ASSUME Typed, \A v \in Workers : WorkerInv(v), NEW w \in Workers, Step(w), ControlOK',
           StepEffect(w)
    PROVE  \A v \in Workers : WorkerInv(v)'
<1>t. WorkerInv(w) /\ consent' = consent
  BY DEF StepEffect
<1>1. ASSUME NEW v \in Workers, v # w PROVE WorkerInv(v)'
  <2>1. history'[v] = history[v] /\ pc'[v] = pc[v] /\ consent' = consent
    BY <1>1 DEF StepEffect, Answered, Typed, ControlOK
  <2>2. provider'[v] = provider[v] /\ attempt'[v] = attempt[v] /\ result'[v] = result[v]
    BY <1>1, OthersStep
  <2> QED
    BY <1>1, <2>1, <2>2, QuietStep
<1>2. ASSUME /\ ~Over(w) /\ pc[w] # "backoff" /\ history' = history
             /\ provider' = provider /\ attempt' = attempt
             /\ pc'[w] \in {"queued", "reserve", "resolve", "dispatch", "sending", "inflight", "raised"}
             /\ pc'[w] = "resolve" => provider[w] \in CustomProviders
      PROVE  WorkerInv(w)'
  <2>1. \/ pc[w] # "done" /\ Over(w)'
        \/ /\ ~Over(w) /\ pc[w] # "backoff"
           /\ ~Over(w)' /\ pc'[w] # "backoff"
           /\ pc'[w] = "resolve" => provider[w] \in CustomProviders
    BY <1>2 DEF Over
  <2> QED
    BY <1>2, <1>t, <2>1, QuietStep
<1>3. ASSUME CheckActive(w) \/ TakeSlot(w) \/ QueueTimeout(w) PROVE WorkerInv(w)'
  <2>1. /\ ~Over(w) /\ pc[w] # "backoff" /\ history' = history
        /\ provider' = provider /\ attempt' = attempt
        /\ pc'[w] \in {"queued", "reserve", "resolve", "dispatch", "sending", "inflight", "raised"}
        /\ pc'[w] = "resolve" => provider[w] \in CustomProviders
    BY <1>3 DEF CheckActive, TakeSlot, QueueTimeout, RaiseBudget, Goto, Over, Typed, ControlOK
  <2> QED
    BY <2>1, <1>2
<1>4. ASSUME Reserve(w) \/ Resolve(w) \/ ResolveInactive(w) PROVE WorkerInv(w)'
  <2>1. /\ ~Over(w) /\ pc[w] # "backoff" /\ history' = history
        /\ provider' = provider /\ attempt' = attempt
        /\ pc'[w] \in {"queued", "reserve", "resolve", "dispatch", "sending", "inflight", "raised"}
        /\ pc'[w] = "resolve" => provider[w] \in CustomProviders
    BY <1>4 DEF Reserve, Resolve, ResolveInactive, RaiseBudget, Goto, Over, Typed, ControlOK
  <2> QED
    BY <2>1, <1>2
<1>5. ASSUME Dispatch(w) \/ Send(w) \/ Abort(w) PROVE WorkerInv(w)'
  <2>1. /\ ~Over(w) /\ pc[w] # "backoff" /\ history' = history
        /\ provider' = provider /\ attempt' = attempt
        /\ pc'[w] \in {"queued", "reserve", "resolve", "dispatch", "sending", "inflight", "raised"}
        /\ pc'[w] = "resolve" => provider[w] \in CustomProviders
    BY <1>5 DEF Dispatch, Send, Abort, RaiseBudget, Goto, Over, Typed, ControlOK
  <2> QED
    BY <2>1, <1>2
<1>6. ASSUME NEW o \in {"transient", "refused"}, ResolveFailed(w, o) PROVE WorkerInv(w)'
  BY <1>6, <1>t, FailureStep DEF ResolveFailed, Failures
<1>7. ASSUME NEW o \in Failures, Fail(w, o) PROVE WorkerInv(w)'
  <2>1. Noted(w, o) /\ pc[w] = "inflight" /\ AfterFailure(w, o)
    BY <1>7 DEF Fail, Noted
  <2> QED
    BY <2>1, <1>t, FailureStep
<1>8. ASSUME Succeed(w) PROVE WorkerInv(w)'
  BY <1>8, <1>t, SuccessStep
<1>9. ASSUME Retry(w) PROVE WorkerInv(w)'
  <2>1. CASE Active(BudgetOf(w))
    <3>1. /\ pc[w] = "backoff" /\ pc'[w] = "check" /\ history' = history
          /\ provider' = provider /\ attempt'[w] = attempt[w] + 1 /\ result' = result
      BY <1>9, <2>1 DEF Retry, Goto, Typed, ControlOK
    <3> QED
      BY <3>1, <1>t, RetryStep
  <2>2. CASE ~Active(BudgetOf(w))
    <3>1. /\ pc[w] # "done" /\ Over(w)' /\ history' = history
          /\ provider' = provider /\ attempt' = attempt
      BY <1>9, <2>2 DEF Retry, RaiseBudget, Goto, Typed, ControlOK, Over
    <3> QED
      BY <3>1, <1>t, QuietStep
  <2> QED
    BY <2>1, <2>2
<1>10. ASSUME CancelRequest(w) PROVE WorkerInv(w)'
  <2>1. /\ pc[w] # "done" /\ Over(w)' /\ history' = history
        /\ provider' = provider /\ attempt' = attempt
    BY <1>10 DEF CancelRequest, Goto, Typed, ControlOK, Over
  <2> QED
    BY <2>1, <1>t, QuietStep
<1>11. WorkerInv(w)'
  BY <1>3, <1>4, <1>5, <1>6, <1>7, <1>8, <1>9, <1>10 DEF Step
<1> QED
  BY <1>1, <1>11

-----------------------------------------------------------------------------
(* The inductive invariant. *)

IInv == /\ Typed /\ SlotsConserved /\ ReservationsCover
        /\ \A w \in Workers : WorkerInv(w)

LEMMA InitIInv == Init => IInv
<1> SUFFICES ASSUME Init PROVE IInv
  OBVIOUS
<1>1. Typed
  <2>1. budget \in [Requests -> Budget]
    BY NewBudgetFits DEF Init
  <2>2. history \in [Workers -> Seq(Answer)]
    BY DEF Init
  <2>3. ControlOK
    BY LimitsAssumption DEF Init, ControlOK, Labels, Providers
  <2> QED
    BY <2>1, <2>2, <2>3, LimitsAssumption DEF Init, Typed, TypeOK, ControlOK, Providers
<1>2. SlotsConserved
  <2>1. {w \in Workers : HoldsSlot(w)} = {}
    BY DEF Init, HoldsSlot
  <2>2. slots = MaxInflight
    BY DEF Init
  <2> QED
    BY <2>1, <2>2, FS_EmptySet, LimitsAssumption DEF SlotsConserved
<1>3. ReservationsCover
  <2> SUFFICES ASSUME NEW r \in Requests
               PROVE  /\ WithinLimits(budget[r]) /\ IsFiniteSet(Landed(r))
                      /\ Cardinality(Landed(r)) + Cardinality(Spenders(r)) <= budget[r].attempts
    BY DEF ReservationsCover
  <2>1. budget[r] = NewBudget /\ NewBudget.attempts = 0
    BY DEF Init, NewBudget
  <2>2. Landed(r) = {} /\ Spenders(r) = {}
    BY DEF Init, Landed, Spenders, Spending, WorkersOf
  <2> QED
    BY <2>1, <2>2, NewBudgetFits, FS_EmptySet
<1>4. ASSUME NEW w \in Workers PROVE WorkerInv(w)
  <2>1. \A p : Answers(w, p) = {}
    BY DEF Init, Answers
  <2>2. \A p : Tries(w, p) = 0
    BY <2>1, FS_EmptySet DEF Tries
  <2> QED
    BY <2>1, <2>2 DEF Init, WorkerInv, Over, One
<1> QED
  BY <1>1, <1>2, <1>3, <1>4 DEF IInv

LEMMA NextIInv == IInv /\ [Next]_vars => IInv'
<1> SUFFICES ASSUME IInv, [Next]_vars PROVE IInv'
  OBVIOUS
<1> USE DEF IInv
<1>1. ASSUME NEW w \in Workers, Step(w) PROVE IInv'
  <2>1. ControlOK' /\ metrics' \in MetricsType /\ StepEffect(w)
    BY <1>1, StepDoes
  <2>2. SlotsConserved' /\ slots' \in 0..MaxInflight
    BY <2>1, SlotsStep
  <2>3. ReservationsCover' /\ budget' \in [Requests -> Budget]
    BY <2>1, CoverStep
  <2>4. \A v \in Workers : WorkerInv(v)'
    BY <1>1, <2>1, WorkersStep
  <2>5. history' \in [Workers -> Seq(Answer)]
    <3>1. CASE history' = history
      BY <3>1 DEF Typed
    <3>2. CASE Answered(w)
      <4>1. PICK o \in Failures \cup {"ok"} :
               history' = [history EXCEPT ![w] = Append(history[w], <<provider[w], o>>)]
        BY <3>2 DEF Answered
      <4>2. history[w] \in Seq(Answer) /\ <<provider[w], o>> \in Answer
        BY DEF Typed, ControlOK, Answer
      <4>3. Append(history[w], <<provider[w], o>>) \in Seq(Answer)
        BY <4>2
      <4> QED
        BY <4>1, <4>3 DEF Typed
    <3> QED
      BY <2>1, <3>1, <3>2 DEF StepEffect
  <2>6. consent' \in [Requests -> BOOLEAN]
    BY <2>1 DEF StepEffect, Typed, TypeOK
  <2>7. Typed'
    BY <2>1, <2>2, <2>3, <2>5, <2>6 DEF Typed, TypeOK, ControlOK, MetricsType, Providers
  <2> QED
    BY <2>2, <2>3, <2>4, <2>7
<1>2. ASSUME NEW r \in Requests, Expire(r) PROVE IInv'
  <2>1. UNCHANGED <<consent, slots, pc, provider, attempt, status, result, metrics, history>>
    BY <1>2 DEF Expire
  <2>2. budget' = [budget EXCEPT ![r] = [budget[r] EXCEPT !.expired = TRUE]]
    BY <1>2 DEF Expire
  <2>3. budget \in [Requests -> Budget]
    BY DEF Typed, TypeOK
  <2>4. /\ budget' \in [Requests -> Budget]
        /\ \A q \in Requests : /\ budget'[q].attempts = budget[q].attempts
                               /\ WithinLimits(budget[q]) => WithinLimits(budget'[q])
    BY <2>2, <2>3, ExpiredKeeps
  <2>5. Typed'
    BY <2>1, <2>4 DEF Typed, TypeOK, ControlOK
  <2>6. SlotsConserved'
    BY <2>1 DEF SlotsConserved, HoldsSlot
  <2>7. ReservationsCover'
    BY <2>1, <2>4 DEF ReservationsCover, Landed, Spenders, Spending, WorkersOf
  <2>8. ASSUME NEW v \in Workers PROVE WorkerInv(v)'
    BY <2>1, QuietStep
  <2> QED
    BY <2>5, <2>6, <2>7, <2>8
<1>3. CASE UNCHANGED vars
  <2>1. Typed' /\ SlotsConserved'
    BY <1>3 DEF vars, Typed, TypeOK, ControlOK, SlotsConserved, HoldsSlot
  <2>2. ReservationsCover'
    BY <1>3 DEF vars, ReservationsCover, Landed, Spenders, Spending, WorkersOf
  <2>3. ASSUME NEW v \in Workers PROVE WorkerInv(v)'
    BY <1>3, QuietStep DEF vars
  <2> QED
    BY <2>1, <2>2, <2>3
<1> QED
  BY <1>1, <1>2, <1>3 DEF Next, Done

LEMMA Invariance == Spec => []IInv
BY InitIInv, NextIInv, PTL DEF Spec

\* _acquire_upstream_slot and the finally of _call_provider: whatever ends an
\* attempt, the permits of _UPSTREAM_SEM and the workers inside make up its limit.
THEOREM SlotsAreConserved == Spec => []SlotsConserved
<1>1. IInv => SlotsConserved
  BY DEF IInv
<1> QED
  BY <1>1, Invariance, PTL

\* WorkBudget.reserve_attempt under any interleaving: no request spends more
\* than its limits, nor puts more calls on the wire than it reserved.
THEOREM BudgetsAreRespected == Spec => []BudgetRespected
<1>1. ASSUME IInv PROVE BudgetRespected
  <2> SUFFICES ASSUME NEW r \in Requests
               PROVE  /\ WithinLimits(budget[r])
                      /\ Cardinality(Landed(r))
                           + Cardinality({w \in WorkersOf(r) : Counted(w)}) <= budget[r].attempts
    BY DEF BudgetRespected, Landed, WorkersOf
  <2>1. /\ WithinLimits(budget[r]) /\ IsFiniteSet(Landed(r))
        /\ Cardinality(Landed(r)) + Cardinality(Spenders(r)) <= budget[r].attempts
        /\ budget[r].attempts \in Nat
    BY <1>1 DEF IInv, ReservationsCover, Typed, TypeOK, Budget
  <2>2. IsFiniteSet(Spenders(r)) /\ {w \in WorkersOf(r) : Counted(w)} \in SUBSET Spenders(r)
    BY WorkersAssumption, FS_Subset DEF Spenders, WorkersOf, Counted, Spending
  <2>3. /\ Cardinality({w \in WorkersOf(r) : Counted(w)}) <= Cardinality(Spenders(r))
        /\ IsFiniteSet({w \in WorkersOf(r) : Counted(w)})
    BY <2>2, FS_Subset
  <2> QED
    BY <2>1, <2>2, <2>3, FS_CardinalityType
<1> QED
  BY <1>1, Invariance, PTL

\* _call_provider and _complete: a 429 is the last answer of a run, ends it and
\* is what the caller is told.
THEOREM RateLimitsAreFinal == Spec => []RateLimitIsFinal
<1>1. IInv => RateLimitIsFinal
  BY DEF IInv, WorkerInv, RateLimitIsFinal, FinalKinds
<1> QED
  BY <1>1, Invariance, PTL

\* _complete: the second provider is asked only with consent, after failures
\* that permit it and once the retries of the primary are spent.
THEOREM FallbackIsPermitted == Spec => []FallbackOnlyWhenPermitted
<1>1. ASSUME IInv PROVE FallbackOnlyWhenPermitted
  <2> SUFFICES ASSUME NEW w \in Workers, provider[w] = "fallback"
               PROVE  LET given == {history[w][i][2] : i \in Answers(w, "primary")}
                      IN  /\ FallbackKind = "cloud" => consent[RequestOf[w]]
                          /\ given \cap FinalKinds = {}
                          /\ \/ "invalid" \in given
                             \/ Cardinality(Answers(w, "primary")) = MaxRetries
                             \/ "primary" \in CustomProviders
                          /\ Cardinality(Answers(w, "fallback")) <= MaxRetries
    BY DEF FallbackOnlyWhenPermitted, FinalKinds
  <2>1. WorkerInv(w) /\ attempt[w] \in 0..MaxRetries - 1 /\ Tries(w, "fallback") \in Nat
    BY <1>1, AnswersFinite DEF IInv, Typed, ControlOK
  <2>2. Tries(w, "fallback") <= MaxRetries
    BY <2>1, LimitsAssumption DEF WorkerInv
  <2> QED
    BY <2>1, <2>2 DEF WorkerInv, Tries
<1> QED
  BY <1>1, Invariance, PTL
=============================================================================
