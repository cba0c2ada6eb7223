---------------------------- MODULE ProviderCall ----------------------------
(***************************************************************************)
(* Concurrent runs of _complete() and _call_provider() of translator.py:   *)
(* workers of one or more requests compete for the process-wide upstream   *)
(* slots, share the budget of their request, retry a provider, and fall    *)
(* back from the primary to the second one.                                *)
(*                                                                         *)
(* A step is what a worker does between two points at which another        *)
(* thread can matter: a lock, the semaphore, the network, a sleep.  The    *)
(* answers of a provider are grouped by how the code treats them:          *)
(*   transient    408, 500, 502, 503, 504, connection error or timeout     *)
(*   rate_limited 429                                                      *)
(*   refused      any other HTTP error, an SSL error                       *)
(*   invalid      too large, not JSON, empty or missing text               *)
(*   crashed      any other exception                                      *)
(***************************************************************************)
EXTENDS Integers, Sequences, FiniteSets, WorkBudget

CONSTANTS Workers,        \* calls of _complete
          Requests,       \* API requests, each with one budget
          RequestOf,      \* [Workers -> Requests]
          CostOf,         \* [Workers -> Cost]
          MaxInflight,    \* BT_MAX_UPSTREAM_INFLIGHT
          MaxRetries,     \* max_retries
          FallbackKind,   \* locality of the fallback; "absent" if none
          CustomProviders \* the roles that use the custom endpoint

ASSUME WorkersAssumption ==
    /\ IsFiniteSet(Workers)
    /\ RequestOf \in [Workers -> Requests]
    /\ CostOf \in [Workers -> Cost]
ASSUME LimitsAssumption ==
    /\ MaxInflight \in Nat \ {0}
    /\ MaxRetries \in Nat \ {0}
ASSUME ProvidersAssumption ==
    /\ FallbackKind \in {"absent", "local", "cloud"}
    /\ CustomProviders \subseteq {"primary", "fallback"}

VARIABLES budget,    \* [Requests -> Budget]
          consent,   \* [Requests -> BOOLEAN]: allow_cloud_fallback
          slots,     \* free permits of _UPSTREAM_SEM
          pc,        \* where a worker stands
          provider,  \* the provider of the loop in _complete
          attempt,   \* the loop variable of _call_provider
          status,    \* kind of last_provider_error, "none" at first
          result,    \* how _complete ended
          metrics,   \* _provider_call_metrics
          history    \* per worker, the providers' answers in order

vars == <<budget, consent, slots, pc, provider, attempt, status, result,
          metrics, history>>

Failures == {"transient", "rate_limited", "refused", "invalid", "crashed"}
RetryableByStatus(o) == o \in {"transient", "rate_limited"}   \* mutant: 429 too
FallbackOnRefusal(o) == o \in {"transient", "invalid", "refused"}  \* mutant

\* _ProviderCallError.retryable and .fallback_eligible.
Retryable(o) == o = "transient"
FallbackEligible(o) == o \in {"transient", "invalid"}

\* _eligible_providers: may the second provider be used by this worker?
FallbackAllowed(w) ==
    \/ FallbackKind = "local"
    \/ FallbackKind = "cloud" /\ consent[RequestOf[w]]

BudgetOf(w) == budget[RequestOf[w]]

Init ==
    /\ budget = [r \in Requests |-> NewBudget]
    /\ consent \in [Requests -> BOOLEAN]
    /\ slots = MaxInflight
    /\ pc = [w \in Workers |-> "check"]
    /\ provider = [w \in Workers |-> "primary"]
    /\ attempt = [w \in Workers |-> 0]
    /\ status = [w \in Workers |-> "none"]
    /\ result = [w \in Workers |-> "none"]
    /\ metrics = [attempts |-> 0, successes |-> 0, rateLimited |-> 0,
                  failures |-> 0]
    /\ history = [w \in Workers |-> <<>>]

Goto(w, label) == pc' = [pc EXCEPT ![w] = label]

\* _record_provider_call for a call that failed with o.
CountFailure(o) ==
    metrics' = [metrics EXCEPT !.failures = @ + 1,
                               !.rateLimited = IF o = "rate_limited" THEN @ + 1
                                                                     ELSE @]

\* WorkBudgetExceeded leaves _call_provider and _complete with its reason.
RaiseBudget(w, reason) ==
    /\ Goto(w, "raised")
    /\ result' = [result EXCEPT ![w] = reason]
    /\ UNCHANGED <<provider, attempt, status>>

-----------------------------------------------------------------------------
(* One attempt.                                                            *)

\* _acquire_upstream_slot: ensure_active before the wait.
CheckActive(w) ==
    /\ pc[w] = "check"
    /\ IF Active(BudgetOf(w))
       THEN Goto(w, "queued") /\ UNCHANGED <<provider, attempt, status, result>>
       ELSE RaiseBudget(w, Inactive(BudgetOf(w)))
    /\ UNCHANGED <<budget, consent, slots, metrics, history>>

TakeSlot(w) ==
    /\ pc[w] = "queued"
    /\ slots > 0
    /\ slots' = slots - 1
    /\ Goto(w, "reserve")
    /\ UNCHANGED <<budget, consent, provider, attempt, status, result, metrics,
                   history>>

\* The semaphore was not free within min(queue timeout, remaining seconds).
QueueTimeout(w) ==
    /\ pc[w] = "queued"
    /\ slots = 0
    /\ RaiseBudget(w, IF BudgetOf(w).expired THEN "deadline" ELSE "queue")
    /\ UNCHANGED <<budget, consent, slots, metrics, history>>

\* reserve_attempt with the slot held; the slot is given back if it raises.
Reserve(w) ==
    LET refusal == Refusal(BudgetOf(w), CostOf[w])
    IN  /\ pc[w] = "reserve"
        /\ IF refusal = "none"
           THEN /\ budget' = [budget EXCEPT ![RequestOf[w]] = Reserved(@, CostOf[w])]
                /\ Goto(w, IF provider[w] \in CustomProviders THEN "resolve"
                                                              ELSE "dispatch")
                /\ UNCHANGED <<slots, provider, attempt, status, result>>
           ELSE /\ RaiseBudget(w, refusal)
                /\ slots' = slots + 1
                /\ UNCHANGED budget
        /\ UNCHANGED <<consent, metrics, history>>

\* _complete: the provider is given up with an error of kind o.
LeaveProvider(w, o) ==
    LET kind == IF o = "crashed" THEN status[w] ELSE o
    IN  /\ status' = [status EXCEPT ![w] = kind]
        /\ IF FallbackEligible(o) /\ provider[w] = "primary" /\ FallbackAllowed(w)
           THEN /\ provider' = [provider EXCEPT ![w] = "fallback"]
                /\ attempt' = [attempt EXCEPT ![w] = 0]
                /\ Goto(w, "check")
                /\ UNCHANGED result
           ELSE /\ Goto(w, "done")
                /\ result' = [result EXCEPT ![w] =
                                IF kind = "rate_limited" THEN "provider_rate_limited"
                                                         ELSE "provider_unavailable"]
                /\ UNCHANGED <<provider, attempt>>

\* The except clauses of _call_provider: pause before another attempt, which
\* needs an active budget, or give the provider up.
AfterFailure(w, o) ==
    IF Retryable(o) /\ attempt[w] + 1 < MaxRetries
    THEN IF Active(BudgetOf(w))
         THEN Goto(w, "backoff") /\ UNCHANGED <<provider, attempt, status, result>>
         ELSE RaiseBudget(w, Inactive(BudgetOf(w)))
    ELSE LeaveProvider(w, o)

\* The custom endpoint resolves to permitted addresses.
Resolve(w) ==
    /\ pc[w] = "resolve"
    /\ Goto(w, "dispatch")
    /\ UNCHANGED <<budget, consent, slots, provider, attempt, status, result,
                   metrics, history>>

\* It does not: DNS failed ("transient") or the endpoint is not permitted
\* ("refused").  No call was counted, the reservation stays spent.
ResolveFailed(w, o) ==
    /\ pc[w] = "resolve"
    /\ o \in {"transient", "refused"}
    /\ slots' = slots + 1
    /\ AfterFailure(w, o)
    /\ UNCHANGED <<budget, consent, metrics, history>>

\* It took longer than the budget allows.
ResolveInactive(w) ==
    /\ pc[w] = "resolve"
    /\ ~Active(BudgetOf(w))
    /\ slots' = slots + 1
    /\ RaiseBudget(w, Inactive(BudgetOf(w)))
    /\ UNCHANGED <<budget, consent, metrics, history>>

\* The last look at the clock, then the attempt is counted.
Dispatch(w) ==
    /\ pc[w] = "dispatch"
    /\ IF BudgetOf(w).expired
       THEN /\ RaiseBudget(w, "deadline")
            /\ slots' = slots + 1
            /\ UNCHANGED metrics
       ELSE /\ metrics' = [metrics EXCEPT !.attempts = @ + 1]
            /\ Goto(w, "sending")
            /\ UNCHANGED <<slots, provider, attempt, status, result>>
    /\ UNCHANGED <<budget, consent, history>>

\* _deadline_provider_post: ensure_active, then the request goes out.
Send(w) ==
    /\ pc[w] = "sending"
    /\ IF Active(BudgetOf(w))
       THEN /\ Goto(w, "inflight")
            /\ UNCHANGED <<slots, provider, attempt, status, result, metrics>>
       ELSE /\ RaiseBudget(w, Inactive(BudgetOf(w)))
            /\ slots' = slots + 1
            /\ CountFailure("budget")
    /\ UNCHANGED <<budget, consent, history>>

\* A usable answer; the last ensure_response_active came before the return.
Succeed(w) ==
    /\ pc[w] = "inflight"
    /\ Active(BudgetOf(w))
    /\ slots' = slots + 1
    /\ metrics' = [metrics EXCEPT !.successes = @ + 1]
    /\ history' = [history EXCEPT ![w] = Append(@, <<provider[w], "ok">>)]
    /\ result' = [result EXCEPT ![w] = "ok"]
    /\ Goto(w, "done")
    /\ UNCHANGED <<budget, consent, provider, attempt, status>>

\* A failure of kind o.
Fail(w, o) ==
    /\ pc[w] = "inflight"
    /\ slots' = slots + 1
    /\ CountFailure(o)
    /\ history' = [history EXCEPT ![w] = Append(@, <<provider[w], o>>)]
    /\ AfterFailure(w, o)
    /\ UNCHANGED <<budget, consent>>

AbortLeaks(w) ==                        \* mutant: the slot is not in a finally
    /\ pc[w] = "inflight"
    /\ ~Active(BudgetOf(w))
    /\ CountFailure("budget")
    /\ RaiseBudget(w, Inactive(BudgetOf(w)))
    /\ UNCHANGED <<budget, consent, history, slots>>
AbortNever(w) == FALSE /\ pc[w] = "inflight" /\ UNCHANGED vars  \* mutant: no watchdog

\* The budget ends the read: the watchdog closes the response at the deadline,
\* or ensure_active notices a cancellation.
Abort(w) ==
    /\ pc[w] = "inflight"
    /\ ~Active(BudgetOf(w))
    /\ slots' = slots + 1
    /\ CountFailure("budget")
    /\ RaiseBudget(w, Inactive(BudgetOf(w)))
    /\ UNCHANGED <<budget, consent, history>>

\* _sleep_before_retry: ensure_active after the pause.
Retry(w) ==
    /\ pc[w] = "backoff"
    /\ IF Active(BudgetOf(w))
       THEN /\ attempt' = [attempt EXCEPT ![w] = @ + 1]
            /\ Goto(w, "check")
            /\ UNCHANGED <<provider, status, result>>
       ELSE RaiseBudget(w, Inactive(BudgetOf(w)))
    /\ UNCHANGED <<budget, consent, slots, metrics, history>>

\* _do_group of translate_batch_detailed: a worker that ran out of budget
\* cancels the budget of its request for the workers beside it.
CancelRequest(w) ==
    /\ pc[w] = "raised"
    /\ budget' = [budget EXCEPT ![RequestOf[w]] = Cancel(@, result[w])]
    /\ Goto(w, "done")
    /\ UNCHANGED <<consent, slots, provider, attempt, status, result, metrics,
                   history>>

\* The absolute deadline of a request passes.
Expire(r) ==
    /\ ~budget[r].expired
    /\ budget' = [budget EXCEPT ![r].expired = TRUE]
    /\ UNCHANGED <<consent, slots, pc, provider, attempt, status, result,
                   metrics, history>>

Done == /\ \A w \in Workers : pc[w] = "done"
        /\ \A r \in Requests : budget[r].expired
        /\ UNCHANGED vars

Step(w) ==
    \/ CheckActive(w) \/ TakeSlot(w) \/ QueueTimeout(w) \/ Reserve(w)
    \/ Resolve(w) \/ ResolveInactive(w)
    \/ \E o \in {"transient", "refused"} : ResolveFailed(w, o)
    \/ Dispatch(w) \/ Send(w) \/ Succeed(w) \/ Abort(w)
    \/ \E o \in Failures : Fail(w, o)
    \/ Retry(w) \/ CancelRequest(w)

Next ==
    \/ \E w \in Workers : Step(w)
    \/ \E r \in Requests : Expire(r)
    \/ Done

Spec == Init /\ [][Next]_vars

\* What a worker does without an answer from the network.
OwnStep(w) ==
    \/ CheckActive(w) \/ TakeSlot(w) \/ QueueTimeout(w) \/ Reserve(w)
    \/ ResolveInactive(w) \/ Dispatch(w) \/ Send(w) \/ Abort(w)
    \/ Retry(w) \/ CancelRequest(w)

\* Time passes, and a worker whose own next step is possible takes it: the waits
\* for a slot and between attempts have timeouts.  DNS and providers need never
\* answer.
FairSpec == /\ Spec
            /\ \A w \in Workers : WF_vars(OwnStep(w))
            /\ \A r \in Requests : WF_vars(Expire(r))

-----------------------------------------------------------------------------
(* Properties.                                                             *)

Labels == {"check", "queued", "reserve", "resolve", "dispatch", "sending",
           "inflight", "backoff", "raised", "done"}
HoldsSlot(w) == pc[w] \in {"reserve", "resolve", "dispatch", "sending", "inflight"}
Counted(w) == pc[w] \in {"sending", "inflight"}
Answers(w, p) == {i \in DOMAIN history[w] : history[w][i][1] = p}

\* Budgets, slots, workers and counters keep their types.
TypeOK ==
    /\ budget \in [Requests -> Budget]
    /\ consent \in [Requests -> BOOLEAN]
    /\ slots \in 0..MaxInflight
    /\ pc \in [Workers -> Labels]
    /\ provider \in [Workers -> {"primary", "fallback"}]
    /\ attempt \in [Workers -> 0..MaxRetries - 1]
    /\ status \in [Workers -> Failures \cup {"none"}]
    /\ result \in [Workers -> Reasons \cup
                     {"none", "ok", "provider_rate_limited", "provider_unavailable"}]
    /\ metrics \in [attempts : Nat, successes : Nat, rateLimited : Nat,
                    failures : Nat]

\* Every path out of an attempt gives its slot back exactly once: the free
\* permits and the workers inside the try block always make up the limit.
SlotsConserved ==
    slots + Cardinality({w \in Workers : HoldsSlot(w)}) = MaxInflight

\* No interleaving of workers takes the shared budget of a request past any of
\* its limits, and no request puts more calls on the wire than it reserved.
BudgetRespected ==
    \A r \in Requests :
        LET ws == {w \in Workers : RequestOf[w] = r}
        IN  /\ WithinLimits(budget[r])
            /\ Cardinality(UNION {{<<w, i>> : i \in DOMAIN history[w]} : w \in ws})
                 + Cardinality({w \in ws : Counted(w)}) <= budget[r].attempts

\* Each counted attempt is settled exactly once, as a success or a failure,
\* and only settled calls that failed can be rate limited.
MetricsBalance ==
    /\ metrics.attempts = metrics.successes + metrics.failures
                            + Cardinality({w \in Workers : Counted(w)})
    /\ metrics.rateLimited <= metrics.failures

\* A provider's 429 ends the whole run: it is neither replayed on the same
\* provider nor passed on to the second one, and the caller is told so.
RateLimitIsFinal ==
    \A w \in Workers : \A i \in DOMAIN history[w] :
        history[w][i][2] = "rate_limited" =>
            /\ i = Len(history[w])
            /\ pc[w] = "done"
            /\ result[w] = "provider_rate_limited"

\* The second provider is only asked when the primary was given up in a way
\* that permits it: no answer of the primary was final, and unless one was
\* unusable all its retries were spent (a custom endpoint may also have failed
\* to resolve, which leaves no answer).  A cloud fallback has consent.
FallbackOnlyWhenPermitted ==
    \A w \in Workers : provider[w] = "fallback" =>
        LET given == {history[w][i][2] : i \in Answers(w, "primary")}
        IN  /\ FallbackKind = "cloud" => consent[RequestOf[w]]
            /\ given \cap {"ok", "rate_limited", "refused", "crashed"} = {}
            /\ \/ "invalid" \in given
               \/ Cardinality(Answers(w, "primary")) = MaxRetries
               \/ "primary" \in CustomProviders
            /\ Cardinality(Answers(w, "fallback")) <= MaxRetries

\* A run is only reported as unavailable when nothing permitted was left to
\* try: the last answer was final, or the fallback was used or not available.
UnavailableMeansExhausted ==
    \A w \in Workers :
        result[w] = "provider_unavailable" /\ history[w] # <<>>
          /\ FallbackEligible(history[w][Len(history[w])][2])
          /\ FallbackAllowed(w)
        => provider[w] = "fallback" \/ "primary" \in CustomProviders

\* Every run of _complete comes to an end, whatever the providers, the clock
\* and the competing workers do.
EveryCallEnds == \A w \in Workers : <>(pc[w] = "done")
=============================================================================
