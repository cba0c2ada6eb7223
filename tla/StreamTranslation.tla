------------------------- MODULE StreamTranslation -------------------------
(***************************************************************************)
(* The streamed translation of one paragraph: stream_gen of server.py over *)
(* translate_text_stream and _call_provider_stream of translator.py.       *)
(*                                                                         *)
(* A stream is a chain of generators that the client pulls: it advances    *)
(* when the client reads, it is closed when the client goes away.  A       *)
(* provider with the OpenAI protocol sends deltas; for the others one      *)
(* complete call is made inside the stream, which takes a slot and a       *)
(* reservation of its own next to those of the stream.                     *)
(***************************************************************************)
EXTENDS Integers, Sequences, FiniteSets, WorkBudget

CONSTANTS Streams,          \* concurrent /translate/stream requests
          StreamCost,       \* what reserve_attempt is asked for
          MaxInflight,      \* BT_MAX_UPSTREAM_INFLIGHT
          OpenAi,           \* the providers whose api_type is "openai"
          HasFallback,      \* _eligible_providers has a second provider
          MaxDeltas         \* bound: deltas of a stream

ASSUME StreamAssumption ==
    /\ IsFiniteSet(Streams)
    /\ StreamCost \in Cost
    /\ MaxInflight \in Nat \ {0}
    /\ OpenAi \subseteq {"primary", "fallback"}
    /\ HasFallback \in BOOLEAN
    /\ MaxDeltas \in Nat \ {0}

VARIABLES budget,     \* per stream, its WorkBudget
          slots,      \* free permits of _UPSTREAM_SEM
          held,       \* per stream, permits it holds
          stage,      \* where a stream stands
          provider,   \* the provider of the loop
          deltas,     \* full_text: per delta, the provider it came from
          fresh,      \* yielded_any
          calls,      \* ghost: the answers of the providers, in order
          metrics,    \* _provider_call_metrics
          unsettled,  \* ghost: counted attempts that are never settled
          outcome,    \* the last event of the stream
          cache       \* rows that the streams have written

streamVars == <<budget, slots, held, stage, provider, deltas, fresh, calls, metrics,
          unsettled, outcome, cache>>

Providers == {"primary", "fallback"}

StreamInit ==
    /\ budget = [s \in Streams |-> NewBudget]
    /\ slots = MaxInflight
    /\ held = [s \in Streams |-> 0]
    /\ stage = [s \in Streams |-> "check"]
    /\ provider = [s \in Streams |-> "primary"]
    /\ deltas = [s \in Streams |-> <<>>]
    /\ fresh = [s \in Streams |-> FALSE]
    /\ calls = [s \in Streams |-> <<>>]
    /\ metrics = [attempts |-> 0, successes |-> 0, rateLimited |-> 0, failures |-> 0]
    /\ unsettled = 0
    /\ outcome = [s \in Streams |-> "none"]
    /\ cache = {}

Goto(s, label) == stage' = [stage EXCEPT ![s] = label]
Hear(s, answer) == calls' = [calls EXCEPT ![s] = Append(@, <<provider[s], answer>>)]

\* The finally clauses: give n permits back.
Release(s, n) ==
    /\ slots' = slots + n
    /\ held' = [held EXCEPT ![s] = @ - n]

\* _record_provider_call("failure") n times, once for a 429 beside it.
Failed(n, limited) ==
    metrics' = [metrics EXCEPT !.failures = @ + n, !.rateLimited = @ + limited]

\* An exception leaves translate_text_stream: stream_gen sends an error event.
Raise(s, reason) ==
    /\ Goto(s, "done")
    /\ outcome' = [outcome EXCEPT ![s] = reason]
    /\ UNCHANGED <<provider, fresh>>

\* The next turn of the loop over the providers.
NextProvider(s) ==
    IF provider[s] = "primary" /\ HasFallback
    THEN /\ provider' = [provider EXCEPT ![s] = "fallback"]
         /\ fresh' = [fresh EXCEPT ![s] = FALSE]
         /\ Goto(s, "check")
         /\ UNCHANGED outcome
    ELSE Raise(s, "provider_unavailable")

\* Attempts the stream has counted and not settled: its own, and that of the
\* complete call inside it.
Open(s) ==
    CASE stage[s] \in {"check", "queued", "reserve", "caching", "done"} -> 0
      [] stage[s] = "inflight" -> 2
      [] OTHER -> 1

-----------------------------------------------------------------------------
(* One turn of the loop; the labels with i belong to the call inside.      *)

\* _acquire_upstream_slot: ensure_active.
CheckActive(s) ==
    /\ stage[s] \in {"check", "icheck"}
    /\ IF Active(budget[s])
       THEN /\ Goto(s, IF stage[s] = "check" THEN "queued" ELSE "iqueued")
            /\ UNCHANGED <<slots, held, metrics, outcome, provider, fresh>>
       ELSE /\ Failed(Open(s), 0)
            /\ Release(s, held[s])
            /\ Raise(s, Inactive(budget[s]))
    /\ UNCHANGED <<budget, deltas, calls, unsettled, cache>>

TakeSlot(s) ==
    /\ stage[s] \in {"queued", "iqueued"}
    /\ slots > 0
    /\ slots' = slots - 1
    /\ held' = [held EXCEPT ![s] = @ + 1]
    /\ Goto(s, IF stage[s] = "queued" THEN "reserve" ELSE "ireserve")
    /\ UNCHANGED <<budget, provider, deltas, fresh, calls, metrics, unsettled,
                   outcome, cache>>

QueueTimeout(s) ==
    /\ stage[s] \in {"queued", "iqueued"}
    /\ slots = 0
    /\ Failed(Open(s), 0)
    /\ Release(s, held[s])
    /\ Raise(s, IF budget[s].expired THEN "deadline" ELSE "queue")
    /\ UNCHANGED <<budget, deltas, calls, unsettled, cache>>

\* reserve_attempt, then the attempt is counted.
ReserveLeaks(s) ==                      \* mutant: the slot taken is not given back
    LET refusal == Refusal(budget[s], StreamCost)
    IN  /\ stage[s] \in {"reserve", "ireserve"}
        /\ IF refusal = "none"
           THEN /\ budget' = [budget EXCEPT ![s] = Reserved(@, StreamCost)]
                /\ metrics' = [metrics EXCEPT !.attempts = @ + 1]
                /\ Goto(s, IF stage[s] = "ireserve" THEN "inflight"
                           ELSE IF provider[s] \in OpenAi THEN "reading" ELSE "icheck")
                /\ UNCHANGED <<slots, held, outcome, provider, fresh>>
           ELSE /\ Failed(Open(s), 0)
                /\ Raise(s, refusal)
                /\ UNCHANGED <<budget, slots, held>>
        /\ UNCHANGED <<deltas, calls, unsettled, cache>>
Reserve(s) ==
    LET refusal == Refusal(budget[s], StreamCost)
    IN  /\ stage[s] \in {"reserve", "ireserve"}
        /\ IF refusal = "none"
           THEN /\ budget' = [budget EXCEPT ![s] = Reserved(@, StreamCost)]
                /\ metrics' = [metrics EXCEPT !.attempts = @ + 1]
                /\ Goto(s, IF stage[s] = "ireserve" THEN "inflight"
                           ELSE IF provider[s] \in OpenAi THEN "reading" ELSE "icheck")
                /\ UNCHANGED <<slots, held, outcome, provider, fresh>>
           ELSE /\ Failed(Open(s), 0)
                /\ Release(s, held[s])
                /\ Raise(s, refusal)
                /\ UNCHANGED budget
        /\ UNCHANGED <<deltas, calls, unsettled, cache>>

\* A line of the event stream with content.
Delta(s) ==
    /\ stage[s] = "reading"
    /\ Active(budget[s])
    /\ Len(deltas[s]) < MaxDeltas
    /\ deltas' = [deltas EXCEPT ![s] = Append(@, provider[s])]
    /\ fresh' = [fresh EXCEPT ![s] = TRUE]
    /\ Goto(s, "deliver")
    /\ UNCHANGED <<budget, slots, held, provider, calls, metrics, unsettled,
                   outcome, cache>>

\* The complete call inside the stream answers; its slot is free again.
CallAnswers(s) ==
    /\ stage[s] = "inflight"
    /\ Active(budget[s])
    /\ Len(deltas[s]) < MaxDeltas
    /\ deltas' = [deltas EXCEPT ![s] = Append(@, provider[s])]
    /\ fresh' = [fresh EXCEPT ![s] = TRUE]
    /\ metrics' = [metrics EXCEPT !.successes = @ + 1]
    /\ Hear(s, "ok")
    /\ Release(s, 1)
    /\ Goto(s, "deliver")
    /\ UNCHANGED <<budget, provider, unsettled, outcome, cache>>

\* The client takes the delta and pulls the next one.
ClientReads(s) ==
    /\ stage[s] = "deliver"
    /\ Goto(s, IF provider[s] \in OpenAi THEN "reading" ELSE "exhausted")
    /\ UNCHANGED <<budget, slots, held, provider, deltas, fresh, calls, metrics,
                   unsettled, outcome, cache>>

\* The body ends, with or without [DONE], or an error status came with a body
\* that has no data lines: the status is not looked at.
EndOfStream(s, answer) ==
    /\ stage[s] = "reading"
    /\ answer # "ok" => ~fresh[s]
    /\ Hear(s, answer)
    /\ Goto(s, "exhausted")
    /\ UNCHANGED <<budget, slots, held, provider, deltas, fresh, metrics,
                   unsettled, outcome, cache>>

\* After the loop over the deltas: success if there was one, else the next
\* provider, with the attempt counted neither way.
Finish(s) ==
    /\ stage[s] = "exhausted"
    /\ Release(s, held[s])
    /\ IF fresh[s]
       THEN /\ metrics' = [metrics EXCEPT !.successes = @ + 1]
            /\ Goto(s, "caching")
            /\ UNCHANGED <<provider, fresh, unsettled, outcome>>
       ELSE /\ unsettled' = unsettled + 1
            /\ NextProvider(s)
            /\ UNCHANGED metrics
    /\ UNCHANGED <<budget, deltas, calls, cache>>

\* The connection breaks, or the provider refuses the call inside: both
\* attempts fail and the fallback is tried, whatever was delivered before.
BreakEnds(s, answer) ==                 \* mutant: a broken connection is the end of the body
    /\ stage[s] \in {"reading", "inflight"}
    /\ stage[s] = "reading" => answer = "transient"
    /\ Hear(s, answer)
    /\ Goto(s, "exhausted")
    /\ UNCHANGED <<budget, slots, held, provider, deltas, fresh, metrics, unsettled, outcome, cache>>
Break(s, answer) ==
    /\ stage[s] \in {"reading", "inflight"}
    /\ stage[s] = "reading" => answer = "transient"
    /\ Hear(s, answer)
    /\ Failed(Open(s), IF answer = "rate_limited" THEN 1 ELSE 0)
    /\ Release(s, held[s])
    /\ NextProvider(s)
    /\ UNCHANGED <<budget, deltas, unsettled, cache>>

\* ensure_active before a line, or the deadline socket, ends the read.
AbortNever(s) == FALSE /\ stage[s] = "reading" /\ UNCHANGED streamVars   \* mutant: no deadline
Abort(s) ==
    /\ stage[s] \in {"reading", "inflight"}
    /\ ~Active(budget[s])
    /\ Failed(Open(s), 0)
    /\ Release(s, held[s])
    /\ Raise(s, Inactive(budget[s]))
    /\ UNCHANGED <<budget, deltas, calls, unsettled, cache>>

\* The client goes away while a delta is being sent: GeneratorExit runs the
\* finally clauses only.
ClientGone(s) ==
    /\ stage[s] = "deliver"
    /\ Release(s, held[s])
    /\ unsettled' = unsettled + Open(s)
    /\ Raise(s, "disconnected")
    /\ UNCHANGED <<budget, deltas, calls, metrics, cache>>

\* stream_gen caches the joined deltas under the scope of the last provider,
\* for the single and the batch contract; a failing write ends this quietly.
StoreResult(s) ==
    /\ stage[s] = "caching"
    /\ \E written \in {{}, {"single"}, {"single", "batch"}} :
         cache' = cache \cup
             {[stream |-> s, scope |-> provider[s], contract |-> c,
               parts |-> deltas[s]] : c \in written}
    /\ Raise(s, "translated")
    /\ UNCHANGED <<budget, slots, held, deltas, calls, metrics, unsettled>>

Expire(s) ==
    /\ ~budget[s].expired
    /\ budget' = [budget EXCEPT ![s].expired = TRUE]
    /\ UNCHANGED <<slots, held, stage, provider, deltas, fresh, calls, metrics,
                   unsettled, outcome, cache>>

Done == /\ \A s \in Streams : stage[s] = "done" /\ budget[s].expired
        /\ UNCHANGED streamVars

\* What a stream does by itself; the waits for slots have a timeout.
OwnStep(s) ==
    \/ CheckActive(s) \/ TakeSlot(s) \/ QueueTimeout(s) \/ Reserve(s)
    \/ Finish(s) \/ Abort(s) \/ StoreResult(s)

Step(s) ==
    \/ OwnStep(s)
    \/ Delta(s) \/ CallAnswers(s) \/ ClientReads(s) \/ ClientGone(s)
    \/ \E answer \in {"ok", "transient", "rate_limited"} : EndOfStream(s, answer)
    \/ \E answer \in {"transient", "rate_limited"} : Break(s, answer)

StreamNext == (\E s \in Streams : Step(s) \/ Expire(s)) \/ Done

StreamSpec == StreamInit /\ [][StreamNext]_streamVars

\* Time passes, and a client reads or is noticed to be gone.  Providers need
\* not answer.
FairStreamSpec == /\ StreamSpec
            /\ \A s \in Streams : /\ WF_streamVars(OwnStep(s))
                                  /\ WF_streamVars(Expire(s))
                                  /\ WF_streamVars(ClientReads(s) \/ ClientGone(s))

-----------------------------------------------------------------------------
(* Properties                                                              *)

\* What the streams have in hand, one by one: f[s] is never more than two.
Units(f) == {u \in Streams \X (1 .. 2) : u[2] <= f[u[1]]}

\* The variables of the streams, their budgets, the counters and the rows
\* keep their types.
StreamTypeOK ==
    /\ budget \in [Streams -> Budget]
    /\ slots \in 0 .. MaxInflight
    /\ held \in [Streams -> 0 .. 2]
    /\ stage \in [Streams -> {"check", "queued", "reserve", "icheck", "iqueued",
                           "ireserve", "inflight", "reading", "deliver",
                           "exhausted", "caching", "done"}]
    /\ provider \in [Streams -> Providers]
    /\ \A s \in Streams : deltas[s] \in Seq(Providers) /\ Len(deltas[s]) <= MaxDeltas
    /\ fresh \in [Streams -> BOOLEAN]
    /\ outcome \in [Streams -> Reasons \cup {"none", "provider_unavailable",
                                             "disconnected", "translated"}]
    /\ \A row \in cache : row.stream \in Streams /\ row.scope \in Providers

\* translate_text_stream, _call_provider: permits are conserved although one
\* stream may hold two, and a stream that has ended, by any of its exits,
\* holds none.
SlotsConserved ==
    /\ slots + Cardinality(Units(held)) = MaxInflight
    /\ \A s \in Streams : stage[s] \in {"check", "caching", "done"} => held[s] = 0

\* translate_text_stream, stream_gen: a row is written only if the provider it
\* is stored under sent its answer to the end and had something to say.  What
\* it holds of the other provider was delivered before that one's connection
\* broke, never beside a refusal, a 429 or an answer that was complete.
CachedIsAnswered ==
    \A row \in cache :
        LET heard == calls[row.stream]
        IN  /\ heard # <<>> /\ heard[Len(heard)] = <<row.scope, "ok">>
            /\ row.parts # <<>> /\ row.parts[Len(row.parts)] = row.scope
            /\ \A i \in DOMAIN row.parts : row.parts[i] # row.scope =>
                 Len(heard) = 2 /\ heard[1] = <<row.parts[i], "transient">>

\* Every counted attempt is settled once or is one of the known gaps: a body
\* without deltas, or a client that went away.
MetricsBalance ==
    metrics.attempts = metrics.successes + metrics.failures + unsettled
                       + Cardinality(Units([s \in Streams |-> Open(s)]))

\* A stream ends even if no provider ever answers, provided its client reads
\* or is noticed to be gone.
EveryStreamEnds == \A s \in Streams : <>(stage[s] = "done")

\* cache.py: "A translation is only valid inside the exact
\* tenant/book/chapter/provider/prompt/protocol/context scope that produced
\* it": every part of a row comes from the provider it is stored under.
CachedUnderItsProducer ==
    \A row \in cache : \A i \in DOMAIN row.parts : row.parts[i] = row.scope

\* translator.py, on a provider's 429: "Replaying it here would amplify the
\* project RPM burst and could also fall through to another paid provider."
RateLimitIsFinal ==
    \A s \in Streams : \A i \in DOMAIN calls[s] :
        calls[s][i][2] = "rate_limited" => i = Len(calls[s])

\* docs/reference/configuration.md: BT_MAX_UPSTREAM_INFLIGHT is the
\* "Process-wide provider concurrency cap": a stream is turned away for want
\* of a slot only while a provider call is under way.
RefusedOnlyWhenBusy ==
    [][ \A s \in Streams :
          outcome[s] # "queue" /\ outcome'[s] = "queue" =>
              \E u \in Streams : stage[u] \in {"reading", "deliver", "inflight",
                                            "exhausted", "reserve", "ireserve"} ]_streamVars
=============================================================================
