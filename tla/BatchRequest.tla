---------------------------- MODULE BatchRequest ----------------------------
(***************************************************************************)
(* One /translate/batch request: _translate_paragraphs of server.py over   *)
(* translate_batch_detailed, _do_group, _translate_group_operation and     *)
(* BatchRecoveryTracker of translator.py.                                  *)
(*                                                                         *)
(* The request thread looks groups of paragraphs up in the cache, runs the *)
(* missing ones on a window of worker threads and writes what may be       *)
(* cached.  A worker asks for the whole group, once more if the answer is  *)
(* malformed, and then for each paragraph.  Workers can outlive a request  *)
(* that failed.                                                            *)
(*                                                                         *)
(* A run of _complete is two steps here, the reservation and the outcome;  *)
(* ProviderCall has its detail.  SegmentProtocolError, which translator.py *)
(* handles and never raises, is left out.                                  *)
(***************************************************************************)
EXTENDS Integers, Sequences, FiniteSets, WorkBudget

CONSTANTS Groups,         \* translation_groups, numbered in order
          Size,           \* [Groups -> Nat]: paragraphs of a group
          ContextWindow,  \* BT_CONTEXT_WINDOW
          MaxConcurrent,  \* max_concurrent
          Eligible,       \* providers of _eligible_providers
          CallCost,       \* what a call of a group reserves, by stage
          InitialCaches   \* sets of rows the cache may hold at first

ASSUME BatchAssumption ==
    /\ IsFiniteSet(Groups) /\ Groups \subseteq Nat \ {0}
    /\ Size \in [Groups -> Nat \ {0}]
    /\ ContextWindow \in Nat
    /\ MaxConcurrent \in Nat \ {0}
    /\ CallCost \in [Groups -> [1 .. 3 -> Cost]]

\* The empty name stands for no provider, in the item of what failed.
ASSUME EligibleAssumption == "" \notin Eligible

VARIABLES budget,      \* the WorkBudget of the request
          main,        \* where the request thread stands
          outcome,     \* "ok" or the reason of WorkBudgetExceeded
          toSubmit,    \* groups not yet submitted
          done,        \* futures that wait() returned, not yet looked at
          state,       \* per group, where its worker stands
          stage,       \* per group, 1 or 2: envelope attempt; 3: paragraphs
          items,       \* per group, its BatchTranslationItems
          raised,      \* per group, the reason its future raises
          results,     \* per group, what the response has
          counts,      \* BatchRecoveryTracker._counts
          sink,        \* _sink is attached
          published,   \* what the metrics sink has received
          publishing,  \* per group, and for 0 the request thread: what it
                       \* has read under the lock and is about to publish
          cache        \* rows [group, pos, contract, provider]

batchVars == <<budget, main, outcome, toSubmit, done, state, stage, items, raised, results,
          counts, sink, published, publishing, cache>>

workers == <<state, stage, items, raised>>
metrics == <<counts, sink, published, publishing>>

Metrics == {"envelope_retry_groups", "envelope_retry_recovered_groups",
            "paragraph_fallback_groups", "paragraph_fallback_recovered_segments",
            "paragraph_fallback_failed_segments"}
Nothing == [n \in Metrics |-> 0]
One(name) == [Nothing EXCEPT ![name] = 1]
Plus(a, b) == [n \in Metrics |-> a[n] + b[n]]

Positions(g) == 1 .. Size[g]
Uniform(g, item) == [i \in Positions(g) |-> item]
Item(path, provider) == [path |-> path, provider |-> provider]
CacheableText(item) == item.provider # ""      \* mutant: server_cacheable is not looked at
Cacheable(item) == item.path \in {"direct", "envelope_retry"}
CacheRow(g, i, contract, p) == [group |-> g, pos |-> i, contract |-> contract, provider |-> p]
InWindow == {g \in Groups : state[g] \in {"submitted", "ready", "calling", "finished"}}

BatchInit ==
    /\ budget = NewBudget
    /\ main = "lookup" /\ outcome = "none"
    /\ toSubmit = {} /\ done = {}
    /\ state = [g \in Groups |-> "waiting"]
    /\ stage = [g \in Groups |-> 1]
    /\ items = [g \in Groups |-> <<>>]
    /\ raised = [g \in Groups |-> "none"]
    /\ results = [g \in Groups |-> <<>>]
    /\ counts = Nothing /\ published = Nothing
    /\ sink = FALSE
    /\ publishing = [x \in Groups \cup {0} |-> Nothing]
    /\ cache \in InitialCaches

-----------------------------------------------------------------------------
(* The request thread                                                      *)

\* A group is served from the cache when one backend has all of it, under the
\* batch contract or else under the single one.
Hit(g) ==
    \E contract \in {"batch", "single"}, p \in Eligible :
        \A i \in Positions(g) : CacheRow(g, i, contract, p) \in cache

Lookup ==
    LET missing == {g \in Groups : ~Hit(g)}
    IN  /\ main = "lookup"
        /\ results' = [g \in Groups |-> IF g \in missing THEN <<>>
                                       ELSE Uniform(g, Item("cache", "cache"))]
        /\ toSubmit' = missing
        /\ IF missing = {} THEN main' = "done" /\ outcome' = "ok"
                           ELSE main' = "run" /\ UNCHANGED outcome
        /\ UNCHANGED <<budget, done, workers, metrics, cache>>

\* Groups are submitted in order, while the window has room.
Submit(g) ==
    /\ main = "run"
    /\ g \in toSubmit /\ \A h \in toSubmit : g <= h
    /\ Cardinality(InWindow) < MaxConcurrent
    /\ state' = [state EXCEPT ![g] = "submitted"]
    /\ toSubmit' = toSubmit \ {g}
    /\ UNCHANGED <<budget, main, outcome, done, stage, items, raised, results, metrics, cache>>

\* The window is full or everything is submitted: wait() returns the futures
\* that are done.
Wait ==
    /\ main = "run"
    /\ toSubmit = {} \/ Cardinality(InWindow) >= MaxConcurrent
    /\ done' = {g \in Groups : state[g] = "finished"}
    /\ done' # {}
    /\ main' = "collect"
    /\ UNCHANGED <<budget, outcome, toSubmit, workers, results, metrics, cache>>

\* One of them.  A future that raises ends the request: the futures that have
\* not started are cancelled, the others are left alone.
Collect(g) ==
    LET last == toSubmit = {} /\ InWindow = {g}
    IN  /\ main = "collect"
        /\ g \in done
        /\ done' = done \ {g}
        /\ IF raised[g] = "none"
           THEN /\ results' = [results EXCEPT ![g] = items[g]]
                /\ state' = [state EXCEPT ![g] = "collected"]
                /\ main' = IF last THEN "flush" ELSE IF done' = {} THEN "run" ELSE main
                /\ outcome' = IF last THEN "ok" ELSE "none"
           ELSE /\ main' = "flush"
                /\ outcome' = raised[g]
                /\ state' = [h \in Groups |->
                               IF h = g THEN "collected"
                               ELSE IF state[h] = "submitted" THEN "cancelled"
                               ELSE state[h]]
                /\ UNCHANGED results
        /\ UNCHANGED <<budget, toSubmit, stage, items, raised, metrics, cache>>

\* attach_sink_and_flush under the tracker's lock, and its _publish after it.
FlushOnly ==                            \* mutant: late records have no sink
    /\ main = "flush"
    /\ publishing' = [publishing EXCEPT ![0] = counts]
    /\ main' = "publish"
    /\ UNCHANGED <<budget, outcome, toSubmit, done, workers, results, counts, published, cache, sink>>
AttachSink ==
    /\ main = "flush"
    /\ sink' = TRUE
    /\ publishing' = [publishing EXCEPT ![0] = counts]
    /\ main' = "publish"
    /\ UNCHANGED <<budget, outcome, toSubmit, done, workers, results, counts, published, cache>>

PublishFlushed ==
    /\ main = "publish"
    /\ published' = Plus(published, publishing[0])
    /\ publishing' = [publishing EXCEPT ![0] = Nothing]
    /\ main' = IF outcome = "ok" THEN "write" ELSE "done"
    /\ UNCHANGED <<budget, outcome, toSubmit, done, workers, results, counts, sink, cache>>

\* One put_cache_many with the cacheable items of the missing groups; if it
\* fails, the request goes on without it.
WriteCache ==
    LET rows == UNION {{CacheRow(g, i, "batch", results[g][i].provider) :
                          i \in {j \in DOMAIN results[g] : Cacheable(results[g][j])}} :
                       g \in {h \in Groups : state[h] = "collected"}}
    IN  /\ main = "write"
        /\ cache' \in {cache, cache \cup rows}
        /\ main' = "done"
        /\ UNCHANGED <<budget, outcome, toSubmit, done, workers, results, metrics>>

-----------------------------------------------------------------------------
(* A worker: _do_group                                                     *)

request == <<main, outcome, toSubmit, done, results, cache>>

\* BatchRecoveryTracker.record: count, and read the sink, under the lock.
Record(g, name) ==
    /\ counts' = [counts EXCEPT ![name] = @ + 1]
    /\ publishing' = [publishing EXCEPT ![g] = IF sink THEN One(name) ELSE Nothing]
    /\ UNCHANGED <<sink, published>>

Publish(g) ==
    /\ publishing[g] # Nothing
    /\ published' = Plus(published, publishing[g])
    /\ publishing' = [publishing EXCEPT ![g] = Nothing]
    /\ UNCHANGED <<budget, request, workers, counts, sink>>

\* WorkBudgetExceeded cancels the budget for the workers beside this one.
GiveUpAlone(g, reason) ==               \* mutant: the budget is not cancelled
    /\ raised' = [raised EXCEPT ![g] = reason]
    /\ state' = [state EXCEPT ![g] = "finished"]
    /\ UNCHANGED <<budget, stage, items>>
GiveUpUnnamed(g, reason) ==             \* mutant: budget.cancel() without the reason
    /\ budget' = Cancel(budget, "cancelled")
    /\ raised' = [raised EXCEPT ![g] = reason]
    /\ state' = [state EXCEPT ![g] = "finished"]
    /\ UNCHANGED <<stage, items>>
GiveUp(g, reason) ==
    /\ budget' = Cancel(budget, reason)
    /\ raised' = [raised EXCEPT ![g] = reason]
    /\ state' = [state EXCEPT ![g] = "finished"]
    /\ UNCHANGED <<stage, items>>

Start(g) ==
    /\ state[g] = "submitted"
    /\ IF Active(budget)
       THEN /\ state' = [state EXCEPT ![g] = "ready"]
            /\ UNCHANGED <<budget, stage, items, raised>>
       ELSE GiveUp(g, Inactive(budget))
    /\ UNCHANGED <<request, metrics>>

\* _complete gets a slot and reserves, or raises.
Call(g) ==
    LET refusal == Refusal(budget, CallCost[g][stage[g]])
    IN  /\ state[g] = "ready"
        /\ publishing[g] = Nothing
        /\ IF refusal = "none"
           THEN /\ budget' = Reserved(budget, CallCost[g][stage[g]])
                /\ state' = [state EXCEPT ![g] = "calling"]
                /\ UNCHANGED <<stage, items, raised>>
           ELSE GiveUp(g, refusal)
        /\ UNCHANGED <<request, metrics>>

QueueTimeout(g) ==
    /\ state[g] = "ready"
    /\ publishing[g] = Nothing
    /\ GiveUp(g, IF Active(budget) THEN "queue" ELSE Inactive(budget))
    /\ UNCHANGED <<request, metrics>>

AbortNever(g) == FALSE /\ state[g] = "calling" /\ UNCHANGED batchVars    \* mutant: no deadline
Abort(g) ==
    /\ state[g] = "calling"
    /\ ~Active(budget)
    /\ GiveUp(g, Inactive(budget))
    /\ UNCHANGED <<request, metrics>>

Finish(g, its) ==
    /\ items' = [items EXCEPT ![g] = its]
    /\ state' = [state EXCEPT ![g] = "finished"]
    /\ UNCHANGED <<budget, stage, raised>>
Again(g, s) ==
    /\ state' = [state EXCEPT ![g] = "ready"]
    /\ stage' = [stage EXCEPT ![g] = s]
    /\ UNCHANGED <<budget, items, raised>>

\* A lone paragraph without context is an ordinary translation.
Plain(g) == Size[g] = 1 /\ ContextWindow = 0

\* The group's envelope, or the plain translation, is answered by p.
EnvelopeValid(g, p) ==
    /\ state[g] = "calling" /\ stage[g] < 3
    /\ Finish(g, Uniform(g, Item(IF stage[g] = 1 THEN "direct" ELSE "envelope_retry", p)))
    /\ IF stage[g] = 2 THEN Record(g, "envelope_retry_recovered_groups")
                       ELSE UNCHANGED metrics
    /\ UNCHANGED request

\* The answer is not an envelope with the segments that were asked for.
EnvelopeMalformed(g) ==
    /\ state[g] = "calling" /\ stage[g] < 3 /\ ~Plain(g)
    /\ Again(g, stage[g] + 1)
    /\ Record(g, IF stage[g] = 1 THEN "envelope_retry_groups"
                                 ELSE "paragraph_fallback_groups")
    /\ UNCHANGED request

\* No provider: every paragraph of the group is marked as failed.
GroupFailed(g) ==
    /\ state[g] = "calling" /\ stage[g] < 3
    /\ Finish(g, Uniform(g, Item("failed", "")))
    /\ UNCHANGED <<request, metrics>>

\* Paragraph by paragraph: a provider error marks the one and goes on.
Paragraph(g, item) ==
    LET its == Append(items[g], item)
    IN  /\ state[g] = "calling" /\ stage[g] = 3
        /\ items' = [items EXCEPT ![g] = its]
        /\ state' = [state EXCEPT ![g] = IF Len(its) = Size[g] THEN "finished" ELSE "ready"]
        /\ Record(g, IF item.provider = "" THEN "paragraph_fallback_failed_segments"
                     ELSE "paragraph_fallback_recovered_segments")
        /\ UNCHANGED <<budget, stage, raised, request>>

ParagraphItems ==
    {Item("paragraph_fallback", p) : p \in Eligible}
        \cup {Item("paragraph_fallback_failed", "")}

Expire ==
    /\ ~budget.expired
    /\ budget' = [budget EXCEPT !.expired = TRUE]
    /\ UNCHANGED <<request, workers, metrics>>

AllStopped == /\ main = "done"
              /\ \A g \in Groups : state[g] \notin {"submitted", "ready", "calling"}
              /\ \A x \in DOMAIN publishing : publishing[x] = Nothing
Done == AllStopped /\ budget.expired /\ UNCHANGED batchVars

RequestStep == Lookup \/ Wait \/ AttachSink \/ PublishFlushed \/ WriteCache
               \/ \E g \in Groups : Submit(g) \/ Collect(g)
WorkerStep(g) == Start(g) \/ Call(g) \/ QueueTimeout(g) \/ Abort(g) \/ Publish(g)
AnswerStep(g) ==
    \/ \E p \in Eligible : EnvelopeValid(g, p)
    \/ EnvelopeMalformed(g) \/ GroupFailed(g)
    \/ \E item \in ParagraphItems : Paragraph(g, item)

BatchNext == RequestStep \/ (\E g \in Groups : WorkerStep(g) \/ AnswerStep(g)) \/ Expire \/ Done

BatchSpec == BatchInit /\ [][BatchNext]_batchVars

\* Threads run and time passes; no provider need ever answer.
FairBatchSpec == /\ BatchSpec
            /\ WF_batchVars(RequestStep) /\ WF_batchVars(Expire)
            /\ \A g \in Groups : WF_batchVars(WorkerStep(g))

-----------------------------------------------------------------------------
(* Properties                                                              *)

\* The request, its workers and the tracker keep their types.
BatchTypeOK ==
    /\ budget \in Budget
    /\ main \in {"lookup", "run", "collect", "flush", "publish", "write", "done"}
    /\ outcome \in Reasons \cup {"none", "ok"}
    /\ state \in [Groups -> {"waiting", "submitted", "ready", "calling", "finished",
                             "collected", "cancelled"}]
    /\ stage \in [Groups -> 1 .. 3]
    /\ \A g \in Groups : Len(items[g]) <= Size[g]
    /\ raised \in [Groups -> Reasons \cup {"none"}]
    /\ counts \in [Metrics -> Nat] /\ published \in [Metrics -> Nat]
    /\ sink \in BOOLEAN
    /\ \A row \in cache : row.pos \in Positions(row.group)

\* translate_batch_detailed: a request that answered 200 has one item for
\* every paragraph, whether its group came from the cache, from an envelope
\* or from single paragraphs some of which failed.
EveryParagraphAnswered ==
    outcome = "ok" => \A g \in Groups : DOMAIN results[g] = Positions(g)

\* _do_group: "the cancelled shared budget prevents every retry and queued
\* group from starting new I/O": once the request has failed, no worker that
\* outlives it reserves another call.
NoWorkAfterFailure ==
    [][outcome \notin {"none", "ok"} => budget'.attempts = budget.attempts]_batchVars

\* The reason that is reported is a limit of the request, never the bare
\* "cancelled" that stands for another worker's failure.
ReasonIsReported == outcome # "cancelled"

\* attach_sink_and_flush, record: what the sink has received and is about to
\* receive is what was counted, also when a worker records after the request
\* has ended.
PublishedOnce ==
    \A n \in Metrics :
        published[n] + publishing[0][n] + Cardinality({g \in Groups : publishing[g][n] = 1})
            = IF main \in {"lookup", "run", "collect", "flush"} THEN 0 ELSE counts[n]

\* The recovery counters of a request that answered agree with its items.
RecoveryMatchesItems ==
    LET with(path) == Cardinality(UNION {{<<g, i>> : i \in
                          {j \in DOMAIN results[g] : results[g][j].path = path}} : g \in Groups})
    IN  outcome = "ok" =>
            /\ counts["paragraph_fallback_recovered_segments"] = with("paragraph_fallback")
            /\ counts["paragraph_fallback_failed_segments"] = with("paragraph_fallback_failed")
            /\ counts["envelope_retry_groups"] >=
                 counts["envelope_retry_recovered_groups"] + counts["paragraph_fallback_groups"]

\* _translate_paragraphs: a request never leaves a group partly cached, or
\* cached from different providers: only envelopes are written, as a whole.
WrittenGroupsWhole ==
    [][ \A g \in Groups :
          LET new == {row \in cache' \ cache : row.group = g}
          IN  new # {} =>
                /\ \E p \in Eligible :
                     {CacheRow(g, i, "batch", p) : i \in Positions(g)} \subseteq cache'
                /\ stage[g] < 3 ]_batchVars

\* A request ends and every worker stops, though no provider answers.
EveryBatchEnds == <>[]AllStopped
=============================================================================
