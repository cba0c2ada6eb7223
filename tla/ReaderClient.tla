---------------------------- MODULE ReaderClient ----------------------------
(***************************************************************************)
(* The translation engine in the reader's page (static/translator.js):     *)
(* what is visible is found, queued, sent and stored, while the user turns *)
(* pages, changes the language or switches the overlay off.                *)
(*                                                                         *)
(* JavaScript runs one handler at a time.  An action is one handler up to  *)
(* its next await: a function from the module's variables, held in the     *)
(* record client, to their next values.  A fetch that was aborted rejects  *)
(* in a microtask, so its continuation runs before any other handler.      *)
(*                                                                         *)
(* A paragraph is an element of one chapter, and its cache key is the      *)
(* paragraph and the pair of languages.  Times are flags: a pause is on    *)
(* until a timer ends it.  Drawing is left out.  The persistent            *)
(* browser cache is off, as by default.                                    *)
(***************************************************************************)
EXTENDS Naturals, Sequences, FiniteSets, Lists

CONSTANTS Langs, Null,
          Partial,        \* the part of a translation that a broken stream leaves
          Chapter,        \* sequence of the chapter's paragraphs
          Pages,          \* set of pages; Visible(page) is a part of Chapter
          FirstOn, LastOn,\* page -> index of its first and last paragraph
          RushLimit,      \* rushLimit (3 in the code)
          VisibleChunk,   \* batchSize
          MaxLimited,     \* BT_CLIENT_MAX_RATE_LIMIT_RESPONSES
          PrefetchGap,    \* whether prefetchGapMs is positive
          Rediscovers,    \* whether a content mutation rediscovers (Kavita)
          Answers,        \* what the API may answer, apart from "good"
          MaxEvents       \* bound: events of the user and of the page

ASSUME ClientAssumption ==
    /\ {RushLimit, VisibleChunk, MaxLimited} \subseteq Nat \ {0} /\ MaxEvents \in Nat
    /\ {PrefetchGap, Rediscovers} \subseteq BOOLEAN
    /\ Answers \subseteq {"limited", "network", "error", "changed", "session", "broken"}
    /\ Langs # {} /\ Chapter \in Seq({Chapter[k] : k \in DOMAIN Chapter})
    /\ \A g \in Pages : {FirstOn[g], LastOn[g]} \subseteq DOMAIN Chapter /\ FirstOn[g] <= LastOn[g]

VARIABLES client,  \* the variables of translator.js
          page,    \* what the layout shows
          events

readerVars == <<client, page, events>>

Paragraphs == {Chapter[k] : k \in DOMAIN Chapter}
Hash == Paragraphs \X Langs
Key(i) == << i.p, i.lang >>

(* Requests: a stream and a single carry one item, a batch several. *)
Item == [p : Paragraphs, lang : Langs, gen : Nat]
ReaderRequest == [kind : {"stream", "single", "visible", "prefetch"}, items : Seq(Item),
            stage : {"policy", "sent", "refresh", "refused"},
            lang : Langs, aborted : BOOLEAN, replay : {"no", "session", "stream"}]
Rush == {"stream", "single"}

Running(c) == c.mode = "on" /\ c.route

-----------------------------------------------------------------------------
(* newGeneration, collectUncached, pumpQueue, translateCurrentPage *)

\* activeControllers holds the requests that are past loadProviderPolicy.
Cancelled(r) == [r EXCEPT !.aborted = @ \/ r.stage # "policy"]

NewGenerationKeeps(c) ==                    \* mutant: in-flight requests go on
    [c EXCEPT !.generation = @ + 1, !.limited = [h \in Hash |-> 0], !.answers = [h \in Hash |-> 0],
              !.visible = << >>, !.prefetch = << >>, !.inflight = 0, !.isTranslating = FALSE,
              !.firstDone = FALSE]

NewGeneration(c) ==
    [c EXCEPT !.generation = @ + 1, !.limited = [h \in Hash |-> 0], !.answers = [h \in Hash |-> 0],
              !.requests = [k \in DOMAIN @ |-> Cancelled(@[k])],
              !.visible = << >>, !.prefetch = << >>, !.inflight = 0, !.isTranslating = FALSE,
              !.firstDone = FALSE]

CollectUncached(c, ps) ==
    LET open(p) == c.translated[<< p, c.lang >>] = Null /\ << p, c.lang >> \notin c.failed
        us == Picked(ps, {k \in DOMAIN ps : open(ps[k])})
    IN  [k \in DOMAIN us |-> [p |-> us[k], lang |-> c.lang, gen |-> c.generation]]

NewRequest(c, kind, items) ==
    [kind |-> kind, items |-> items, stage |-> IF c.policy THEN "sent" ELSE "policy",
     lang |-> c.lang, aborted |-> FALSE, replay |-> "no"]

PumpStops(c) == [c EXCEPT !.pump = "idle", !.isTranslating = FALSE]

\* The filters of pumpQueue: no stale, translated or repeated item.
Fresh(c, queue, seen) ==
    LET wanted(i) == i.gen = c.generation /\ c.translated[Key(i)] = Null /\ Key(i) \notin seen
    IN  Picked(queue, {k \in DOMAIN queue :
                         /\ wanted(queue[k])
                         /\ \A j \in 1 .. k - 1 : wanted(queue[j]) => Key(queue[j]) # Key(queue[k])})

Take(queue, n) == SubSeq(queue, 1, IF n < Len(queue) THEN n ELSE Len(queue))
Drop(queue, n) == SubSeq(queue, n + 1, Len(queue))

\* One pass of the loop, up to its await.
Pump(c) ==
    LET v == Fresh(c, c.visible, {})
        f == IF c.prefetchEnabled THEN Fresh(c, c.prefetch, {Key(v[k]) : k \in DOMAIN v}) ELSE << >>
        n == IF v # << >> /\ ~c.firstDone THEN 1 ELSE VisibleChunk
        d == [c EXCEPT !.visible = v, !.prefetch = f]
        batch(kind, items) ==
            [d EXCEPT !.pump = "post", !.requests = Append(@, NewRequest(c, kind, items)), !.gap = PrefetchGap,
                      !.inflight = Len(items), !.isTranslating = kind = "visible",
                      !.visible = IF kind = "visible" THEN Drop(v, n) ELSE v,
                      !.prefetch = IF kind = "prefetch" THEN Drop(f, n) ELSE f]
    IN  IF ~Running(c) THEN PumpStops(c)
        ELSE IF c.rateLimited THEN [c EXCEPT !.pump = "limited"]
        ELSE IF v # << >> THEN batch("visible", Take(v, n))
        ELSE IF f = << >> THEN PumpStops(d)
        ELSE IF c.gap THEN [d EXCEPT !.pump = "gap"]
        ELSE batch("prefetch", Take(f, n))

\* pumpQueue returns when a pump runs; a pump that waits for the prefetch gap
\* is woken (prefetchWaitWake).
PumpQueueTwice(c) == Pump(c)                \* mutant: isPumpRunning is not looked at
PumpQueue(c) == IF c.pump \in {"idle", "gap"} THEN Pump(c) ELSE c
Wake(c) == IF c.pump = "gap" THEN Pump(c) ELSE c

\* Ahead of the page first, behind it last.
Lookahead(g) == SubSeq(Chapter, LastOn[g] + 1, Len(Chapter)) \o SubSeq(Chapter, 1, FirstOn[g] - 1)

TranslateCurrentPage(c, g) ==
    LET u == CollectUncached(c, SubSeq(Chapter, FirstOn[g], LastOn[g]))
        rush == Take(u, RushLimit)
        sent == [k \in DOMAIN rush |-> NewRequest(c, IF k = 1 THEN "stream" ELSE "single", << rush[k] >>)]
    IN  IF ~Running(c) THEN c
        ELSE PumpQueue([c EXCEPT
                 !.requests = @ \o sent, !.visible = Drop(u, RushLimit),
                 !.prefetch = IF c.prefetchEnabled THEN CollectUncached(c, Lookahead(g)) ELSE << >>,
                 !.isTranslating = @ \/ rush # << >>, !.inflight = @ + Len(rush), !.shown = g])

\* scheduleTranslate, immediate and with forceRediscover.
Rediscover(c, g) ==
    IF ~Running(c) THEN c
    ELSE TranslateCurrentPage([NewGeneration(c) EXCEPT !.lastFirst = Null, !.timer = FALSE], g)

\* init(): the mode is restored from the last visit, and the policy is asked for.
Start(mode, known) ==
    [mode |-> mode, route |-> TRUE, prefetchEnabled |-> TRUE, lang |-> CHOOSE l \in Langs : TRUE,
     policy |-> known, generation |-> 0, timer |-> FALSE, lastFirst |-> Null,
     translated |-> [h \in Hash |-> Null], failed |-> {}, limited |-> [h \in Hash |-> 0],
     visible |-> << >>, prefetch |-> << >>, pump |-> "idle",
     rateLimited |-> FALSE, gap |-> FALSE, firstDone |-> FALSE,
     inflight |-> 0, isTranslating |-> FALSE, requests |-> << >>,
     answers |-> [h \in Hash |-> 0], shown |-> Null]       \* history, for the properties

ReaderInit ==
    /\ page \in Pages /\ events = 0
    /\ \E mode \in {"on", "off"}, known \in BOOLEAN :
         /\ known => mode = "off"               \* the answer came before the first click
         /\ client = TranslateCurrentPage(Start(mode, known), page)

-----------------------------------------------------------------------------
(* Events of the user and of the page *)

\* Continuations of aborted requests come first.
Urgent(r) == r.stage = "refused" \/ (r.aborted /\ r.stage = "sent")
Settled == \A k \in DOMAIN client.requests : ~Urgent(client.requests[k])
Event(c) == /\ Settled /\ events < MaxEvents /\ events' = events + 1
            /\ client' = c

TurnPage == \E g \in Pages \ {page} : page' = g /\ Event(client)
\* epub.js reports the new location (rendered, relocated).
Relocated ==
    \E g \in Pages : page' = g /\ Event(Rediscover(client, g))

SwitchOn == client.mode = "off" /\ Event(TranslateCurrentPage([client EXCEPT !.mode = "on"], page)) /\ UNCHANGED page
SwitchOff == client.mode = "on" /\ Event(Wake(NewGeneration([client EXCEPT !.mode = "off"]))) /\ UNCHANGED page
\* bilingual <-> translated: the page is looked at again, in the same generation.
SwitchMode == client.mode = "on" /\ Event(TranslateCurrentPage(client, page)) /\ UNCHANGED page

\* TARGET_LANG or SOURCE_LANG; the cache is that of the new language.
ChangeLanguage ==
    /\ \E l \in Langs \ {client.lang} :
         Event(Wake(TranslateCurrentPage([NewGeneration([client EXCEPT !.lang = l])
                                            EXCEPT !.translated = [h \in Hash |-> Null]], page)))
    /\ UNCHANGED page

LeaveRoute ==
    /\ client.route
    /\ Event(Wake(NewGeneration([client EXCEPT !.route = FALSE, !.timer = FALSE])))
    /\ UNCHANGED page
EnterRoute == ~client.route /\ Event(Rediscover([client EXCEPT !.route = TRUE], page)) /\ UNCHANGED page

\* The content observer; translation follows after 250 ms.
Mutation ==
    /\ Running(client)
    /\ LET c == [client EXCEPT !.timer = TRUE]
       IN  Event(IF Rediscovers THEN Wake([NewGeneration(c) EXCEPT !.lastFirst = Null]) ELSE c)
    /\ UNCHANGED page

TogglePrefetch ==
    LET c == [client EXCEPT !.prefetchEnabled = ~@]
    IN  /\ Event(IF c.prefetchEnabled THEN Rediscover(c, page) ELSE [c EXCEPT !.prefetch = << >>])
        /\ UNCHANGED page

\* "retry" of the menu, and a click on the status.
Retry == Event(Rediscover([client EXCEPT !.failed = {}], page)) /\ UNCHANGED page
RetryStatus ==
    /\ client.failed # {} /\ client.mode = "on" /\ ~client.rateLimited
    /\ Event(TranslateCurrentPage([client EXCEPT !.failed = {}, !.limited = [h \in Hash |-> 0],
                                                 !.answers = [h \in Hash |-> 0]], page))
    /\ UNCHANGED page
ClearCache ==
    /\ Event([client EXCEPT !.failed = {}, !.limited = [h \in Hash |-> 0], !.answers = [h \in Hash |-> 0],
                            !.translated = [h \in Hash |-> Null]])
    /\ UNCHANGED page

\* The page-turn detector of the 350 ms poll; scheduleTranslate resets lastFirst.
Poll ==
    /\ Running(client) /\ ~client.isTranslating /\ page # client.lastFirst
    /\ Event(Rediscover([client EXCEPT !.lastFirst = page], page)) /\ UNCHANGED page

-----------------------------------------------------------------------------
(* Timers and answers *)

Turn(c) == Settled /\ client' = c /\ UNCHANGED <<page, events>>

TimerFires == client.timer /\ Turn(TranslateCurrentPage([client EXCEPT !.timer = FALSE], page))

LimitEnds == client.rateLimited /\ Turn([client EXCEPT !.rateLimited = FALSE])
PumpResumes == client.pump = "limited" /\ (~client.rateLimited \/ ~Running(client)) /\ Turn(Pump(client))
GapEnds == client.gap /\ Turn(Wake([client EXCEPT !.gap = FALSE]))

\* loadProviderPolicy answers everyone who waits for it.
PolicyEnds ==
    /\ \E k \in DOMAIN client.requests : client.requests[k].stage = "policy"
    /\ \E ok \in BOOLEAN :
         Turn([client EXCEPT !.policy = ok,
                 !.requests = [k \in DOMAIN @ |->
                    IF @[k].stage # "policy" THEN @[k]
                    ELSE [@[k] EXCEPT !.stage = IF ok THEN "sent" ELSE "refused", !.lang = client.lang]]])

\* "Stale-response guard".
LiveAlways(c, i) == TRUE                    \* mutant: no guard
LiveAnyGeneration(c, i) == Running(c)       \* mutant: the generation is not compared
IsLive(c, i) == i.gen = c.generation /\ Running(c)

Store(c, i, text) == [c EXCEPT !.translated[Key(i)] = text, !.limited[Key(i)] = 0]
MarkFailed(c, items) ==
    [c EXCEPT !.failed = @ \cup {Key(items[k]) : k \in DOMAIN items},
              !.limited = [h \in Hash |-> IF \E k \in DOMAIN items : Key(items[k]) = h THEN 0 ELSE @[h]]]
CountAnswers(c, items) ==
    [c EXCEPT !.answers = [h \in Hash |-> IF (\E k \in DOMAIN items : Key(items[k]) = h) /\ @[h] <= MaxLimited
                                            THEN @[h] + 1 ELSE @[h]]]

\* The continuation of a rush item.
RushResult(c, r, result) ==
    LET i == r.items[1]
        fails == [c EXCEPT !.failed = @ \cup {Key(i)}]
    IN  IF result = "network" THEN fails            \* the catch clause has no guard
        ELSE IF ~IsLive(c, i) THEN c
        ELSE CASE result = "good"    -> Store(c, i, r.lang)
               [] result = "partial" -> Store(c, i, Partial)
               [] result = "limited" ->
                    [CountAnswers(c, r.items) EXCEPT !.visible = << i >> \o @, !.rateLimited = TRUE]
               [] OTHER              -> fails

RushEnds(c, r, result) ==
    LET d == RushResult(c, r, result)
        n == IF d.inflight = 0 THEN 0 ELSE d.inflight - 1
    IN  [d EXCEPT !.inflight = n, !.isTranslating = @ /\ ~(n = 0 /\ d.visible = << >>)]

\* requeueRateLimited
MayRetryAlways(c, i) == TRUE                \* mutant: no bound on the answers
MayRetry(c, i) == c.limited[Key(i)] + 1 < MaxLimited

Requeue(c, r) ==
    LET may == {k \in DOMAIN r.items : MayRetry(c, r.items[k])}
        keep == Picked(r.items, may)
        counted == [CountAnswers(c, r.items) EXCEPT
                      !.limited = [h \in Hash |-> IF (\E k \in DOMAIN keep : Key(keep[k]) = h) /\ @[h] < MaxLimited
                                                    THEN @[h] + 1 ELSE @[h]]]
        d == MarkFailed(counted, Picked(r.items, DOMAIN r.items \ may))
    IN  [d EXCEPT !.visible  = IF r.kind = "visible" THEN keep \o @ ELSE @,
                  !.prefetch = IF r.kind = "prefetch" THEN keep \o @ ELSE @,
                  !.rateLimited = @ \/ keep # << >>]

\* The continuation of a batch, and the next pass.
Stored(c, r, good) ==
    LET kept(h) == \E k \in DOMAIN r.items : r.items[k].p \in good /\ Key(r.items[k]) = h
    IN  [c EXCEPT !.translated = [h \in Hash |-> IF kept(h) THEN r.lang ELSE @[h]],
                  !.limited    = [h \in Hash |-> IF kept(h) THEN 0 ELSE @[h]]]

BatchResult(c, r, result, good) ==
    LET stored == Stored(c, r, good)
        lost == Picked(r.items, {k \in DOMAIN r.items : stored.translated[Key(r.items[k])] = Null})
    IN  IF result = "network" THEN MarkFailed(c, r.items)
        ELSE IF ~IsLive(c, r.items[1]) \/ result = "aborted" THEN c
        ELSE CASE result = "limited" -> Requeue(c, r)
               [] result = "good"    ->
                    [MarkFailed(stored, lost) EXCEPT
                       !.firstDone = @ \/ (r.kind = "visible" /\ Len(lost) < Len(r.items))]
               [] OTHER              -> MarkFailed(c, r.items)

BatchEnds(c, r, result, good) == Pump([BatchResult(c, r, result, good) EXCEPT !.inflight = 0])

Continuation(k, result, good, policy) ==
    LET r == client.requests[k]
        c == [client EXCEPT !.requests = Removed(@, k), !.policy = policy]
    IN  IF r.kind \in Rush THEN RushEnds(c, r, result) ELSE BatchEnds(c, r, result, good)

Continues(c) == client' = c /\ UNCHANGED <<page, events>>

Ends(k, result, good) == Continues(Continuation(k, result, good, client.policy))

\* An aborted fetch rejects; a request without a policy returns an error.
Reject(k) ==
    /\ Urgent(client.requests[k])
    /\ Ends(k, IF client.requests[k].stage = "refused" THEN "error" ELSE "aborted", {})

\* What the API, the network and the clock may answer.  409 forgets the policy,
\* and may not get a new one.  A stream that the server ends with an error
\* event returns the text it has.
Answer(k) ==
    LET r == client.requests[k]
        ps == {r.items[j].p : j \in DOMAIN r.items}
    IN  /\ Settled /\ r.stage = "sent"
        /\ \/ \E good \in SUBSET ps : Ends(k, IF r.kind \in Rush /\ good = {} THEN "error" ELSE "good", good)
           \/ r.kind # "stream" /\ \E result \in Answers \cap {"limited", "network"} : Ends(k, result, {})
           \/ "error" \in Answers /\ Ends(k, "error", {})          \* also a timeout
           \/ "broken" \in Answers /\ r.kind = "stream" /\ Ends(k, "partial", {})
           \/ "changed" \in Answers /\ r.kind # "stream" /\ Continues(Continuation(k, "error", {}, FALSE))

\* 401: one refresh of the session and of the policy, and one replay.
Unauthorized(k) ==
    LET r == client.requests[k]
    IN  /\ "session" \in Answers /\ r.stage = "sent" /\ r.kind # "stream" /\ r.replay # "session"
        /\ Turn([client EXCEPT !.requests[k].stage = "refresh"])

Refreshed(k) ==
    LET r == client.requests[k]
    IN  /\ Settled /\ r.stage = "refresh"
        /\ \/ \E ok \in BOOLEAN : Continues(Continuation(k, "error", {}, client.policy /\ ok))
           \/ r.aborted /\ Continues(Continuation(k, "aborted", {}, TRUE))
           \/ /\ ~r.aborted
              /\ Continues([client EXCEPT !.policy = TRUE,
                              !.requests[k] = [r EXCEPT !.stage = "sent", !.lang = client.lang,
                                                        !.replay = "session"]])

\* postStream: whatever is not a stream falls back to postSingle.
StreamFails(k) ==
    LET r == client.requests[k]
    IN  /\ r.kind = "stream" /\ r.stage = "sent"
        /\ Turn([client EXCEPT !.requests[k] =
                   [r EXCEPT !.kind = "single", !.replay = "stream", !.lang = client.lang,
                             !.stage = IF client.policy THEN "sent" ELSE "policy"]])

-----------------------------------------------------------------------------
ReaderStep == \/ TimerFires \/ LimitEnds \/ PumpResumes \/ GapEnds \/ PolicyEnds
        \/ \E k \in DOMAIN client.requests :
             Reject(k) \/ Answer(k) \/ Unauthorized(k) \/ Refreshed(k) \/ StreamFails(k)

ReaderNext == \/ TurnPage \/ Relocated \/ SwitchOn \/ SwitchOff \/ SwitchMode \/ ChangeLanguage
        \/ LeaveRoute \/ EnterRoute \/ Mutation \/ TogglePrefetch \/ Retry \/ RetryStatus
        \/ ClearCache \/ Poll \/ ReaderStep

ReaderSpec == ReaderInit /\ [][ReaderNext]_readerVars

\* Timers fire, and a request is answered or times out.
FairReaderSpec == ReaderSpec /\ WF_readerVars(ReaderStep)

-----------------------------------------------------------------------------
(* Properties *)

Batches == {k \in DOMAIN client.requests : client.requests[k].kind \notin Rush}
Current(r) == r.items[1].gen = client.generation /\ ~r.aborted

\* The variables of translator.js are what their initial values suggest.
ReaderTypeOK ==
    /\ client.mode \in {"on", "off"} /\ client.generation \in 0 .. MaxEvents
    /\ client.pump \in {"idle", "limited", "gap", "post"}
    /\ {client.visible, client.prefetch} \subseteq Seq(Item)
    /\ client.requests \in Seq(ReaderRequest)
    /\ client.limited \in [Hash -> 0 .. MaxLimited] /\ client.failed \subseteq Hash
    /\ client.translated \in [Hash -> Langs \cup {Null, Partial}]

\* What is stored under a key is a translation into the language of the key,
\* although the body of a request is made after an await, with the language
\* of that moment (the stale-response guards).
RightLanguage == \A h \in Hash : client.translated[h] \in {Null, h[2], Partial}

\* There is one pump: a batch is out exactly while the pump waits for it
\* (isPumpRunning).
OnePump == Cardinality(Batches) = IF client.pump = "post" THEN 1 ELSE 0

\* Switched off, or away from the reader, nothing is queued, whatever answers
\* come in later (the guards of pumpQueue and of the rush).
OffIsQuiet == ~Running(client) => client.visible = << >> /\ client.prefetch = << >>

\* A new generation leaves no request of an older one at the API
\* (activeControllers).
CancelsWork ==
    [][client'.generation > client.generation =>
         \A k \in DOMAIN client'.requests :
            LET r == client'.requests[k]
            IN  r.stage \in {"sent", "refresh"} /\ r.items[1].gen < client'.generation => r.aborted]_readerVars

\* A paragraph that failed stays failed until the user asks again
\* (failedParagraphs, "terminal until an explicit user retry").
FailedUntilRetry ==
    [][~(client.failed \subseteq client'.failed) => Retry \/ RetryStatus \/ ClearCache]_readerVars

\* A queue is drained: once the user is done, the pump ends, however often the
\* API answers 429 ("a broken proxy cannot hold the queue forever").
PumpEnds == [](events = MaxEvents => <>(client.pump = "idle" /\ client.requests = << >>))

-----------------------------------------------------------------------------
(* What comments, tests and documents say and the code does not do *)

\* tests/e2e/reader.spec.js: active work is neither cancelled nor duplicated
\* by the poll while the reader stays on its page.
PollKeepsWork ==
    [][Poll /\ client.shown = page =>
         ~\E k \in DOMAIN client.requests :
            client.requests[k].stage = "sent" /\ Current(client.requests[k])]_readerVars

\* A 429 before admission "is retried automatically": what is queued has a
\* pump to send it.
QueueHasPump == Running(client) /\ client.visible # << >> => client.pump # "idle"

\* "the retry budget must remain stable for this generation": no more than
\* MaxLimited answers 429 for one paragraph.
RetryBudget == \A h \in Hash : client.answers[h] <= MaxLimited

\* "terminal until an explicit user retry": no request is made for a paragraph
\* that has failed.
Outstanding(c, h) ==
    Cardinality({k \in DOMAIN c.requests : \E j \in DOMAIN c.requests[k].items : Key(c.requests[k].items[j]) = h})
FailedIsNotResent ==
    [][\A h \in client.failed \cap client'.failed : Outstanding(client', h) <= Outstanding(client, h)]_readerVars

\* "Network failures and timeouts are ambiguous [...] require an explicit user
\* retry": no request is a second try of one that failed.
NoAutomaticReplay ==
    \A k \in DOMAIN client.requests : client.requests[k].replay # "stream"

\* "Treat backend error markers and empty results as "not translated"": what an
\* error cut short is not kept as a translation.
ErrorsAreNotStored == \A h \in Hash : client.translated[h] # Partial

\* "cancel in-flight work": nothing of an older generation is sent any more.
StaleIsNotSent ==
    \A k \in DOMAIN client.requests :
        LET r == client.requests[k]
        IN  r.stage = "sent" /\ ~r.aborted => r.items[1].gen = client.generation
=============================================================================
