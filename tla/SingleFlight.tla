---------------------------- MODULE SingleFlight ----------------------------
(***************************************************************************)
(* The bounded registry of singleflight.py: callers that ask for the same  *)
(* key share one run of an operation.  The registry maps a key to a flight *)
(* object; a caller keeps its own reference to that object, so a flight    *)
(* may be dropped from the registry while a follower still holds it.       *)
(*                                                                         *)
(* Every block under self._lock is one step.  A leader's operation and a   *)
(* follower's event.wait happen outside the lock.  How long either lasts   *)
(* is left open: the operation ends whenever Complete fires, the follower  *)
(* may give up at any moment at which the event is not set.                *)
(***************************************************************************)
EXTENDS Integers, FiniteSets

CONSTANTS Callers,     \* threads that call run()
          Keys,        \* the opaque keys they use
          NoKey,       \* the key of a caller that has made no call
          MaxEntries,  \* max_entries
          ResultTTL,   \* result_ttl_seconds, in clock ticks
          MaxTime,     \* bound: the last tick of the clock
          MaxCalls     \* bound: the number of run() calls of a behaviour

ASSUME CallersAssumption == IsFiniteSet(Callers)
ASSUME KeysAssumption == IsFiniteSet(Keys) /\ NoKey \notin Keys
ASSUME MaxEntriesAssumption == MaxEntries \in Nat \ {0}
ASSUME ResultTTLAssumption == ResultTTL \in Nat
ASSUME BoundsAssumption == MaxTime \in Nat /\ MaxCalls \in Nat

VARIABLES clock,              \* self._clock()
          flights,            \* self._flights: key -> flight, NoFlight if absent
          heap,               \* the _Flight objects, numbered by creation
          pc,                 \* where a caller stands in run()
          call,               \* the locals of its current call
          answer,             \* what its last call returned or raised
          leaders, sharedResults, followersWaiting, waitTimeouts,
          capacityRejections

counters == <<leaders, sharedResults, followersWaiting, waitTimeouts,
              capacityRejections>>
vars == <<clock, flights, heap, pc, call, answer, counters>>

NoFlight == 0
NoTime == -1                  \* completed_at is None

\* A flight's operation produces its own value or error, so the number of the
\* flight identifies the outcome.  event.is_set() is completedAt # NoTime:
\* both are written in one block under the lock.
FlightObject == [key : Keys, completedAt : Nat \cup {NoTime},
                 failed : BOOLEAN, waiters : Nat]

Call == [key : Keys \cup {NoKey}, flight : Nat, joinedActive : BOOLEAN,
         since : Nat, completed : BOOLEAN]
NoCall == [key |-> NoKey, flight |-> NoFlight, joinedActive |-> FALSE,
           since |-> 0, completed |-> FALSE]

Answer == [kind : {"none", "value", "error", "timeout", "capacity"},
           key : Keys \cup {NoKey}, flight : Nat]
NoAnswer == [kind |-> "none", key |-> NoKey, flight |-> NoFlight]

IsCompleted(f) == heap[f].completedAt # NoTime
Registered(reg) == {k \in Keys : reg[k] # NoFlight}
Completed(reg) == {k \in Registered(reg) : IsCompleted(reg[k])}
InProgress(reg) == Registered(reg) \ Completed(reg)
Without(reg, ks) == [k \in Keys |-> IF k \in ks THEN NoFlight ELSE reg[k]]

Init ==
    /\ clock = 0
    /\ flights = [k \in Keys |-> NoFlight]
    /\ heap = [f \in 1..0 |-> NoFlight]
    /\ pc = [c \in Callers |-> "idle"]
    /\ call = [c \in Callers |-> NoCall]
    /\ answer = [c \in Callers |-> NoAnswer]
    /\ leaders = 0
    /\ sharedResults = 0
    /\ followersWaiting = 0
    /\ waitTimeouts = 0
    /\ capacityRejections = 0

-----------------------------------------------------------------------------
(* The registry under the lock.                                            *)

ExpireActiveToo ==                      \* mutant: completed_at is not checked
    Without(flights, {k \in Registered(flights) :
                        clock - heap[flights[k]].completedAt >= ResultTTL})
ExpireLate ==                           \* mutant: > for >=
    Without(flights, {k \in Completed(flights) :
                        clock - heap[flights[k]].completedAt > ResultTTL})

\* _expire_completed: what is left once results that reached the TTL are gone.
ExpireCompleted ==
    Without(flights, {k \in Completed(flights) :
                        clock - heap[flights[k]].completedAt >= ResultTTL})

EvictionsAtOverflow(reg) ==             \* mutant: > for >= in the loop
    LET size == Cardinality(Registered(reg))
    IN  {E \in SUBSET Completed(reg) :
            Cardinality(E) = IF size > MaxEntries THEN size - MaxEntries ELSE 0}

\* The while loop of run(): the sets of completed keys that repeated calls of
\* _evict_oldest_completed may delete to make room for one more entry.  Keys
\* that completed at the same tick are told apart by the order of the opaque
\* key strings, which is left open.
Evictions(reg) ==
    LET size == Cardinality(Registered(reg))
        excess == IF size >= MaxEntries THEN size - MaxEntries + 1 ELSE 0
    IN  {E \in SUBSET Completed(reg) :
            /\ Cardinality(E) = excess
            /\ \A e \in E, k \in Completed(reg) \ E :
                  heap[reg[e]].completedAt <= heap[reg[k]].completedAt}

CallsLeft == leaders + sharedResults + capacityRejections < MaxCalls

\* run(): no flight for the key and room for one; the caller becomes a leader.
Lead(c, key) ==
    LET reg == ExpireCompleted
        f == leaders + 1
    IN  /\ pc[c] = "idle" /\ CallsLeft
        /\ reg[key] = NoFlight
        /\ \E E \in Evictions(reg) :
              flights' = [Without(reg, E) EXCEPT ![key] = f]
        /\ heap' = [g \in 1..f |->
                      IF g = f THEN [key |-> key, completedAt |-> NoTime,
                                     failed |-> FALSE, waiters |-> 0]
                               ELSE heap[g]]
        /\ leaders' = f
        /\ pc' = [pc EXCEPT ![c] = "operation"]
        /\ call' = [call EXCEPT ![c] = [NoCall EXCEPT !.key = key, !.flight = f,
                                                      !.since = clock]]
        /\ UNCHANGED <<clock, answer, sharedResults, followersWaiting,
                       waitTimeouts, capacityRejections>>

\* run(): the loop has deleted every completed flight and the active ones
\* alone fill the registry.
RejectCapacity(c, key) ==
    LET reg == ExpireCompleted
    IN  /\ pc[c] = "idle" /\ CallsLeft
        /\ reg[key] = NoFlight
        /\ Cardinality(InProgress(reg)) >= MaxEntries
        /\ flights' = Without(reg, Completed(reg))
        /\ capacityRejections' = capacityRejections + 1
        /\ answer' = [answer EXCEPT ![c] = [kind |-> "capacity", key |-> key,
                                            flight |-> NoFlight]]
        /\ UNCHANGED <<clock, heap, pc, call, leaders, sharedResults,
                       followersWaiting, waitTimeouts>>

\* run(): the key has a flight, running or retained; the caller follows it.
Follow(c, key) ==
    LET reg == ExpireCompleted
        f == reg[key]
        joined == ~IsCompleted(f)
    IN  /\ pc[c] = "idle" /\ CallsLeft
        /\ f # NoFlight
        /\ flights' = reg
        /\ heap' = IF joined THEN [heap EXCEPT ![f].waiters = @ + 1] ELSE heap
        /\ followersWaiting' = IF joined THEN followersWaiting + 1
                                         ELSE followersWaiting
        /\ sharedResults' = sharedResults + 1
        /\ pc' = [pc EXCEPT ![c] = "waiting"]
        /\ call' = [call EXCEPT ![c] =
                      [key |-> key, flight |-> f, joinedActive |-> joined,
                       since |-> clock, completed |-> FALSE]]
        /\ UNCHANGED <<clock, answer, leaders, waitTimeouts, capacityRejections>>

\* The leader's operation returns or raises; flight and event are set at once.
Complete(c, failed) ==
    LET f == call[c].flight
    IN  /\ pc[c] = "operation"
        /\ heap' = [heap EXCEPT ![f].completedAt = clock, ![f].failed = failed]
        /\ pc' = [pc EXCEPT ![c] = "idle"]
        /\ call' = [call EXCEPT ![c] = NoCall]
        /\ answer' = [answer EXCEPT ![c] =
                        [kind |-> IF failed THEN "error" ELSE "value",
                         key |-> call[c].key, flight |-> f]]
        /\ UNCHANGED <<clock, flights, counters>>

\* event.wait returns True.
Wake(c) ==
    /\ pc[c] = "waiting"
    /\ IsCompleted(call[c].flight)
    /\ pc' = [pc EXCEPT ![c] = "leaving"]
    /\ call' = [call EXCEPT ![c].completed = TRUE]
    /\ UNCHANGED <<clock, flights, heap, answer, counters>>

TimeOutNever(c) == FALSE /\ UNCHANGED vars    \* mutant: event.wait() without timeout

\* event.wait returns False: its timeout passed before the event was set.
TimeOut(c) ==
    /\ pc[c] = "waiting"
    /\ ~IsCompleted(call[c].flight)
    /\ pc' = [pc EXCEPT ![c] = "leaving"]
    /\ call' = [call EXCEPT ![c].completed = FALSE]
    /\ UNCHANGED <<clock, flights, heap, answer, counters>>

\* What a follower returns or raises: decided by the result of its wait, read
\* from the flight it holds and not from the registry.
FollowerAnswer(c) ==
    LET f == call[c].flight
    IN  [kind |-> CASE ~call[c].completed -> "timeout"
                    [] call[c].completed /\ heap[f].failed -> "error"
                    [] OTHER -> "value",
         key |-> call[c].key, flight |-> f]

CountOutAlways(c) ==                    \* mutant: joined_active is not checked
    /\ heap' = [heap EXCEPT ![call[c].flight].waiters = @ - 1]
    /\ followersWaiting' = followersWaiting - 1
    /\ UNCHANGED waitTimeouts
CountOutOnResult(c) ==                  \* mutant: a time-out skips the block
    IF call[c].joinedActive /\ call[c].completed
    THEN /\ heap' = [heap EXCEPT ![call[c].flight].waiters = @ - 1]
         /\ followersWaiting' = followersWaiting - 1
         /\ UNCHANGED waitTimeouts
    ELSE UNCHANGED <<heap, followersWaiting, waitTimeouts>>

\* The block under the lock after the wait: only a caller that joined a
\* running flight was counted, so only such a caller is counted out.
CountOut(c) ==
    IF call[c].joinedActive
    THEN /\ heap' = [heap EXCEPT ![call[c].flight].waiters = @ - 1]
         /\ followersWaiting' = followersWaiting - 1
         /\ waitTimeouts' = IF call[c].completed THEN waitTimeouts
                                                 ELSE waitTimeouts + 1
    ELSE UNCHANGED <<heap, followersWaiting, waitTimeouts>>

\* The rest of run() after the wait.
Leave(c) ==
    /\ pc[c] = "leaving"
    /\ CountOut(c)
    /\ answer' = [answer EXCEPT ![c] = FollowerAnswer(c)]
    /\ pc' = [pc EXCEPT ![c] = "idle"]
    /\ call' = [call EXCEPT ![c] = NoCall]
    /\ UNCHANGED <<clock, flights, leaders, sharedResults, capacityRejections>>

\* invalidate(): forget a completed key.
Invalidate(key) ==
    /\ key \in Completed(flights)
    /\ flights' = Without(flights, {key})
    /\ UNCHANGED <<clock, heap, pc, call, answer, counters>>

\* stats(): reading the counters also expires what is due.
Stats ==
    /\ flights' = ExpireCompleted
    /\ UNCHANGED <<clock, heap, pc, call, answer, counters>>

Tick ==
    /\ clock < MaxTime
    /\ clock' = clock + 1
    /\ UNCHANGED <<flights, heap, pc, call, answer, counters>>

Run(c) ==
    \/ \E key \in Keys : Lead(c, key) \/ RejectCapacity(c, key) \/ Follow(c, key)
    \/ \E failed \in BOOLEAN : Complete(c, failed)
    \/ Wake(c)
    \/ TimeOut(c)
    \/ Leave(c)

Next ==
    \/ \E c \in Callers : Run(c)
    \/ \E key \in Keys : Invalidate(key)
    \/ Stats
    \/ Tick

Spec == Init /\ [][Next]_vars

\* A wait has a finite timeout and the lock is only held for short blocks, so a
\* follower always moves on.  Nothing is assumed of the operations of leaders.
FollowerFairness == \A c \in Callers : WF_vars(Wake(c) \/ TimeOut(c) \/ Leave(c))
FairSpec == Spec /\ FollowerFairness

-----------------------------------------------------------------------------
(* Properties.                                                             *)

AllFollowers == {c \in Callers : /\ pc[c] \in {"waiting", "leaving"}
                                 /\ call[c].joinedActive}
Followers(f) == {c \in AllFollowers : call[c].flight = f}

\* Every variable of the registry and of its callers keeps its type; only
\* flights that were created are referenced.
TypeOK ==
    /\ clock \in Nat
    /\ leaders \in Nat
    /\ flights \in [Keys -> 0..leaders]
    /\ heap \in [1..leaders -> FlightObject]
    /\ pc \in [Callers -> {"idle", "operation", "waiting", "leaving"}]
    /\ call \in [Callers -> Call]
    /\ answer \in [Callers -> Answer]
    /\ sharedResults \in Nat
    /\ followersWaiting \in Nat
    /\ waitTimeouts \in Nat
    /\ capacityRejections \in Nat

\* Two callers never run the operation of one key at the same time: whatever
\* expiry, eviction, invalidation and time-outs of followers happen meanwhile,
\* a flight whose operation runs stays registered until it completes.
OneOperationPerKey ==
    \A c, d \in Callers :
        /\ pc[c] = "operation"
        /\ pc[d] = "operation"
        /\ call[c].key = call[d].key
        => c = d

\* The registry never holds more than max_entries flights, running or retained.
CapacityRespected == Cardinality(Registered(flights)) <= MaxEntries

\* The waiters of a flight and the followers_waiting gauge count exactly the
\* callers that joined a running flight and have not left it, whether they
\* leave by result, by error or by time-out.
WaiterAccounting ==
    /\ \A f \in 1..leaders : heap[f].waiters = Cardinality(Followers(f))
    /\ followersWaiting = Cardinality(AllFollowers)

\* The active_entries that stats() reports are the operations that are running.
ActiveEntriesExact ==
    Cardinality(InProgress(flights)) =
        Cardinality({c \in Callers : pc[c] = "operation"})

\* A follower is only ever handed the outcome of a flight of its own key, and
\* one that is not older than the TTL allows: the flight was still running when
\* the call began, or completed less than result_ttl_seconds before it.
SharedResultFresh ==
    \A c \in Callers :
        LET f == call[c].flight
        IN  pc[c] = "leaving" /\ call[c].completed =>
              /\ heap[f].key = call[c].key
              /\ \/ call[c].joinedActive
                 \/ call[c].since - heap[f].completedAt < ResultTTL

\* An answer that carries a value or an error is the outcome of a completed
\* flight of the key that was asked for; an answer without an outcome is never
\* passed off as one.
AnswerIsOutcome ==
    \A c \in Callers :
        answer[c].kind \in {"value", "error"} =>
            LET f == answer[c].flight
            IN  /\ f \in 1..leaders
                /\ IsCompleted(f)
                /\ heap[f].key = answer[c].key
                /\ heap[f].failed = (answer[c].kind = "error")

\* A flight that completed never changes its outcome or its completion time,
\* so followers that leave at different moments all see the same answer.
OutcomeStable ==
    [][\A f \in 1..leaders :
          IsCompleted(f) => /\ heap'[f].completedAt = heap[f].completedAt
                            /\ heap'[f].failed = heap[f].failed]_vars

\* A follower always gets out of run(), even if the operation of its leader
\* never ends.
FollowersReturn == \A c \in Callers : pc[c] = "waiting" ~> pc[c] = "idle"
=============================================================================
