----------------------------- MODULE TextProofs -----------------------------
(***************************************************************************)
(* Proofs about the two ways a single text is answered: SingleFlight, for  *)
(* every set of callers and keys, every capacity, TTL and bound; and       *)
(* StreamTranslation, for every finite set of streams, every limit and     *)
(* budget and every choice of protocols and providers.                     *)
(*                                                                         *)
(* The two specifications share nothing; each theorem is about one.        *)
(***************************************************************************)
EXTENDS SingleFlight, StreamTranslation, Sequences, FiniteSetTheorems, TLAPS

\* How registry, flight objects and the references of callers hang together.
FlightReferences ==
    /\ \A k \in Keys : flights[k] # NoFlight => heap[flights[k]].key = k
    /\ \A c \in Callers : pc[c] # "idle" =>
          /\ call[c].flight \in 1..leaders
          /\ call[c].key \in Keys
          /\ heap[call[c].flight].key = call[c].key
    /\ \A c \in Callers : pc[c] = "operation" =>
          /\ ~IsCompleted(call[c].flight)
          /\ flights[call[c].key] = call[c].flight
    /\ \A c, d \in Callers :
          pc[c] = "operation" /\ pc[d] = "operation"
            /\ call[c].flight = call[d].flight => c = d

IInv == TypeOK /\ FlightReferences /\ WaiterAccounting

LEMMA WithoutIsRestriction ==
    ASSUME TypeOK, NEW reg \in [Keys -> 0..leaders], NEW ks
    PROVE  /\ Without(reg, ks) \in [Keys -> 0..leaders]
           /\ \A k \in Keys : Without(reg, ks)[k] =
                                 IF k \in ks THEN NoFlight ELSE reg[k]
BY DEF Without, TypeOK, NoFlight

LEMMA ExpireDropsCompleted ==
    ASSUME TypeOK
    PROVE  /\ ExpireCompleted \in [Keys -> 0..leaders]
           /\ \A k \in Keys :
                 \/ ExpireCompleted[k] = flights[k]
                 \/ /\ ExpireCompleted[k] = NoFlight
                    /\ flights[k] # NoFlight
                    /\ IsCompleted(flights[k])
BY WithoutIsRestriction
   DEF ExpireCompleted, Completed, Registered, TypeOK

\* Counting a waiter in or out leaves the rest of a flight as it was.
WithWaiters(h, f, w) == [h EXCEPT ![f].waiters = w]

LEMMA WaitersUpdate ==
    ASSUME NEW n \in Nat, NEW h \in [1..n -> FlightObject], NEW f \in 1..n,
           NEW w \in Nat
    PROVE  /\ WithWaiters(h, f, w) \in [1..n -> FlightObject]
           /\ \A g \in 1..n :
                 /\ WithWaiters(h, f, w)[g].key = h[g].key
                 /\ WithWaiters(h, f, w)[g].completedAt = h[g].completedAt
                 /\ WithWaiters(h, f, w)[g].failed = h[g].failed
                 /\ WithWaiters(h, f, w)[g].waiters =
                       IF g = f THEN w ELSE h[g].waiters
<1> DEFINE o == [h[f] EXCEPT !.waiters = w]
<1>1. /\ o \in FlightObject
      /\ o.key = h[f].key /\ o.completedAt = h[f].completedAt
      /\ o.failed = h[f].failed /\ o.waiters = w
  BY DEF FlightObject
<1>2. WithWaiters(h, f, w) = [h EXCEPT ![f] = o]
  BY DEF WithWaiters
<1> HIDE DEF o
<1> QED
  BY <1>1, <1>2

\* A step that creates no flight keeps the references intact if it drops only
\* completed flights from the registry, leaves the callers in an operation
\* alone together with their flights, and lets others hold only their own key.
LEMMA ReferencesFrame ==
    ASSUME TypeOK, TypeOK', FlightReferences,
           leaders' = leaders,
           \A g \in 1..leaders : heap'[g].key = heap[g].key,
           \A k \in Keys :
              \/ flights'[k] = flights[k]
              \/ /\ flights'[k] = NoFlight
                 /\ flights[k] # NoFlight
                 /\ IsCompleted(flights[k]),
           \A d \in Callers : pc'[d] # "idle" =>
              /\ call'[d].flight \in 1..leaders
              /\ call'[d].key \in Keys
              /\ heap[call'[d].flight].key = call'[d].key,
           \A d \in Callers : pc'[d] = "operation" =>
              /\ pc[d] = "operation"
              /\ call'[d].flight = call[d].flight
              /\ call'[d].key = call[d].key
              /\ heap'[call[d].flight].completedAt
                   = heap[call[d].flight].completedAt
    PROVE  FlightReferences'
<1> USE DEF NoFlight
<1>1. \A k \in Keys : flights'[k] # NoFlight => heap'[flights'[k]].key = k
  BY DEF FlightReferences, TypeOK
<1>2. \A d \in Callers : pc'[d] # "idle" =>
          /\ call'[d].flight \in 1..leaders'
          /\ call'[d].key \in Keys
          /\ heap'[call'[d].flight].key = call'[d].key
  OBVIOUS
<1>3. ASSUME NEW d \in Callers, pc'[d] = "operation"
      PROVE  /\ heap'[call'[d].flight].completedAt = NoTime
             /\ flights'[call'[d].key] = call'[d].flight
  <2>1. /\ call[d].key \in Keys
        /\ heap[call[d].flight].completedAt = NoTime
        /\ flights[call[d].key] = call[d].flight
        /\ call[d].flight \in 1..leaders
    BY <1>3 DEF FlightReferences, IsCompleted
  <2> QED
    BY <1>3, <2>1 DEF IsCompleted
<1>4. \A c, d \in Callers :
          pc'[c] = "operation" /\ pc'[d] = "operation"
            /\ call'[c].flight = call'[d].flight => c = d
  BY DEF FlightReferences
<1> QED
  BY <1>1, <1>2, <1>3, <1>4 DEF FlightReferences, IsCompleted

LEMMA InitEstablishes == Init => IInv
<1> SUFFICES ASSUME Init PROVE IInv
  OBVIOUS
<1>1. heap \in [1..leaders -> FlightObject]
  BY DEF Init
<1>2. TypeOK
  BY <1>1 DEF Init, TypeOK, NoFlight, NoCall, NoAnswer, Call, Answer
<1>3. FlightReferences
  BY DEF Init, FlightReferences
<1>4. AllFollowers = {} /\ \A f \in 1..leaders : FALSE
  BY DEF Init, AllFollowers
<1>5. WaiterAccounting
  BY <1>4, FS_EmptySet DEF WaiterAccounting, Init
<1> QED
  BY <1>2, <1>3, <1>5 DEF IInv

\* Sets of followers are finite, and a follower's flight has a waiter.
LEMMA FollowersFinite ==
    /\ IsFiniteSet(AllFollowers)
    /\ \A f : IsFiniteSet(Followers(f)) /\ Followers(f) \subseteq AllFollowers
BY FS_Subset, CallersAssumption DEF AllFollowers, Followers

LEMMA FollowerIsCounted ==
    ASSUME TypeOK, WaiterAccounting, NEW c \in AllFollowers,
           call[c].flight \in 1..leaders
    PROVE  heap[call[c].flight].waiters > 0 /\ followersWaiting > 0
<1> DEFINE f == call[c].flight
<1>1. c \in Followers(f)
  BY DEF Followers
<1>2. Cardinality(Followers(f)) # 0 /\ Cardinality(AllFollowers) # 0
  BY <1>1, FollowersFinite, FS_EmptySet
<1>3. Cardinality(Followers(f)) \in Nat /\ Cardinality(AllFollowers) \in Nat
  BY FollowersFinite, FS_CardinalityType
<1> QED
  BY <1>2, <1>3 DEF WaiterAccounting

LEMMA NextKeepsReferences ==
    TypeOK /\ FlightReferences /\ WaiterAccounting /\ [Next]_vars
      => TypeOK' /\ FlightReferences'
<1> SUFFICES ASSUME TypeOK, FlightReferences, WaiterAccounting, [Next]_vars
             PROVE  TypeOK' /\ FlightReferences'
  OBVIOUS
<1> USE DEF NoFlight
<1>1. ASSUME NEW c \in Callers, NEW key \in Keys, Lead(c, key)
      PROVE  TypeOK' /\ FlightReferences'
  <2> DEFINE reg == ExpireCompleted
             f == leaders + 1
  <2>1. PICK E \in Evictions(reg) :
               flights' = [Without(reg, E) EXCEPT ![key] = f]
    BY <1>1 DEF Lead
  <2>2. E \subseteq Completed(reg)
    BY DEF Evictions
  <2>3. \A k \in Keys \ {key} :
           \/ flights'[k] = flights[k]
           \/ /\ flights'[k] = NoFlight
              /\ flights[k] # NoFlight
              /\ IsCompleted(flights[k])
    BY <2>1, <2>2, ExpireDropsCompleted, WithoutIsRestriction
       DEF Completed, Registered
  <2>4. flights'[key] = f /\ flights' \in [Keys -> 0..f]
    <3>1. Without(reg, E) \in [Keys -> 0..leaders]
      BY ExpireDropsCompleted, WithoutIsRestriction
    <3> QED
      BY <2>1, <3>1 DEF TypeOK
  <2>5. /\ leaders' = f /\ f \in Nat
        /\ heap' \in [1..f -> FlightObject]
        /\ heap'[f].key = key /\ heap'[f].completedAt = NoTime
        /\ \A g \in 1..leaders : heap'[g] = heap[g]
    BY <1>1 DEF Lead, TypeOK, FlightObject, NoTime
  <2> DEFINE new == [NoCall EXCEPT !.key = key, !.flight = f, !.since = clock]
  <2>a. new \in Call /\ new.key = key /\ new.flight = f
    BY <2>5 DEF NoCall, Call, TypeOK
  <2>6. /\ pc' = [pc EXCEPT ![c] = "operation"]
        /\ call' \in [Callers -> Call]
        /\ call'[c].key = key /\ call'[c].flight = f
        /\ \A d \in Callers \ {c} : call'[d] = call[d]
        /\ pc[c] = "idle"
    <3> HIDE DEF new
    <3>1. call' = [call EXCEPT ![c] = new] /\ pc[c] = "idle"
             /\ pc' = [pc EXCEPT ![c] = "operation"]
      BY <1>1 DEF Lead, new
    <3> QED
      BY <2>a, <3>1 DEF TypeOK
  <2>7. TypeOK'
    <3>1. UNCHANGED <<clock, answer, sharedResults, followersWaiting, waitTimeouts, capacityRejections>>
      BY <1>1 DEF Lead
    <3>2. pc' \in [Callers -> {"idle", "operation", "waiting", "leaving"}]
      BY <2>6 DEF TypeOK
    <3> QED
      BY <2>4, <2>5, <2>6, <3>1, <3>2 DEF TypeOK
  <2>8. \A d \in Callers : pc[d] = "operation" => call[d].key # key
    BY <1>1, ExpireDropsCompleted DEF Lead, FlightReferences, TypeOK
  <2>9. FlightReferences'
    <3>1. \A k \in Keys : flights'[k] # NoFlight => heap'[flights'[k]].key = k
      BY <2>3, <2>4, <2>5 DEF FlightReferences, TypeOK
    <3>2. \A d \in Callers \ {c} : pc'[d] # "idle" =>
              /\ call'[d] = call[d] /\ pc'[d] = pc[d]
              /\ call[d].flight \in 1..leaders
              /\ heap'[call[d].flight] = heap[call[d].flight]
              /\ call[d].key \in Keys
              /\ heap[call[d].flight].key = call[d].key
      BY <2>5, <2>6 DEF FlightReferences, TypeOK
    <3>3. pc'[c] = "operation" /\ f \in 1..leaders' /\ f \notin 1..leaders
      BY <2>5, <2>6 DEF TypeOK
    <3>4. \A d \in Callers \ {c} : pc'[d] = "operation" =>
              /\ heap'[call'[d].flight].completedAt = NoTime
              /\ flights'[call'[d].key] = call'[d].flight
              /\ call'[d].flight # f
      BY <2>3, <2>8, <3>2, <3>3 DEF FlightReferences, IsCompleted
    <3>5. \A d, e \in Callers \ {c} :
             pc'[d] = "operation" /\ pc'[e] = "operation"
               /\ call'[d].flight = call'[e].flight => d = e
      BY <3>2 DEF FlightReferences
    <3>6. \A d \in Callers : pc'[d] # "idle" =>
              /\ call'[d].flight \in 1..leaders'
              /\ call'[d].key \in Keys
              /\ heap'[call'[d].flight].key = call'[d].key
      <4>1. ASSUME NEW d \in Callers \ {c}, pc'[d] # "idle"
            PROVE  /\ call'[d].flight \in 1..leaders'
                   /\ call'[d].key \in Keys
                   /\ heap'[call'[d].flight].key = call'[d].key
        <5>1. call[d].flight \in 1..leaders'
          BY <2>5, <3>2, <4>1 DEF TypeOK
        <5> QED
          BY <3>2, <4>1, <5>1
      <4>2. /\ call'[c].flight \in 1..leaders'
            /\ call'[c].key \in Keys
            /\ heap'[call'[c].flight].key = call'[c].key
        BY <2>5, <2>6, <3>3
      <4> QED
        BY <4>1, <4>2
    <3> HIDE DEF f
    <3>7. \A d \in Callers : pc'[d] = "operation" =>
              /\ heap'[call'[d].flight].completedAt = NoTime
              /\ flights'[call'[d].key] = call'[d].flight
      BY <2>4, <2>5, <2>6, <3>4
    <3>8. \A d, e \in Callers :
             pc'[d] = "operation" /\ pc'[e] = "operation"
               /\ call'[d].flight = call'[e].flight => d = e
      BY <2>6, <3>4, <3>5
    <3> QED
      BY <3>1, <3>6, <3>7, <3>8 DEF FlightReferences, IsCompleted
  <2> QED
    BY <2>7, <2>9
<1>2. ASSUME NEW c \in Callers, NEW key \in Keys, RejectCapacity(c, key)
      PROVE  TypeOK' /\ FlightReferences'
  <2>1. \A k \in Keys :
           \/ flights'[k] = flights[k]
           \/ /\ flights'[k] = NoFlight
              /\ flights[k] # NoFlight
              /\ IsCompleted(flights[k])
    BY <1>2, ExpireDropsCompleted, WithoutIsRestriction
       DEF RejectCapacity, Completed, Registered
  <2>2. TypeOK'
    <3>1. flights' \in [Keys -> 0..leaders]
      BY <1>2, ExpireDropsCompleted, WithoutIsRestriction DEF RejectCapacity
    <3>2. [kind |-> "capacity", key |-> key, flight |-> NoFlight] \in Answer
      BY DEF Answer
    <3>3. answer' \in [Callers -> Answer]
      BY <1>2, <3>2 DEF RejectCapacity, TypeOK
    <3> QED
      BY <1>2, <3>1, <3>3 DEF RejectCapacity, TypeOK
  <2>3. FlightReferences'
    BY <1>2, <2>1 DEF RejectCapacity, FlightReferences, IsCompleted, TypeOK
  <2> QED
    BY <2>2, <2>3
<1>3. ASSUME NEW c \in Callers, NEW key \in Keys, Follow(c, key)
      PROVE  TypeOK' /\ FlightReferences'
  <2>1. PICK f \in 1..leaders : /\ f = ExpireCompleted[key] /\ f = flights[key]
                                /\ heap[f].key = key
    BY <1>3, ExpireDropsCompleted DEF Follow, FlightReferences, TypeOK
  <2>2. /\ heap' \in [1..leaders -> FlightObject]
        /\ \A g \in 1..leaders : /\ heap'[g].key = heap[g].key
                                 /\ heap'[g].completedAt = heap[g].completedAt
    <3>1. CASE heap' = heap
      BY <3>1 DEF TypeOK
    <3>2. CASE heap' = [heap EXCEPT ![f].waiters = @ + 1]
      <4> DEFINE w == heap[f].waiters + 1
      <4>1. w \in Nat
        BY <2>1 DEF TypeOK, FlightObject
      <4>2. heap' = WithWaiters(heap, f, w)
        BY <3>2 DEF WithWaiters
      <4> HIDE DEF w
      <4>3. leaders \in Nat /\ heap \in [1..leaders -> FlightObject]
        BY DEF TypeOK
      <4> QED
        BY <2>1, <4>1, <4>2, <4>3, WaitersUpdate
    <3> QED
      BY <1>3, <2>1, <3>1, <3>2 DEF Follow
  <2>3. /\ pc' = [pc EXCEPT ![c] = "waiting"]
        /\ call' \in [Callers -> Call]
        /\ call'[c].key = key /\ call'[c].flight = f
        /\ \A d \in Callers \ {c} : call'[d] = call[d]
        /\ flights' = ExpireCompleted /\ leaders' = leaders
    BY <1>3, <2>1 DEF Follow, TypeOK, Call
  <2>4. TypeOK'
    BY <1>3, <2>2, <2>3, ExpireDropsCompleted DEF Follow, TypeOK
  <2>5. FlightReferences'
    <3>1. \A d \in Callers : pc'[d] # "idle" =>
              /\ call'[d].flight \in 1..leaders
              /\ call'[d].key \in Keys
              /\ heap[call'[d].flight].key = call'[d].key
      BY <2>1, <2>3 DEF FlightReferences, TypeOK
    <3>2. \A d \in Callers : pc'[d] = "operation" =>
              pc[d] = "operation" /\ call'[d] = call[d]
                /\ call[d].flight \in 1..leaders
      BY <2>3 DEF FlightReferences, TypeOK
    <3> QED
      BY <2>2, <2>3, <2>4, <3>1, <3>2, ExpireDropsCompleted, ReferencesFrame
  <2> QED
    BY <2>4, <2>5
<1>4. ASSUME NEW c \in Callers, NEW failed \in BOOLEAN, Complete(c, failed)
      PROVE  TypeOK' /\ FlightReferences'
  <2> DEFINE f == call[c].flight
  <2>1. /\ f \in 1..leaders /\ call[c].key \in Keys
        /\ pc[c] = "operation"
    BY <1>4 DEF Complete, FlightReferences
  <2>2. /\ heap' \in [1..leaders -> FlightObject]
        /\ \A g \in 1..leaders : /\ heap'[g].key = heap[g].key
                                 /\ g # f => heap'[g] = heap[g]
    <3>1. heap \in [1..leaders -> FlightObject] /\ clock \in Nat /\ leaders' = leaders
      BY <1>4 DEF Complete, TypeOK, counters
    <3>2. \A g \in 1..leaders : heap'[g] \in FlightObject
      BY <1>4, <2>1, <3>1 DEF Complete, FlightObject
    <3>3. /\ DOMAIN heap' = 1..leaders
          /\ \A g \in 1..leaders : /\ heap'[g].key = heap[g].key
                                   /\ g # f => heap'[g] = heap[g]
      BY <1>4, <2>1, <3>1 DEF Complete, FlightObject
    <3>4. heap' = [g \in DOMAIN heap' |-> heap'[g]]
      BY <1>4 DEF Complete
    <3> QED
      BY <3>2, <3>3, <3>4
  <2>3. /\ pc' = [pc EXCEPT ![c] = "idle"]
        /\ call' \in [Callers -> Call]
        /\ \A d \in Callers \ {c} : call'[d] = call[d]
        /\ answer' \in [Callers -> Answer]
        /\ UNCHANGED <<clock, flights, counters>>
    BY <1>4, <2>1 DEF Complete, TypeOK, Call, NoCall, Answer
  <2>4. TypeOK'
    BY <2>2, <2>3 DEF TypeOK, counters
  <2>5. FlightReferences'
    <3>1. \A d \in Callers : pc'[d] # "idle" =>
              pc[d] # "idle" /\ call'[d] = call[d] /\ pc'[d] = pc[d] /\ d # c
      BY <2>3 DEF TypeOK
    <3>2. \A d \in Callers : pc'[d] = "operation" =>
              call[d].flight \in 1..leaders /\ call[d].flight # f
      BY <2>1, <3>1 DEF FlightReferences
    <3> QED
      BY <2>2, <2>3, <2>4, <3>1, <3>2, ReferencesFrame
         DEF FlightReferences, counters
  <2> QED
    BY <2>4, <2>5
<1>5. ASSUME NEW c \in Callers, Wake(c) \/ TimeOut(c)
      PROVE  TypeOK' /\ FlightReferences'
  <2>1. /\ pc' = [pc EXCEPT ![c] = "leaving"] /\ pc[c] = "waiting"
        /\ call' \in [Callers -> Call]
        /\ \A d \in Callers : /\ call'[d].key = call[d].key
                              /\ call'[d].flight = call[d].flight
        /\ UNCHANGED <<clock, flights, heap, answer, counters>>
    <3>1. /\ pc' = [pc EXCEPT ![c] = "leaving"] /\ pc[c] = "waiting"
          /\ UNCHANGED <<clock, flights, heap, answer, counters>>
          /\ \E b \in BOOLEAN : call' = [call EXCEPT ![c].completed = b]
      BY <1>5 DEF Wake, TimeOut
    <3>2. PICK b \in BOOLEAN : call' = [call EXCEPT ![c].completed = b]
      BY <3>1
    <3>3. call \in [Callers -> Call]
      BY DEF TypeOK
    <3> QED
      BY <3>1, <3>2, <3>3 DEF Call
  <2>2. TypeOK'
    BY <2>1 DEF TypeOK, counters
  <2>3. FlightReferences'
    <3>1. \A d \in Callers : /\ pc'[d] # "idle" => pc[d] # "idle"
                             /\ pc'[d] = "operation" => pc[d] = "operation"
      BY <2>1 DEF TypeOK
    <3>2. leaders' = leaders /\ heap' = heap /\ flights' = flights
      BY <2>1 DEF counters
    <3> QED
      BY <2>1, <2>2, <3>1, <3>2, ReferencesFrame DEF FlightReferences
  <2> QED
    BY <2>2, <2>3
<1>6. ASSUME NEW c \in Callers, Leave(c)
      PROVE  TypeOK' /\ FlightReferences'
  <2> DEFINE f == call[c].flight
  <2>1. f \in 1..leaders /\ call[c].key \in Keys /\ pc[c] = "leaving"
    BY <1>6 DEF Leave, FlightReferences
  <2>0. call[c].joinedActive => heap[f].waiters > 0 /\ followersWaiting > 0
    BY <2>1, FollowerIsCounted DEF AllFollowers
  <2>2. /\ heap' \in [1..leaders -> FlightObject]
        /\ \A g \in 1..leaders : /\ heap'[g].key = heap[g].key
                                 /\ heap'[g].completedAt = heap[g].completedAt
    <3>1. CASE ~call[c].joinedActive
      BY <1>6, <3>1 DEF TypeOK, Leave, CountOut
    <3>2. CASE call[c].joinedActive
      <4> DEFINE w == heap[f].waiters - 1
      <4>1. w \in Nat
        BY <2>1, <2>0, <3>2 DEF TypeOK, FlightObject
      <4>2. heap' = WithWaiters(heap, f, w)
        BY <1>6, <3>2 DEF WithWaiters, Leave, CountOut
      <4> HIDE DEF f, w
      <4>3. leaders \in Nat /\ heap \in [1..leaders -> FlightObject]
        BY DEF TypeOK
      <4> QED
        BY <2>1, <4>1, <4>2, <4>3, WaitersUpdate
    <3> QED
      BY <3>1, <3>2
  <2>3. FollowerAnswer(c) \in Answer
    BY <2>1 DEF FollowerAnswer, Answer, TypeOK
  <2>4. /\ pc' = [pc EXCEPT ![c] = "idle"]
        /\ call' \in [Callers -> Call]
        /\ \A d \in Callers \ {c} : call'[d] = call[d]
        /\ answer' \in [Callers -> Answer]
        /\ followersWaiting' \in Nat /\ waitTimeouts' \in Nat
        /\ UNCHANGED <<clock, flights, leaders, sharedResults, capacityRejections>>
    BY <1>6, <2>0, <2>3 DEF Leave, CountOut, TypeOK, Call, NoCall
  <2>5. TypeOK'
    BY <2>2, <2>4 DEF TypeOK
  <2>6. FlightReferences'
    <3>1. \A d \in Callers : pc'[d] # "idle" =>
              pc[d] # "idle" /\ call'[d] = call[d] /\ pc'[d] = pc[d]
      BY <2>4 DEF TypeOK
    <3> QED
      BY <2>2, <2>4, <2>5, <3>1, ReferencesFrame DEF FlightReferences
  <2> QED
    BY <2>5, <2>6
<1>7. ASSUME NEW key \in Keys, Invalidate(key)
      PROVE  TypeOK' /\ FlightReferences'
  <2>1. \A k \in Keys :
           \/ flights'[k] = flights[k]
           \/ /\ flights'[k] = NoFlight
              /\ flights[k] # NoFlight
              /\ IsCompleted(flights[k])
    <3>1. \A k \in Keys : flights'[k] = IF k = key THEN NoFlight ELSE flights[k]
      BY <1>7, WithoutIsRestriction DEF Invalidate, TypeOK
    <3> QED
      BY <1>7, <3>1 DEF Invalidate, Completed, Registered
  <2>2. TypeOK'
    BY <1>7, WithoutIsRestriction DEF Invalidate, TypeOK, counters
  <2>3. FlightReferences'
    <3>1. leaders' = leaders /\ heap' = heap /\ pc' = pc /\ call' = call
      BY <1>7 DEF Invalidate, counters
    <3> QED
      BY <2>1, <2>2, <3>1, ReferencesFrame DEF FlightReferences
  <2> QED
    BY <2>2, <2>3
<1>8. CASE Stats
  <2>1. TypeOK'
    BY <1>8, ExpireDropsCompleted DEF Stats, TypeOK, counters
  <2>2. FlightReferences'
    BY <1>8, ExpireDropsCompleted
       DEF Stats, FlightReferences, IsCompleted, TypeOK, counters
  <2> QED
    BY <2>1, <2>2
<1>9. CASE Tick
  BY <1>9 DEF Tick, TypeOK, FlightReferences, IsCompleted, counters
<1>10. CASE UNCHANGED vars
  BY <1>10 DEF vars, TypeOK, FlightReferences, IsCompleted, counters
<1> QED
  BY <1>1, <1>2, <1>3, <1>4, <1>5, <1>6, <1>7, <1>8, <1>9, <1>10 DEF Next, Run

\* A step that changes neither the followers nor what they follow, nor any
\* waiter count, keeps the accounting.
LEMMA CountsFrame ==
    ASSUME WaiterAccounting, followersWaiting' = followersWaiting,
           leaders' = leaders,
           \A g \in 1..leaders : heap'[g].waiters = heap[g].waiters,
           AllFollowers' = AllFollowers,
           \A c \in AllFollowers : call'[c].flight = call[c].flight
    PROVE  WaiterAccounting'
<1>1. \A f : Followers(f)' = Followers(f)
  BY DEF Followers
<1> QED
  BY <1>1 DEF WaiterAccounting

LEMMA NextKeepsCounts ==
    IInv /\ TypeOK' /\ [Next]_vars => WaiterAccounting'
<1> SUFFICES ASSUME TypeOK, FlightReferences, WaiterAccounting, TypeOK',
                    [Next]_vars
             PROVE  WaiterAccounting'
  BY DEF IInv
<1> USE DEF NoFlight
<1>1. ASSUME NEW c \in Callers, NEW key \in Keys, Lead(c, key)
      PROVE  WaiterAccounting'
  <2> DEFINE f == leaders + 1
  <2>1. /\ pc[c] = "idle" /\ pc' = [pc EXCEPT ![c] = "operation"]
        /\ \A d \in Callers \ {c} : call'[d] = call[d]
    BY <1>1 DEF Lead, TypeOK
  <2>2. AllFollowers' = AllFollowers
    BY <2>1 DEF AllFollowers, TypeOK
  <2>3. \A g : Followers(g)' = Followers(g)
    BY <2>1, <2>2 DEF Followers, AllFollowers
  <2>4. Followers(f) = {}
    BY DEF Followers, AllFollowers, FlightReferences, TypeOK
  <2>5. /\ leaders' = f /\ heap'[f].waiters = 0
        /\ \A g \in 1..leaders : heap'[g] = heap[g]
        /\ followersWaiting' = followersWaiting
    BY <1>1 DEF Lead, TypeOK
  <2>6. \A g \in 1..leaders' : g = f \/ g \in 1..leaders
    BY <2>5 DEF TypeOK
  <2> QED
    BY <2>2, <2>3, <2>4, <2>5, <2>6, FS_EmptySet DEF WaiterAccounting
<1>2. ASSUME NEW c \in Callers, NEW key \in Keys, Follow(c, key)
      PROVE  WaiterAccounting'
  <2>1. PICK f \in 1..leaders : f = ExpireCompleted[key] /\ leaders' = leaders
    BY <1>2, ExpireDropsCompleted DEF Follow, TypeOK
  <2>2. /\ pc[c] = "idle" /\ pc' = [pc EXCEPT ![c] = "waiting"]
        /\ \A d \in Callers \ {c} : call'[d] = call[d]
        /\ call'[c].flight = f /\ call'[c].joinedActive = ~IsCompleted(f)
    BY <1>2, <2>1 DEF Follow, TypeOK
  <2>3. CASE IsCompleted(f)
    <3>1. AllFollowers' = AllFollowers /\ \A d \in AllFollowers : d # c
      BY <2>2, <2>3 DEF AllFollowers, TypeOK
    <3>2. heap' = heap /\ followersWaiting' = followersWaiting
      BY <1>2, <2>1, <2>3 DEF Follow
    <3>3. \A d \in AllFollowers : call'[d].flight = call[d].flight
      BY <2>2, <3>1 DEF AllFollowers
    <3> QED
      BY <2>1, <3>1, <3>2, <3>3, CountsFrame
  <2>4. CASE ~IsCompleted(f)
    <3>1. AllFollowers' = AllFollowers \cup {c} /\ c \notin AllFollowers
      BY <2>2, <2>4 DEF AllFollowers, TypeOK
    <3>0. /\ call'[c].flight = f
          /\ \A d \in AllFollowers : d # c /\ call'[d] = call[d]
      BY <2>2, <3>1 DEF AllFollowers
    <3>2. Followers(f)' = Followers(f) \cup {c} /\ c \notin Followers(f)
      BY <2>1, <3>0, <3>1 DEF Followers
    <3>3. ASSUME NEW g \in 1..leaders, g # f
          PROVE  Followers(g)' = Followers(g)
      BY <2>1, <3>0, <3>1, <3>3 DEF Followers
    <3>4. /\ Cardinality(AllFollowers') = Cardinality(AllFollowers) + 1
          /\ Cardinality(Followers(f)') = Cardinality(Followers(f)) + 1
      BY <3>1, <3>2, FollowersFinite, FS_AddElement
    <3> DEFINE w == heap[f].waiters + 1
    <3>5. w \in Nat
      <4>1. heap[f] \in FlightObject
        BY <2>1 DEF TypeOK
      <4> QED
        BY <4>1 DEF FlightObject
    <3>6. heap' = WithWaiters(heap, f, w) /\ followersWaiting' = followersWaiting + 1
      BY <1>2, <2>1, <2>4 DEF Follow, WithWaiters
    <3>7. \A g \in 1..leaders : heap'[g].waiters = IF g = f THEN w ELSE heap[g].waiters
      <4> HIDE DEF w
      <4>1. leaders \in Nat /\ heap \in [1..leaders -> FlightObject]
        BY DEF TypeOK
      <4>2. \A g \in 1..leaders : WithWaiters(heap, f, w)[g].waiters = IF g = f THEN w ELSE heap[g].waiters
        BY <3>5, <4>1, WaitersUpdate
      <4> QED
        BY <3>6, <4>2
    <3>8. ASSUME NEW g \in 1..leaders'
          PROVE  heap'[g].waiters = Cardinality(Followers(g)')
      <4>1. g \in 1..leaders /\ heap[g].waiters = Cardinality(Followers(g))
        BY <2>1 DEF WaiterAccounting
      <4>2. CASE g = f
        BY <3>4, <3>7, <4>1, <4>2
      <4>3. CASE g # f
        BY <3>3, <3>7, <4>1, <4>3
      <4> QED
        BY <4>2, <4>3
    <3> QED
      BY <3>4, <3>6, <3>8 DEF WaiterAccounting
  <2> QED
    BY <2>3, <2>4
<1>3. ASSUME NEW c \in Callers, Leave(c)
      PROVE  WaiterAccounting'
  <2>1. PICK f \in 1..leaders :
           /\ f = call[c].flight /\ leaders' = leaders
           /\ pc[c] = "leaving" /\ pc' = [pc EXCEPT ![c] = "idle"]
           /\ \A d \in Callers \ {c} : call'[d] = call[d]
    BY <1>3 DEF Leave, FlightReferences, TypeOK
  <2>2. CASE ~call[c].joinedActive
    <3>1. AllFollowers' = AllFollowers /\ \A d \in AllFollowers : d # c
      BY <2>1, <2>2 DEF AllFollowers, TypeOK
    <3>2. heap' = heap /\ followersWaiting' = followersWaiting
      BY <1>3, <2>2 DEF Leave, CountOut
    <3>3. \A d \in AllFollowers : call'[d].flight = call[d].flight
      BY <2>1, <3>1 DEF AllFollowers
    <3> QED
      BY <2>1, <3>1, <3>2, <3>3, CountsFrame
  <2>3. CASE call[c].joinedActive
    <3>1. AllFollowers' = AllFollowers \ {c} /\ c \in AllFollowers
      BY <2>1, <2>3 DEF AllFollowers, TypeOK
    <3>0. \A d \in AllFollowers : d # c => call'[d] = call[d]
      BY <2>1 DEF AllFollowers
    <3>2. Followers(f)' = Followers(f) \ {c} /\ c \in Followers(f)
      BY <2>1, <3>0, <3>1 DEF Followers
    <3>3. ASSUME NEW g \in 1..leaders, g # f
          PROVE  Followers(g)' = Followers(g)
      BY <2>1, <3>0, <3>1, <3>3 DEF Followers
    <3>4. /\ Cardinality(AllFollowers') = Cardinality(AllFollowers) - 1
          /\ Cardinality(Followers(f)') = Cardinality(Followers(f)) - 1
      BY <3>1, <3>2, FollowersFinite, FS_RemoveElement
    <3> DEFINE w == heap[f].waiters - 1
    <3>5. w \in Nat
      <4>1. heap[f] \in FlightObject /\ heap[f].waiters > 0
        BY <2>1, <3>1, FollowerIsCounted DEF TypeOK
      <4> QED
        BY <4>1 DEF FlightObject
    <3>6. heap' = WithWaiters(heap, f, w) /\ followersWaiting' = followersWaiting - 1
      BY <1>3, <2>1, <2>3 DEF Leave, CountOut, WithWaiters
    <3>7. \A g \in 1..leaders : heap'[g].waiters = IF g = f THEN w ELSE heap[g].waiters
      <4> HIDE DEF w
      <4>1. leaders \in Nat /\ heap \in [1..leaders -> FlightObject]
        BY DEF TypeOK
      <4>2. \A g \in 1..leaders : WithWaiters(heap, f, w)[g].waiters = IF g = f THEN w ELSE heap[g].waiters
        BY <3>5, <4>1, WaitersUpdate
      <4> QED
        BY <3>6, <4>2
    <3>8. ASSUME NEW g \in 1..leaders'
          PROVE  heap'[g].waiters = Cardinality(Followers(g)')
      <4>1. g \in 1..leaders /\ heap[g].waiters = Cardinality(Followers(g))
        BY <2>1 DEF WaiterAccounting
      <4>2. CASE g = f
        BY <3>4, <3>7, <4>1, <4>2
      <4>3. CASE g # f
        BY <3>3, <3>7, <4>1, <4>3
      <4> QED
        BY <4>2, <4>3
    <3> QED
      BY <3>4, <3>6, <3>8 DEF WaiterAccounting
  <2> QED
    BY <2>2, <2>3
<1>4. ASSUME NEW c \in Callers, NEW failed \in BOOLEAN, Complete(c, failed)
      PROVE  WaiterAccounting'
  <2>1. /\ call[c].flight \in 1..leaders /\ pc[c] = "operation"
        /\ pc' = [pc EXCEPT ![c] = "idle"]
        /\ \A d \in Callers \ {c} : call'[d] = call[d]
    BY <1>4 DEF Complete, FlightReferences, TypeOK
  <2>2. AllFollowers' = AllFollowers /\ \A d \in AllFollowers : d # c
    BY <2>1 DEF AllFollowers, TypeOK
  <2>3. /\ \A g \in 1..leaders : heap'[g].waiters = heap[g].waiters
        /\ leaders' = leaders /\ followersWaiting' = followersWaiting
    <3>1. /\ heap' = [heap EXCEPT ![call[c].flight].completedAt = clock, ![call[c].flight].failed = failed]
          /\ leaders' = leaders /\ followersWaiting' = followersWaiting
      BY <1>4 DEF Complete, counters
    <3>2. heap \in [1..leaders -> FlightObject]
      BY DEF TypeOK
    <3> QED
      BY <2>1, <3>1, <3>2 DEF FlightObject
  <2>4. \A d \in AllFollowers : call'[d].flight = call[d].flight
    BY <2>1, <2>2 DEF AllFollowers
  <2> QED
    BY <2>2, <2>3, <2>4, CountsFrame
<1>5. ASSUME NEW c \in Callers, Wake(c) \/ TimeOut(c)
      PROVE  WaiterAccounting'
  <2>1. /\ pc' = [pc EXCEPT ![c] = "leaving"] /\ pc[c] = "waiting"
        /\ \A d \in Callers :
              /\ call'[d].joinedActive = call[d].joinedActive
              /\ call'[d].flight = call[d].flight
        /\ UNCHANGED <<heap, counters>>
    <3>1. /\ pc' = [pc EXCEPT ![c] = "leaving"] /\ pc[c] = "waiting"
          /\ UNCHANGED <<clock, flights, heap, answer, counters>>
          /\ \E b \in BOOLEAN : call' = [call EXCEPT ![c].completed = b]
      BY <1>5 DEF Wake, TimeOut
    <3>2. PICK b \in BOOLEAN : call' = [call EXCEPT ![c].completed = b]
      BY <3>1
    <3>3. call \in [Callers -> Call]
      BY DEF TypeOK
    <3> QED
      BY <3>1, <3>2, <3>3 DEF Call
  <2>2. AllFollowers' = AllFollowers
    BY <2>1 DEF AllFollowers, TypeOK
  <2> QED
    BY <2>1, <2>2, CountsFrame DEF counters, AllFollowers
<1>6. CASE UNCHANGED <<heap, pc, call, leaders, followersWaiting>>
  <2>1. AllFollowers' = AllFollowers
    BY <1>6 DEF AllFollowers
  <2> QED
    BY <1>6, <2>1, CountsFrame
<1>7. ASSUME NEW c \in Callers, NEW key \in Keys, RejectCapacity(c, key)
      PROVE  WaiterAccounting'
  BY <1>6, <1>7 DEF RejectCapacity
<1>8. ASSUME NEW key \in Keys, Invalidate(key)
      PROVE  WaiterAccounting'
  BY <1>6, <1>8 DEF Invalidate, counters
<1>9. CASE Stats \/ Tick \/ UNCHANGED vars
  BY <1>6, <1>9 DEF Stats, Tick, vars, counters
<1> QED
  BY <1>1, <1>2, <1>3, <1>4, <1>5, <1>7, <1>8, <1>9 DEF Next, Run

LEMMA Inductive == Spec => []IInv
<1>1. IInv /\ [Next]_vars => IInv'
  BY NextKeepsReferences, NextKeepsCounts DEF IInv
<1> QED
  BY <1>1, InitEstablishes, PTL DEF Spec

\* The registry and its callers stay well typed and only refer to flights that
\* were created; no counter of followers ever drops below zero.
THEOREM TypeCorrect == Spec => []TypeOK
BY Inductive, PTL DEF IInv

\* No interleaving of expiry, eviction, invalidate() and follower time-outs
\* lets two callers run the operation of one key at once.
THEOREM OneOperation == Spec => []OneOperationPerKey
<1>1. IInv => OneOperationPerKey
  BY DEF IInv, FlightReferences, OneOperationPerKey
<1> QED
  BY <1>1, Inductive, PTL

\* The waiters of every flight and the followers_waiting gauge are exact.
THEOREM WaitersExact == Spec => []WaiterAccounting
BY Inductive, PTL DEF IInv
-----------------------------------------------------------------------------
(* Outcomes.  A flight that completed keeps its outcome and its time, so a  *)
(* caller that joined a retained result still holds the one it was given.   *)

LEMMA HeapStep ==
    ASSUME IInv, TypeOK', [Next]_vars, NEW g \in 1..leaders
    PROVE  /\ leaders <= leaders' /\ heap'[g].key = heap[g].key
           /\ IsCompleted(g) => /\ heap'[g].completedAt = heap[g].completedAt
                                /\ heap'[g].failed = heap[g].failed
<1> DEFINE Kept == /\ leaders <= leaders' /\ heap'[g].key = heap[g].key
                   /\ IsCompleted(g) => /\ heap'[g].completedAt = heap[g].completedAt
                                        /\ heap'[g].failed = heap[g].failed
<1>t. leaders \in Nat /\ heap \in [1..leaders -> FlightObject] /\ g \in 1..leaders
  BY DEF IInv, TypeOK
<1>1. ASSUME heap' = heap, leaders' = leaders PROVE Kept
  BY <1>t, <1>1
<1>2. ASSUME NEW f \in 1..leaders, NEW w \in Nat, heap' = WithWaiters(heap, f, w), leaders' = leaders
      PROVE  Kept
  BY <1>t, <1>2, WaitersUpdate
<1>3. ASSUME NEW c \in Callers, NEW key \in Keys, Lead(c, key) PROVE Kept
  <2>1. leaders' = leaders + 1 /\ heap'[g] = heap[g]
    BY <1>t, <1>3 DEF Lead
  <2> QED
    BY <1>t, <2>1
<1>4. ASSUME NEW c \in Callers, NEW key \in Keys, Follow(c, key) PROVE Kept
  <2>1. PICK f \in 1..leaders : f = ExpireCompleted[key] /\ leaders' = leaders
    BY <1>4, ExpireDropsCompleted DEF Follow, IInv, TypeOK, NoFlight
  <2>2. heap[f].waiters + 1 \in Nat
    BY <1>t DEF FlightObject
  <2>3. heap' = heap \/ heap' = WithWaiters(heap, f, heap[f].waiters + 1)
    BY <1>4, <2>1 DEF Follow, WithWaiters
  <2> QED
    BY <1>1, <1>2, <2>1, <2>2, <2>3
<1>5. ASSUME NEW c \in Callers, NEW failed \in BOOLEAN, Complete(c, failed) PROVE Kept
  <2> DEFINE f == call[c].flight
             o == [heap[f] EXCEPT !.completedAt = clock, !.failed = failed]
  <2>1. f \in 1..leaders /\ ~IsCompleted(f) /\ leaders' = leaders
    BY <1>5 DEF Complete, IInv, FlightReferences, counters
  <2>2. heap' = [heap EXCEPT ![f] = o]
    BY <1>5 DEF Complete
  <2>3. o.key = heap[f].key
    BY <1>t, <2>1 DEF FlightObject
  <2> HIDE DEF o, f
  <2> QED
    BY <1>t, <2>1, <2>2, <2>3
<1>6. ASSUME NEW c \in Callers, Leave(c) PROVE Kept
  <2> DEFINE f == call[c].flight
  <2>1. f \in 1..leaders /\ leaders' = leaders /\ c \in Callers
    BY <1>6 DEF Leave, IInv, FlightReferences
  <2>2. CASE call[c].joinedActive
    <3>1. heap' = WithWaiters(heap, f, heap[f].waiters - 1)
      BY <1>6, <2>2 DEF Leave, CountOut, WithWaiters
    <3>2. heap[f].waiters - 1 \in Nat
      <4>1. c \in AllFollowers
        BY <1>6, <2>2 DEF Leave, AllFollowers
      <4>2. heap[f].waiters > 0 /\ heap[f].waiters \in Nat
        BY <1>t, <2>1, <4>1, FollowerIsCounted DEF IInv, FlightObject
      <4> QED
        BY <4>2
    <3> QED
      BY <1>2, <2>1, <3>1, <3>2
  <2>3. CASE ~call[c].joinedActive
    BY <1>1, <1>6, <2>1, <2>3 DEF Leave, CountOut
  <2> QED
    BY <2>2, <2>3
<1>7. ASSUME NEW c \in Callers, \/ Wake(c) \/ TimeOut(c)
                                \/ \E key \in Keys : RejectCapacity(c, key)
      PROVE  Kept
  BY <1>1, <1>7 DEF Wake, TimeOut, RejectCapacity, counters
<1>8. ASSUME (\E key \in Keys : Invalidate(key)) \/ Stats \/ Tick \/ UNCHANGED vars PROVE Kept
  BY <1>1, <1>8 DEF Invalidate, Stats, Tick, vars, counters
<1> QED
  BY <1>3, <1>4, <1>5, <1>6, <1>7, <1>8 DEF Next, Run

\* A caller that found a retained result holds one that had not expired then.
RetainedFresh ==
    \A c \in Callers : pc[c] \in {"waiting", "leaving"} /\ ~call[c].joinedActive =>
        /\ IsCompleted(call[c].flight)
        /\ call[c].since - heap[call[c].flight].completedAt < ResultTTL

LEMMA RetainedStep ==
    ASSUME IInv, IInv', RetainedFresh, [Next]_vars
    PROVE  RetainedFresh'
<1> DEFINE Held(c) == pc[c] \in {"waiting", "leaving"} /\ ~call[c].joinedActive
<1> SUFFICES ASSUME NEW c \in Callers, Held(c)'
             PROVE  /\ IsCompleted(call[c].flight)'
                    /\ call'[c].since - heap'[call'[c].flight].completedAt < ResultTTL
  BY DEF RetainedFresh
<1>t. TypeOK /\ TypeOK' /\ FlightReferences /\ FlightReferences'
  BY DEF IInv
<1>1. ASSUME Held(c), call'[c].flight = call[c].flight, call'[c].since = call[c].since
      PROVE  /\ IsCompleted(call[c].flight)'
             /\ call'[c].since - heap'[call'[c].flight].completedAt < ResultTTL
  <2>1. call[c].flight \in 1..leaders
    BY <1>t, <1>1 DEF FlightReferences
  <2> QED
    BY <1>1, <1>t, <2>1, HeapStep DEF RetainedFresh, IsCompleted
<1>2. ASSUME NEW d \in Callers, NEW key \in Keys, Follow(d, key)
      PROVE  /\ IsCompleted(call[c].flight)'
             /\ call'[c].since - heap'[call'[c].flight].completedAt < ResultTTL
  <2> DEFINE f == ExpireCompleted[key]
  <2>1. CASE d # c
    BY <1>1, <1>2, <1>t, <2>1 DEF Follow, TypeOK
  <2>2. CASE d = c
    <3>1. /\ call'[c].flight = f /\ call'[c].since = clock /\ call'[c].joinedActive = ~IsCompleted(f)
          /\ f # NoFlight
      BY <1>2, <1>t, <2>2 DEF Follow, TypeOK
    <3>2. IsCompleted(f) /\ heap' = heap
      BY <1>2, <2>2, <3>1 DEF Follow
    <3>3. ~(clock - heap[f].completedAt >= ResultTTL)
      <4>1. flights[key] = f /\ key \in Completed(flights)
        BY <1>t, <3>1, <3>2, ExpireDropsCompleted DEF Completed, Registered
      <4> DEFINE ks == {k \in Completed(flights) : clock - heap[flights[k]].completedAt >= ResultTTL}
      <4>2. f = IF key \in ks THEN NoFlight ELSE flights[key]
        BY <1>t DEF ExpireCompleted, Without
      <4> QED
        BY <3>1, <4>1, <4>2
    <3>4. heap[f].completedAt \in Int /\ clock \in Int
      <4>1. f \in 1..leaders
        <5>1. f \in 0..leaders /\ leaders \in Nat
          BY <1>t, ExpireDropsCompleted DEF TypeOK
        <5> QED
          BY <3>1, <5>1 DEF NoFlight
      <4>2. heap \in [1..leaders -> FlightObject] /\ clock \in Nat
        BY <1>t DEF TypeOK
      <4> QED
        BY <4>1, <4>2 DEF FlightObject, NoTime
    <3> QED
      BY <3>1, <3>2, <3>3, <3>4, ResultTTLAssumption DEF IsCompleted
  <2> QED
    BY <2>1, <2>2
<1>3. ASSUME NEW d \in Callers, Wake(d) \/ TimeOut(d) \/ Leave(d)
                                \/ (\E failed \in BOOLEAN : Complete(d, failed))
                                \/ (\E key \in Keys : RejectCapacity(d, key))
      PROVE  /\ Held(c) /\ call'[c].flight = call[c].flight /\ call'[c].since = call[c].since
  <2>1. CASE d # c
    BY <1>3, <1>t, <2>1 DEF Wake, TimeOut, Leave, Complete, RejectCapacity, TypeOK
  <2>2. CASE d = c
    <3>1. call[c] \in Call
      BY <1>t DEF TypeOK
    <3>2. CASE Wake(c) \/ TimeOut(c)
      <4>1. PICK b \in BOOLEAN : call'[c] = [call[c] EXCEPT !.completed = b]
        BY <1>t, <3>2 DEF Wake, TimeOut, TypeOK
      <4>2. /\ call'[c].flight = call[c].flight /\ call'[c].since = call[c].since
            /\ call'[c].joinedActive = call[c].joinedActive
        BY <3>1, <4>1 DEF Call
      <4> QED
        BY <3>2, <4>2 DEF Wake, TimeOut
    <3>3. CASE Leave(c) \/ (\E failed \in BOOLEAN : Complete(c, failed))
      BY <1>t, <3>3 DEF Leave, Complete, TypeOK
    <3>4. CASE \E key \in Keys : RejectCapacity(c, key)
      BY <3>4 DEF RejectCapacity
    <3> QED
      BY <1>3, <2>2, <3>2, <3>3, <3>4
  <2> QED
    BY <2>1, <2>2
<1>4. ASSUME NEW d \in Callers, NEW key \in Keys, Lead(d, key)
      PROVE  /\ Held(c) /\ call'[c].flight = call[c].flight /\ call'[c].since = call[c].since
  BY <1>4, <1>t DEF Lead, TypeOK
<1>5. ASSUME (\E key \in Keys : Invalidate(key)) \/ Stats \/ Tick \/ UNCHANGED vars
      PROVE  /\ Held(c) /\ call'[c].flight = call[c].flight /\ call'[c].since = call[c].since
  BY <1>5 DEF Invalidate, Stats, Tick, vars
<1> QED
  BY <1>1, <1>2, <1>3, <1>4, <1>5 DEF Next, Run

LEMMA Retained == Spec => []RetainedFresh
<1>1. Init => RetainedFresh
  BY DEF Init, RetainedFresh
<1>2. IInv /\ IInv' /\ RetainedFresh /\ [Next]_vars => RetainedFresh'
  BY RetainedStep
<1> QED
  BY <1>1, <1>2, Inductive, PTL DEF Spec

\* run(), _expire_completed: a follower is handed the outcome of its own key,
\* still running when it asked or younger than the TTL.
THEOREM SharedResultsAreFresh == Spec => []SharedResultFresh
<1>1. IInv /\ RetainedFresh => SharedResultFresh
  BY DEF IInv, FlightReferences, RetainedFresh, SharedResultFresh
<1> QED
  BY <1>1, Inductive, Retained, PTL

\* run(): the result, the error and the completion time of a flight are set
\* once, so all its followers are told the same.
THEOREM OutcomesAreStable == Spec => OutcomeStable
<1>1. IInv /\ IInv' /\ [Next]_vars =>
        [\A f \in 1..leaders :
            IsCompleted(f) => /\ heap'[f].completedAt = heap[f].completedAt
                              /\ heap'[f].failed = heap[f].failed]_vars
  BY HeapStep DEF IInv
<1> QED
  BY <1>1, Inductive, PTL DEF Spec, OutcomeStable

-----------------------------------------------------------------------------
(* Capacity. *)

LEMMA RegisteredFinite ==
    ASSUME NEW reg PROVE IsFiniteSet(Registered(reg)) /\ Cardinality(Registered(reg)) \in Nat
BY FS_Subset, FS_CardinalityType, KeysAssumption DEF Registered

LEMMA FewerRegistered ==
    ASSUME CapacityRespected,
           \A k \in Keys : flights'[k] = flights[k] \/ flights'[k] = NoFlight
    PROVE  CapacityRespected'
<1>1. Registered(flights') \in SUBSET Registered(flights)
  BY DEF Registered
<1>2. Cardinality(Registered(flights')) <= Cardinality(Registered(flights))
  BY <1>1, RegisteredFinite, FS_Subset
<1>3. Cardinality(Registered(flights)) \in Nat /\ Cardinality(Registered(flights')) \in Nat
  BY RegisteredFinite
<1> QED
  BY <1>2, <1>3, MaxEntriesAssumption DEF CapacityRespected

\* The loop of run() makes room for exactly the entry that is added.
LEMMA LeadFits ==
    ASSUME TypeOK, CapacityRespected, NEW c \in Callers, NEW key \in Keys, Lead(c, key)
    PROVE  CapacityRespected'
<1> DEFINE reg == ExpireCompleted
           R == Registered(reg)
<1>1. PICK E \in Evictions(reg) : flights' = [Without(reg, E) EXCEPT ![key] = leaders + 1]
  BY DEF Lead
<1>2. E \in SUBSET R /\ key \notin R /\ reg \in [Keys -> 0..leaders] /\ leaders \in Nat
  BY <1>1, ExpireDropsCompleted DEF Evictions, Completed, Registered, Lead, TypeOK
<1>3. Cardinality(E) = IF Cardinality(R) >= MaxEntries THEN Cardinality(R) - MaxEntries + 1 ELSE 0
  BY <1>1 DEF Evictions
<1>4. Registered(flights') = (R \ E) \cup {key}
  <2>1. \A k \in Keys : Without(reg, E)[k] = IF k \in E THEN NoFlight ELSE reg[k]
    BY <1>2, WithoutIsRestriction
  <2>2. Without(reg, E) \in [Keys -> 0..leaders]
    BY <1>2, WithoutIsRestriction
  <2>3. \A k \in Keys : flights'[k] = IF k = key THEN leaders + 1
                                      ELSE IF k \in E THEN NoFlight ELSE reg[k]
    BY <1>1, <2>1, <2>2
  <2> QED
    BY <1>2, <2>3 DEF Registered, NoFlight
<1> HIDE DEF R, reg
<1>5. IsFiniteSet(R) /\ Cardinality(R) \in Nat
  BY RegisteredFinite DEF R
<1>6. IsFiniteSet(R \ E) /\ IsFiniteSet(E) /\ Cardinality(E) \in Nat /\ Cardinality(R \ E) \in Nat
  BY <1>2, <1>5, FS_Subset, FS_Difference, FS_CardinalityType
<1>7. Cardinality(R \ E) = Cardinality(R) - Cardinality(E)
  <2>1. R \cap E = E
    BY <1>2
  <2> QED
    BY <1>5, <1>6, <2>1, FS_Difference
<1>8. Cardinality((R \ E) \cup {key}) = Cardinality(R \ E) + 1
  BY <1>2, <1>6, FS_AddElement
<1> QED
  BY <1>3, <1>4, <1>5, <1>6, <1>7, <1>8, MaxEntriesAssumption DEF CapacityRespected

LEMMA CapacityStep == IInv /\ CapacityRespected /\ [Next]_vars => CapacityRespected'
<1> SUFFICES ASSUME TypeOK, CapacityRespected, [Next]_vars PROVE CapacityRespected'
  BY DEF IInv
<1>1. ASSUME NEW reg \in [Keys -> 0..leaders], NEW ks, flights' = Without(reg, ks),
             reg = flights \/ reg = ExpireCompleted
      PROVE  CapacityRespected'
  BY <1>1, WithoutIsRestriction, ExpireDropsCompleted, FewerRegistered
<1>2. ASSUME flights' = ExpireCompleted \/ flights' = flights PROVE CapacityRespected'
  BY <1>2, ExpireDropsCompleted, FewerRegistered
<1>3. ASSUME NEW c \in Callers, NEW key \in Keys, Lead(c, key) PROVE CapacityRespected'
  BY <1>3, LeadFits
<1>4. ASSUME NEW c \in Callers, NEW key \in Keys, RejectCapacity(c, key) PROVE CapacityRespected'
  BY <1>1, <1>4, ExpireDropsCompleted DEF RejectCapacity
<1>5. ASSUME NEW key \in Keys, Invalidate(key) PROVE CapacityRespected'
  BY <1>1, <1>5 DEF Invalidate, TypeOK
<1>6. ASSUME NEW c \in Callers, \/ \E key \in Keys : Follow(c, key)
                                \/ \E failed \in BOOLEAN : Complete(c, failed)
                                \/ Wake(c) \/ TimeOut(c) \/ Leave(c)
      PROVE  CapacityRespected'
  BY <1>2, <1>6 DEF Follow, Complete, Wake, TimeOut, Leave
<1>7. CASE Stats \/ Tick \/ UNCHANGED vars
  BY <1>2, <1>7 DEF Stats, Tick, vars
<1> QED
  BY <1>3, <1>4, <1>5, <1>6, <1>7 DEF Next, Run

\* run(): whatever expires, is evicted or invalidated, the registry never holds
\* more than max_entries flights.
THEOREM CapacityHolds == Spec => []CapacityRespected
<1>1. Init => CapacityRespected
  <2> SUFFICES ASSUME Init PROVE CapacityRespected
    OBVIOUS
  <2>1. Registered(flights) = {}
    BY DEF Init, Registered
  <2> QED
    BY <2>1, FS_EmptySet, MaxEntriesAssumption DEF CapacityRespected
<1> QED
  BY <1>1, CapacityStep, Inductive, PTL DEF Spec

-----------------------------------------------------------------------------
(* The streamed translation: locals, permits and counters.                 *)

StreamLabels == {"check", "queued", "reserve", "icheck", "iqueued", "ireserve", "inflight",
                 "reading", "deliver", "exhausted", "caching", "done"}
StreamOutcomes == Reasons \cup {"none", "provider_unavailable", "disconnected", "translated"}
StreamMetrics == [attempts : Nat, successes : Nat, rateLimited : Nat, failures : Nat]

\* The permits a stream has, and the attempts it has not settled, by its label.
HeldAt(l) == IF l \in {"check", "queued", "caching", "done"} THEN 0
             ELSE IF l \in {"ireserve", "inflight"} THEN 2 ELSE 1
OpenAt(l) == IF l \in {"check", "queued", "reserve", "caching", "done"} THEN 0
             ELSE IF l = "inflight" THEN 2 ELSE 1

\* What a stream has sent, against where it stands: it goes on to the cache
\* only with yielded_any, and that means that something was sent.
SentOK(l, f, d, o) ==
    /\ f => d # <<>>
    /\ l \in {"deliver", "caching"} => f
    /\ o = "translated" => l = "done"

StreamTyped ==
    /\ stage \in [Streams -> StreamLabels]
    /\ provider \in [Streams -> {"primary", "fallback"}]
    /\ fresh \in [Streams -> BOOLEAN]
    /\ outcome \in [Streams -> StreamOutcomes]
    /\ deltas \in [Streams -> Seq({"primary", "fallback"})]
    /\ \A s \in Streams : Len(deltas[s]) <= MaxDeltas
    /\ budget \in [Streams -> Budget]
    /\ held \in [Streams -> 0 .. 2]
    /\ slots \in Nat /\ unsettled \in Nat /\ metrics \in StreamMetrics
    /\ \A row \in cache : row.stream \in Streams /\ row.scope \in {"primary", "fallback"}

\* A row holds what its stream sent, and that stream sends nothing more.
RowsStand ==
    \A row \in cache :
        /\ outcome[row.stream] = "translated"
        /\ row.parts = deltas[row.stream]
        /\ row.parts # <<>>

StreamInv ==
    /\ StreamTyped
    /\ \A s \in Streams : held[s] = HeldAt(stage[s])
    /\ \A s \in Streams : SentOK(stage[s], fresh[s], deltas[s], outcome[s])
    /\ slots + Cardinality(Units(held)) = MaxInflight
    /\ MetricsBalance
    /\ RowsStand

\* What any step of a stream does, whichever it is: it goes to the label l with
\* the provider p, yielded_any f, the outcome o, the text d and the budget b.
Balanced(s, l) ==
    /\ slots' \in Nat /\ slots' + HeldAt(l) = slots + HeldAt(stage[s])
    /\ metrics' \in StreamMetrics /\ unsettled' \in Nat
    /\ metrics'.attempts + OpenAt(stage[s]) + metrics.successes + metrics.failures + unsettled
         = metrics.attempts + OpenAt(l) + metrics'.successes + metrics'.failures + unsettled'

StreamMoves(s, l, p, f, o, d, b) ==
    /\ stage[s] # "done" /\ Balanced(s, l) /\ SentOK(l, f, d, o) /\ Len(d) <= MaxDeltas
    /\ stage' = [stage EXCEPT ![s] = l] /\ provider' = [provider EXCEPT ![s] = p]
    /\ fresh' = [fresh EXCEPT ![s] = f] /\ outcome' = [outcome EXCEPT ![s] = o]
    /\ deltas' = [deltas EXCEPT ![s] = d] /\ budget' = [budget EXCEPT ![s] = b]
    /\ held' = [held EXCEPT ![s] = HeldAt(l)]
    /\ \/ cache' = cache
       \/ \A row \in cache' \ cache : /\ row.stream = s /\ row.scope = p /\ row.parts = d
                                      /\ d # <<>> /\ o = "translated"

StreamStepOK(s) ==
    \E l \in StreamLabels, p \in {"primary", "fallback"}, f \in BOOLEAN, o \in StreamOutcomes,
       d \in Seq({"primary", "fallback"}), b \in Budget : StreamMoves(s, l, p, f, o, d, b)

-----------------------------------------------------------------------------
(* Budgets, and attempts by label. *)

LEMMA StreamInactive ==
    ASSUME NEW b \in Budget
    PROVE  /\ Inactive(b) \in Reasons \cup {"none"}
           /\ ~Active(b) => Inactive(b) \in Reasons
BY DEF Inactive, Active, Budget, Reasons

LEMMA StreamRefusal ==
    ASSUME NEW b \in Budget
    PROVE  Refusal(b, StreamCost) \in Reasons \cup {"none"}
BY StreamInactive DEF Refusal, Reasons

LEMMA StreamReserved ==
    ASSUME NEW b \in Budget, StreamCost \in Cost
    PROVE  Reserved(b, StreamCost) \in Budget
<1> DEFINE x == b.attempts + 1
           y == b.inputBytes + StreamCost.inputBytes
           z == b.outputTokens + StreamCost.outputTokens
<1>1. x \in Nat /\ y \in Nat /\ z \in Nat
  BY DEF Cost, Budget
<1>2. Reserved(b, StreamCost) = [b EXCEPT !.attempts = x, !.inputBytes = y, !.outputTokens = z]
  BY DEF Reserved
<1> HIDE DEF x, y, z
<1> QED
  BY <1>1, <1>2 DEF Budget

LEMMA OpenByLabel ==
    ASSUME StreamTyped, NEW s \in Streams
    PROVE  Open(s) = OpenAt(stage[s])
BY DEF StreamTyped, Open, OpenAt, StreamLabels

LEMMA Amounts ==
    ASSUME NEW l
    PROVE  HeldAt(l) \in 0 .. 2 /\ OpenAt(l) \in 0 .. 2
BY DEF HeldAt, OpenAt

\* One stream's share changes: so does the count.
LEMMA UnitsChange ==
    ASSUME IsFiniteSet(Streams), NEW f \in [Streams -> 0 .. 2], NEW s \in Streams, NEW n \in 0 .. 2
    PROVE  /\ Cardinality(Units(f)) \in Nat
           /\ Cardinality(Units([f EXCEPT ![s] = n])) + f[s]
                = Cardinality(Units(f)) + n
<1> DEFINE Rest == {u \in (Streams \ {s}) \X (1 .. 2) : u[2] <= f[u[1]]}
           Own(m) == {s} \X (1 .. m)
<1>1. IsFiniteSet(Rest) /\ Cardinality(Rest) \in Nat
  <2>1. IsFiniteSet(Streams \ {s})
    BY FS_Subset
  <2>2. IsFiniteSet(1 .. 2)
    <3>1. 1 \in Int /\ 2 \in Int
      OBVIOUS
    <3> QED
      BY <3>1, FS_Interval
  <2>3. IsFiniteSet((Streams \ {s}) \X (1 .. 2))
    BY <2>1, <2>2, FS_Product
  <2>4. Rest \subseteq (Streams \ {s}) \X (1 .. 2)
    OBVIOUS
  <2>5. IsFiniteSet(Rest)
    BY <2>3, <2>4, FS_Subset
  <2> QED
    BY <2>5, FS_CardinalityType
<1>2. ASSUME NEW m \in 0 .. 2
      PROVE  IsFiniteSet(Own(m)) /\ Cardinality(Own(m)) = m /\ Rest \cap Own(m) = {}
  <2>1. IsFiniteSet(1 .. m) /\ Cardinality(1 .. m) = m
    <3>1. 1 \in Int /\ m \in Int /\ m >= 0
      OBVIOUS
    <3>2. /\ IsFiniteSet(1 .. m)
          /\ Cardinality(1 .. m) = IF 1 > m THEN 0 ELSE m - 1 + 1
      BY <3>1, FS_Interval
    <3> QED
      BY <3>1, <3>2
  <2>2. IsFiniteSet({s}) /\ Cardinality({s}) = 1
    BY FS_Singleton
  <2>3. IsFiniteSet(Own(m)) /\ Cardinality(Own(m)) = 1 * m
    <3> DEFINE A == {s}
               B == 1 .. m
    <3>1. IsFiniteSet(A) /\ Cardinality(A) = 1 /\ IsFiniteSet(B) /\ Cardinality(B) = m
      BY <2>1, <2>2
    <3> HIDE DEF A, B
    <3>2. IsFiniteSet(A \X B) /\ Cardinality(A \X B) = 1 * m
      BY <3>1, FS_Product
    <3> QED
      BY <3>2 DEF A, B
  <2>4. Rest \cap Own(m) = {}
    <3>1. \A e \in Rest : e[1] # s
      OBVIOUS
    <3>2. \A e \in Own(m) : e[1] = s
      OBVIOUS
    <3> HIDE DEF Rest, Own
    <3> QED
      BY <3>1, <3>2
  <2>5. 1 * m = m
    OBVIOUS
  <2> QED
    BY <2>3, <2>4, <2>5
<1>3. ASSUME NEW m \in 0 .. 2
      PROVE  Cardinality(Rest \cup Own(m)) = Cardinality(Rest) + m
  <2> HIDE DEF Rest, Own
  <2>1. Cardinality(Rest \cup Own(m)) = Cardinality(Rest) + Cardinality(Own(m)) - Cardinality(Rest \cap Own(m))
    BY <1>1, <1>2, FS_Union
  <2>2. Cardinality(Rest \cap Own(m)) = 0
    BY <1>2, FS_EmptySet
  <2> QED
    BY <1>1, <1>2, <2>1, <2>2
<1>4. Units(f) = Rest \cup Own(f[s])
  BY DEF Units
<1>5. Units([f EXCEPT ![s] = n]) = Rest \cup Own(n)
  BY DEF Units
<1>6. f[s] \in 0 .. 2
  OBVIOUS
<1> HIDE DEF Rest, Own
<1>7. Cardinality(Rest \cup Own(f[s])) = Cardinality(Rest) + f[s]
  BY <1>3, <1>6
<1>8. Cardinality(Rest \cup Own(n)) = Cardinality(Rest) + n
  BY <1>3
<1>9. Cardinality(Units(f)) = Cardinality(Rest) + f[s]
  BY <1>4, <1>7
<1>10. Cardinality(Units([f EXCEPT ![s] = n])) = Cardinality(Rest) + n
  BY <1>5, <1>8
<1>11. ASSUME NEW a, NEW b, NEW c \in Nat, NEW d \in 0 .. 2, a = c + d, b = c + n
       PROVE  a \in Nat /\ b + d = a + n
  BY <1>11
<1> QED
  BY <1>1, <1>6, <1>9, <1>10, <1>11

-----------------------------------------------------------------------------
(* The steps. *)

\* An exception that leaves the chain of generators.
LEMMA RaiseStep ==
    ASSUME StreamInv, NEW s \in Streams, stage[s] # "done", NEW reason \in StreamOutcomes \ {"translated"},
           Raise(s, reason), Release(s, held[s]),
           metrics' \in StreamMetrics, unsettled' \in Nat,
           metrics'.attempts + OpenAt(stage[s]) + metrics.successes + metrics.failures + unsettled
             = metrics.attempts + metrics'.successes + metrics'.failures + unsettled',
           UNCHANGED <<budget, deltas, cache>>
    PROVE  StreamStepOK(s)
<1>1. /\ stage' = [stage EXCEPT ![s] = "done"] /\ outcome' = [outcome EXCEPT ![s] = reason]
      /\ provider' = [provider EXCEPT ![s] = provider[s]]
      /\ fresh' = [fresh EXCEPT ![s] = fresh[s]]
      /\ deltas' = [deltas EXCEPT ![s] = deltas[s]]
      /\ budget' = [budget EXCEPT ![s] = budget[s]]
  BY DEF Raise, Goto, StreamInv, StreamTyped
<1>2. /\ held[s] \in 0 .. 2 /\ held[s] = HeldAt(stage[s]) /\ HeldAt("done") = 0 /\ OpenAt("done") = 0
      /\ slots \in Nat
  BY DEF StreamInv, StreamTyped, HeldAt, OpenAt
<1>3. held' = [held EXCEPT ![s] = HeldAt("done")]
  <2>1. held[s] - held[s] = HeldAt("done")
    BY <1>2
  <2> QED
    BY <2>1 DEF Release
<1>4. slots' \in Nat /\ slots' + HeldAt("done") = slots + HeldAt(stage[s])
  BY <1>2 DEF Release
<1>5. SentOK("done", fresh[s], deltas[s], reason)
  BY DEF SentOK, StreamInv
<1>6. /\ provider[s] \in {"primary", "fallback"} /\ fresh[s] \in BOOLEAN
      /\ deltas[s] \in Seq({"primary", "fallback"}) /\ Len(deltas[s]) <= MaxDeltas
      /\ budget[s] \in Budget /\ "done" \in StreamLabels
  BY DEF StreamInv, StreamTyped, StreamLabels
<1>7. metrics'.attempts + OpenAt(stage[s]) + metrics.successes + metrics.failures + unsettled
        = metrics.attempts + OpenAt("done") + metrics'.successes + metrics'.failures + unsettled'
  BY <1>2 DEF StreamInv, StreamTyped, StreamMetrics
<1>8. Balanced(s, "done")
  BY <1>4, <1>7 DEF Balanced
<1>9. StreamMoves(s, "done", provider[s], fresh[s], reason, deltas[s], budget[s])
  BY <1>1, <1>3, <1>5, <1>6, <1>8, Zenon DEF StreamMoves
<1> QED
  BY <1>6, <1>9 DEF StreamStepOK

LEMMA FailedMetrics ==
    ASSUME StreamTyped, NEW n \in 0 .. 2, NEW k \in {0, 1}, Failed(n, k)
    PROVE  /\ metrics' \in StreamMetrics /\ metrics'.attempts = metrics.attempts
           /\ metrics'.successes = metrics.successes /\ metrics'.failures = metrics.failures + n
<1> DEFINE x == metrics.failures + n
           y == metrics.rateLimited + k
<1>1. x \in Nat /\ y \in Nat
  BY DEF StreamTyped, StreamMetrics
<1>2. metrics' = [metrics EXCEPT !.failures = x, !.rateLimited = y]
  BY DEF Failed
<1> HIDE DEF x, y
<1>3. /\ metrics' \in StreamMetrics /\ metrics'.attempts = metrics.attempts
      /\ metrics'.successes = metrics.successes /\ metrics'.failures = x
  BY <1>1, <1>2 DEF StreamTyped, StreamMetrics
<1> QED
  BY <1>3 DEF x

\* The three ways a stream fails before or during a call: what is open fails.
LEMMA FailStep ==
    ASSUME StreamInv, NEW s \in Streams, stage[s] # "done", NEW reason \in StreamOutcomes \ {"translated"},
           Raise(s, reason), Release(s, held[s]), Failed(Open(s), 0),
           UNCHANGED <<budget, deltas, unsettled, cache>>
    PROVE  StreamStepOK(s)
<1>1. Open(s) = OpenAt(stage[s]) /\ OpenAt(stage[s]) \in 0 .. 2
  BY OpenByLabel, Amounts DEF StreamInv
<1>2. /\ metrics' \in StreamMetrics /\ metrics'.attempts = metrics.attempts
      /\ metrics'.successes = metrics.successes /\ metrics'.failures = metrics.failures + OpenAt(stage[s])
  BY <1>1, FailedMetrics DEF StreamInv
<1>3. unsettled' = unsettled /\ unsettled \in Nat /\ metrics \in StreamMetrics
  BY DEF StreamInv, StreamTyped
<1>4. metrics'.attempts + OpenAt(stage[s]) + metrics.successes + metrics.failures + unsettled
        = metrics.attempts + metrics'.successes + metrics'.failures + unsettled'
  BY <1>1, <1>2, <1>3 DEF StreamMetrics
<1> QED
  BY <1>2, <1>3, <1>4, RaiseStep

\* The loop goes on to the second provider, or the request is over.
LEMMA NextProviderStep ==
    ASSUME StreamInv, NEW s \in Streams, stage[s] # "done",
           NextProvider(s), Release(s, held[s]),
           metrics' \in StreamMetrics, unsettled' \in Nat,
           metrics'.attempts + OpenAt(stage[s]) + metrics.successes + metrics.failures + unsettled
             = metrics.attempts + metrics'.successes + metrics'.failures + unsettled',
           UNCHANGED <<budget, deltas, cache>>
    PROVE  StreamStepOK(s)
<1>1. CASE provider[s] = "primary" /\ HasFallback
  <2>1. /\ stage' = [stage EXCEPT ![s] = "check"] /\ outcome' = [outcome EXCEPT ![s] = outcome[s]]
        /\ provider' = [provider EXCEPT ![s] = "fallback"]
        /\ fresh' = [fresh EXCEPT ![s] = FALSE]
        /\ deltas' = [deltas EXCEPT ![s] = deltas[s]]
        /\ budget' = [budget EXCEPT ![s] = budget[s]]
    BY <1>1 DEF NextProvider, Goto, StreamInv, StreamTyped
  <2>2. /\ held[s] \in 0 .. 2 /\ held[s] = HeldAt(stage[s]) /\ HeldAt("check") = 0 /\ OpenAt("check") = 0
        /\ slots \in Nat
    BY DEF StreamInv, StreamTyped, HeldAt, OpenAt
  <2>3. held' = [held EXCEPT ![s] = HeldAt("check")]
    <3>1. held[s] - held[s] = HeldAt("check")
      BY <2>2
    <3> QED
      BY <3>1 DEF Release
  <2>4. slots' \in Nat /\ slots' + HeldAt("check") = slots + HeldAt(stage[s])
    BY <2>2 DEF Release
  <2>5. SentOK("check", FALSE, deltas[s], outcome[s])
    BY DEF SentOK, StreamInv
  <2>6. /\ outcome[s] \in StreamOutcomes
        /\ deltas[s] \in Seq({"primary", "fallback"}) /\ Len(deltas[s]) <= MaxDeltas
        /\ budget[s] \in Budget /\ "check" \in StreamLabels
    BY DEF StreamInv, StreamTyped, StreamLabels
  <2>7. metrics'.attempts + OpenAt(stage[s]) + metrics.successes + metrics.failures + unsettled
          = metrics.attempts + OpenAt("check") + metrics'.successes + metrics'.failures + unsettled'
    BY <2>2 DEF StreamInv, StreamTyped, StreamMetrics
  <2>8. Balanced(s, "check")
    BY <2>4, <2>7 DEF Balanced
  <2>9. StreamMoves(s, "check", "fallback", FALSE, outcome[s], deltas[s], budget[s])
    BY <2>1, <2>3, <2>5, <2>6, <2>8, Zenon DEF StreamMoves
  <2> QED
    BY <2>6, <2>9 DEF StreamStepOK
<1>2. CASE ~(provider[s] = "primary" /\ HasFallback)
  <2>1. Raise(s, "provider_unavailable")
    BY <1>2 DEF NextProvider
  <2>2. "provider_unavailable" \in StreamOutcomes \ {"translated"}
    BY DEF StreamOutcomes
  <2> QED
    BY <2>1, <2>2, RaiseStep
<1> QED
  BY <1>1, <1>2

\* A step that moves the stream to the label l and leaves what it has sent and
\* the rows alone.
LEMMA MoveStep ==
    ASSUME StreamInv, NEW s \in Streams, stage[s] # "done", NEW l \in StreamLabels,
           stage' = [stage EXCEPT ![s] = l],
           l \in {"deliver", "caching"} => fresh[s],
           outcome[s] = "translated" => l = "done",
           held' = [held EXCEPT ![s] = HeldAt(l)],
           slots' \in Nat, slots' + HeldAt(l) = slots + HeldAt(stage[s]),
           metrics' \in StreamMetrics,
           metrics'.attempts + OpenAt(stage[s]) + metrics.successes + metrics.failures
             = metrics.attempts + OpenAt(l) + metrics'.successes + metrics'.failures,
           NEW b \in Budget, budget' = [budget EXCEPT ![s] = b],
           UNCHANGED <<provider, deltas, fresh, outcome, cache, unsettled>>
    PROVE  StreamStepOK(s)
<1>1. /\ provider' = [provider EXCEPT ![s] = provider[s]]
      /\ outcome' = [outcome EXCEPT ![s] = outcome[s]]
      /\ fresh' = [fresh EXCEPT ![s] = fresh[s]]
      /\ deltas' = [deltas EXCEPT ![s] = deltas[s]]
  BY DEF StreamInv, StreamTyped
<1>2. SentOK(l, fresh[s], deltas[s], outcome[s])
  BY DEF SentOK, StreamInv
<1>3. /\ provider[s] \in {"primary", "fallback"} /\ fresh[s] \in BOOLEAN
      /\ deltas[s] \in Seq({"primary", "fallback"}) /\ Len(deltas[s]) <= MaxDeltas
      /\ outcome[s] \in StreamOutcomes /\ unsettled \in Nat /\ unsettled' = unsettled
      /\ metrics \in StreamMetrics /\ cache' = cache /\ unsettled' \in Nat
  BY DEF StreamInv, StreamTyped
<1>4. metrics'.attempts + OpenAt(stage[s]) + metrics.successes + metrics.failures + unsettled
        = metrics.attempts + OpenAt(l) + metrics'.successes + metrics'.failures + unsettled'
  BY <1>3, Amounts DEF StreamMetrics
<1>5. Balanced(s, l)
  BY <1>3, <1>4 DEF Balanced
<1>6. StreamMoves(s, l, provider[s], fresh[s], outcome[s], deltas[s], b)
  BY <1>1, <1>2, <1>3, <1>5, Zenon DEF StreamMoves
<1> QED
  BY <1>3, <1>6 DEF StreamStepOK

LEMMA StreamFacts ==
    ASSUME StreamInv, NEW s \in Streams
    PROVE  /\ stage[s] \in StreamLabels /\ held[s] = HeldAt(stage[s]) /\ held[s] \in 0 .. 2
           /\ slots \in Nat /\ metrics \in StreamMetrics /\ unsettled \in Nat
           /\ budget[s] \in Budget
           /\ budget' = budget => budget' = [budget EXCEPT ![s] = budget[s]]
           /\ Open(s) = OpenAt(stage[s])
           /\ outcome[s] = "translated" => stage[s] = "done"
           /\ stage[s] = "caching" => fresh[s]
           /\ fresh[s] => deltas[s] # <<>>
           /\ Len(deltas[s]) <= MaxDeltas /\ deltas[s] \in Seq({"primary", "fallback"})
           /\ provider[s] \in {"primary", "fallback"} /\ fresh[s] \in BOOLEAN
           /\ outcome[s] \in StreamOutcomes
<1>1. Open(s) = OpenAt(stage[s])
  BY OpenByLabel DEF StreamInv
<1> QED
  BY <1>1 DEF StreamInv, StreamTyped, SentOK

LEMMA ReasonOutcome == Reasons \subseteq StreamOutcomes \ {"translated"}
BY DEF StreamOutcomes, Reasons

LEMMA CheckActiveStep ==
    ASSUME StreamInv, NEW s \in Streams, CheckActive(s)
    PROVE  StreamStepOK(s)
<1>1. CASE Active(budget[s])
  <2>1. PICK l \in {"queued", "iqueued"} : /\ stage' = [stage EXCEPT ![s] = l]
                                            /\ HeldAt(l) = HeldAt(stage[s]) /\ OpenAt(l) = OpenAt(stage[s])
    BY <1>1 DEF CheckActive, Goto, HeldAt, OpenAt
  <2>2. l \in StreamLabels \ {"deliver", "caching"} /\ stage[s] # "done"
    BY <2>1 DEF StreamLabels, CheckActive
  <2>3. UNCHANGED <<provider, deltas, fresh, outcome, cache, unsettled, held, slots, metrics, budget>>
    BY <1>1 DEF CheckActive
  <2>4. held' = [held EXCEPT ![s] = HeldAt(l)]
    BY <2>1, <2>3, StreamFacts DEF StreamInv, StreamTyped
  <2>5. /\ slots' \in Nat /\ slots' + HeldAt(l) = slots + HeldAt(stage[s])
        /\ metrics' \in StreamMetrics
        /\ metrics'.attempts + OpenAt(stage[s]) + metrics.successes + metrics.failures
             = metrics.attempts + OpenAt(l) + metrics'.successes + metrics'.failures
    BY <2>1, <2>3, StreamFacts
  <2>6. budget' = [budget EXCEPT ![s] = budget[s]] /\ budget[s] \in Budget
        /\ (outcome[s] = "translated" => l = "done")
    BY <2>2, <2>3, StreamFacts
  <2> QED
    BY <2>1, <2>2, <2>3, <2>4, <2>5, <2>6, MoveStep
<1>2. CASE ~Active(budget[s])
  <2>1. Inactive(budget[s]) \in StreamOutcomes \ {"translated"}
    BY <1>2, StreamFacts, StreamInactive, ReasonOutcome
  <2>2. /\ Raise(s, Inactive(budget[s])) /\ Release(s, held[s])
        /\ Failed(Open(s), 0) /\ UNCHANGED <<budget, deltas, unsettled, cache>>
        /\ stage[s] # "done"
    BY <1>2 DEF CheckActive
  <2> QED
    BY <2>1, <2>2, FailStep
<1> QED
  BY <1>1, <1>2

LEMMA TakeSlotStep ==
    ASSUME StreamInv, NEW s \in Streams, TakeSlot(s)
    PROVE  StreamStepOK(s)
<1>1. PICK l \in {"reserve", "ireserve"} : /\ stage' = [stage EXCEPT ![s] = l]
                                            /\ HeldAt(l) = HeldAt(stage[s]) + 1 /\ OpenAt(l) = OpenAt(stage[s])
  <2>1. CASE stage[s] = "queued"
    BY <2>1 DEF TakeSlot, Goto, HeldAt, OpenAt
  <2>2. CASE stage[s] = "iqueued"
    BY <2>2 DEF TakeSlot, Goto, HeldAt, OpenAt
  <2> QED
    BY <2>1, <2>2 DEF TakeSlot
<1>2. l \in StreamLabels \ {"deliver", "caching"} /\ stage[s] # "done"
  BY <1>1 DEF StreamLabels, TakeSlot
<1>3. UNCHANGED <<provider, deltas, fresh, outcome, cache, unsettled, metrics, budget>>
  BY DEF TakeSlot
<1>4. held' = [held EXCEPT ![s] = HeldAt(l)]
  <2>1. held[s] + 1 = HeldAt(l)
    BY <1>1, StreamFacts
  <2> QED
    BY <2>1 DEF TakeSlot
<1>5. slots' \in Nat /\ slots' + HeldAt(l) = slots + HeldAt(stage[s])
  BY <1>1, StreamFacts, Amounts DEF TakeSlot
<1>6. /\ metrics' \in StreamMetrics
      /\ metrics'.attempts + OpenAt(stage[s]) + metrics.successes + metrics.failures
           = metrics.attempts + OpenAt(l) + metrics'.successes + metrics'.failures
  BY <1>1, <1>3, StreamFacts
<1>7. budget' = [budget EXCEPT ![s] = budget[s]] /\ budget[s] \in Budget
      /\ (outcome[s] = "translated" => l = "done")
  BY <1>2, <1>3, StreamFacts
<1> QED
  BY <1>1, <1>2, <1>3, <1>4, <1>5, <1>6, <1>7, MoveStep

LEMMA QueueTimeoutStep ==
    ASSUME StreamInv, NEW s \in Streams, QueueTimeout(s)
    PROVE  StreamStepOK(s)
<1> DEFINE reason == IF budget[s].expired THEN "deadline" ELSE "queue"
<1>1. reason \in StreamOutcomes \ {"translated"}
  BY DEF StreamOutcomes, Reasons
<1>2. /\ Raise(s, reason) /\ Release(s, held[s])
      /\ Failed(Open(s), 0) /\ UNCHANGED <<budget, deltas, unsettled, cache>>
      /\ stage[s] # "done"
  BY DEF QueueTimeout
<1> HIDE DEF reason
<1> QED
  BY <1>1, <1>2, FailStep

LEMMA ReserveStep ==
    ASSUME StreamInv, NEW s \in Streams, StreamCost \in Cost, Reserve(s)
    PROVE  StreamStepOK(s)
<1>1. CASE Refusal(budget[s], StreamCost) = "none"
  <2>1. PICK l \in {"inflight", "reading", "icheck"} :
          /\ stage' = [stage EXCEPT ![s] = l]
          /\ HeldAt(l) = HeldAt(stage[s]) /\ OpenAt(l) = OpenAt(stage[s]) + 1
    BY <1>1 DEF Reserve, Goto, HeldAt, OpenAt
  <2>2. l \in StreamLabels \ {"deliver", "caching"} /\ stage[s] # "done"
    BY <2>1 DEF StreamLabels, Reserve
  <2>3. UNCHANGED <<provider, deltas, fresh, outcome, cache, unsettled, held, slots>>
    BY <1>1 DEF Reserve
  <2>4. held' = [held EXCEPT ![s] = HeldAt(l)]
    BY <2>1, <2>3, StreamFacts DEF StreamInv, StreamTyped
  <2>5. slots' \in Nat /\ slots' + HeldAt(l) = slots + HeldAt(stage[s])
    BY <2>1, <2>3, StreamFacts
  <2>6. /\ metrics' \in StreamMetrics /\ metrics'.attempts = metrics.attempts + 1
        /\ metrics'.successes = metrics.successes /\ metrics'.failures = metrics.failures
    <3>1. metrics' = [metrics EXCEPT !.attempts = @ + 1]
      BY <1>1 DEF Reserve
    <3> QED
      BY <3>1, StreamFacts DEF StreamMetrics
  <2>7. metrics'.attempts + OpenAt(stage[s]) + metrics.successes + metrics.failures
             = metrics.attempts + OpenAt(l) + metrics'.successes + metrics'.failures
    <3>1. /\ metrics \in StreamMetrics /\ OpenAt(l) = OpenAt(stage[s]) + 1
          /\ OpenAt(stage[s]) \in 0 .. 2
      BY <2>1, StreamFacts, Amounts
    <3> QED
      BY <2>6, <3>1 DEF StreamMetrics
  <2>8. /\ budget' = [budget EXCEPT ![s] = Reserved(budget[s], StreamCost)]
        /\ Reserved(budget[s], StreamCost) \in Budget
        /\ (outcome[s] = "translated" => l = "done")
    BY <1>1, <2>2, StreamFacts, StreamReserved DEF Reserve
  <2> QED
    BY <2>1, <2>2, <2>3, <2>4, <2>5, <2>6, <2>7, <2>8, MoveStep
<1>2. CASE Refusal(budget[s], StreamCost) # "none"
  <2>1. Refusal(budget[s], StreamCost) \in StreamOutcomes \ {"translated"}
    BY <1>2, StreamFacts, StreamRefusal, ReasonOutcome
  <2>2. /\ Raise(s, Refusal(budget[s], StreamCost)) /\ Release(s, held[s])
        /\ Failed(Open(s), 0) /\ UNCHANGED <<budget, deltas, unsettled, cache>>
        /\ stage[s] # "done"
    BY <1>2 DEF Reserve
  <2> QED
    BY <2>1, <2>2, FailStep
<1> QED
  BY <1>1, <1>2

LEMMA AbortStep ==
    ASSUME StreamInv, NEW s \in Streams, Abort(s)
    PROVE  StreamStepOK(s)
<1>1. Inactive(budget[s]) \in StreamOutcomes \ {"translated"}
  BY StreamFacts, StreamInactive, ReasonOutcome DEF Abort
<1>2. /\ Raise(s, Inactive(budget[s])) /\ Release(s, held[s])
      /\ Failed(Open(s), 0) /\ UNCHANGED <<budget, deltas, unsettled, cache>>
      /\ stage[s] # "done"
  BY DEF Abort
<1> QED
  BY <1>1, <1>2, FailStep

LEMMA ClientGoneStep ==
    ASSUME StreamInv, NEW s \in Streams, ClientGone(s)
    PROVE  StreamStepOK(s)
<1>1. /\ Raise(s, "disconnected") /\ Release(s, held[s])
      /\ UNCHANGED <<budget, deltas, metrics, cache>> /\ unsettled' = unsettled + OpenAt(stage[s])
      /\ stage[s] # "done" /\ "disconnected" \in StreamOutcomes \ {"translated"}
  BY StreamFacts DEF ClientGone, StreamOutcomes
<1>2. /\ metrics' \in StreamMetrics /\ unsettled' \in Nat
      /\ metrics'.attempts + OpenAt(stage[s]) + metrics.successes + metrics.failures + unsettled
           = metrics.attempts + metrics'.successes + metrics'.failures + unsettled'
  <2> DEFINE o == OpenAt(stage[s])
  <2>1. o \in 0 .. 2
    BY Amounts
  <2>2. metrics' = metrics /\ metrics \in StreamMetrics /\ unsettled \in Nat /\ unsettled' = unsettled + o
    BY <1>1, StreamFacts
  <2> HIDE DEF o
  <2>3. /\ metrics' \in StreamMetrics /\ unsettled' \in Nat
        /\ metrics'.attempts + o + metrics.successes + metrics.failures + unsettled
             = metrics.attempts + metrics'.successes + metrics'.failures + unsettled'
    BY <2>1, <2>2 DEF StreamMetrics
  <2> QED
    BY <2>3 DEF o
<1> QED
  BY <1>1, <1>2, RaiseStep

\* What arrives is appended to the text: a delta, or a whole answer.
LEMMA TextGrows ==
    ASSUME StreamInv, NEW s \in Streams, Len(deltas[s]) < MaxDeltas
    PROVE  /\ Append(deltas[s], provider[s]) \in Seq({"primary", "fallback"})
           /\ Append(deltas[s], provider[s]) # <<>>
           /\ Len(Append(deltas[s], provider[s])) = Len(deltas[s]) + 1
<1>1. deltas[s] \in Seq({"primary", "fallback"}) /\ provider[s] \in {"primary", "fallback"}
  BY StreamFacts
<1> QED
  BY <1>1

LEMMA GrowStep ==
    ASSUME StreamInv, NEW s \in Streams, Len(deltas[s]) < MaxDeltas, MaxDeltas \in Nat,
           stage' = [stage EXCEPT ![s] = "deliver"], stage[s] \in {"reading", "inflight"},
           deltas' = [deltas EXCEPT ![s] = Append(@, provider[s])],
           fresh' = [fresh EXCEPT ![s] = TRUE],
           held' = [held EXCEPT ![s] = HeldAt("deliver")],
           Balanced(s, "deliver"),
           UNCHANGED <<budget, provider, outcome, cache>>
    PROVE  StreamStepOK(s)
<1> DEFINE d == Append(deltas[s], provider[s])
<1>1. d \in Seq({"primary", "fallback"}) /\ d # <<>> /\ Len(d) <= MaxDeltas
  BY TextGrows, StreamFacts
<1>2. /\ deltas' = [deltas EXCEPT ![s] = d] /\ provider' = [provider EXCEPT ![s] = provider[s]]
      /\ outcome' = [outcome EXCEPT ![s] = outcome[s]] /\ budget' = [budget EXCEPT ![s] = budget[s]]
  BY DEF StreamInv, StreamTyped
<1>3. /\ provider[s] \in {"primary", "fallback"} /\ outcome[s] \in StreamOutcomes
      /\ budget[s] \in Budget /\ "deliver" \in StreamLabels /\ outcome[s] # "translated"
      /\ stage[s] # "done" /\ TRUE \in BOOLEAN
  BY StreamFacts DEF StreamLabels
<1> HIDE DEF d
<1>4. SentOK("deliver", TRUE, d, outcome[s])
  BY <1>1, <1>3 DEF SentOK
<1>5. StreamMoves(s, "deliver", provider[s], TRUE, outcome[s], d, budget[s])
  BY <1>1, <1>2, <1>3, <1>4, Zenon DEF StreamMoves
<1> QED
  BY <1>1, <1>3, <1>5 DEF StreamStepOK

LEMMA DeltaStep ==
    ASSUME StreamInv, NEW s \in Streams, MaxDeltas \in Nat, Delta(s)
    PROVE  StreamStepOK(s)
<1>1. /\ stage[s] = "reading" /\ HeldAt("deliver") = HeldAt(stage[s]) /\ OpenAt("deliver") = OpenAt(stage[s])
      /\ UNCHANGED <<held, slots, metrics, unsettled, budget, provider, outcome, cache>>
      /\ stage' = [stage EXCEPT ![s] = "deliver"]
  BY DEF Delta, Goto, HeldAt, OpenAt
<1>2. held' = [held EXCEPT ![s] = HeldAt("deliver")]
  BY <1>1, StreamFacts DEF StreamInv, StreamTyped
<1>3. Balanced(s, "deliver")
  BY <1>1, StreamFacts DEF Balanced
<1> QED
  BY <1>1, <1>2, <1>3, GrowStep DEF Delta

LEMMA SuccessMetrics ==
    ASSUME StreamInv, metrics' = [metrics EXCEPT !.successes = @ + 1]
    PROVE  /\ metrics' \in StreamMetrics /\ metrics'.attempts = metrics.attempts
           /\ metrics'.successes = metrics.successes + 1 /\ metrics'.failures = metrics.failures
<1> DEFINE x == metrics.successes + 1
<1>1. metrics \in StreamMetrics /\ x \in Nat
  BY DEF StreamInv, StreamTyped, StreamMetrics
<1>2. metrics' = [metrics EXCEPT !.successes = x]
  OBVIOUS
<1> HIDE DEF x
<1>3. /\ metrics' \in StreamMetrics /\ metrics'.attempts = metrics.attempts
      /\ metrics'.successes = x /\ metrics'.failures = metrics.failures
  BY <1>1, <1>2 DEF StreamMetrics
<1> QED
  BY <1>3 DEF x

LEMMA AnswerStep ==
    ASSUME StreamInv, NEW s \in Streams, MaxDeltas \in Nat, CallAnswers(s)
    PROVE  StreamStepOK(s)
<1>1. /\ stage[s] = "inflight" /\ HeldAt("deliver") = 1 /\ OpenAt("deliver") = 1
      /\ HeldAt(stage[s]) = 2 /\ OpenAt(stage[s]) = 2
      /\ UNCHANGED <<unsettled, budget, provider, outcome, cache>>
      /\ stage' = [stage EXCEPT ![s] = "deliver"]
  BY DEF CallAnswers, Goto, HeldAt, OpenAt
<1>2. held' = [held EXCEPT ![s] = HeldAt("deliver")]
  <2>1. held[s] - 1 = HeldAt("deliver")
    BY <1>1, StreamFacts
  <2> QED
    BY <2>1 DEF CallAnswers, Release
<1>3. /\ metrics' \in StreamMetrics /\ metrics'.attempts = metrics.attempts
      /\ metrics'.successes = metrics.successes + 1 /\ metrics'.failures = metrics.failures
  BY SuccessMetrics DEF CallAnswers
<1>4. slots' = slots + 1
  BY DEF CallAnswers, Release
<1>5. Balanced(s, "deliver")
  <2>1. metrics \in StreamMetrics /\ unsettled \in Nat /\ slots \in Nat
    BY StreamFacts
  <2>2. unsettled' = unsettled
    BY <1>1
  <2>3. metrics'.attempts + 2 + metrics.successes + metrics.failures + unsettled
          = metrics.attempts + 1 + metrics'.successes + metrics'.failures + unsettled'
    BY <1>3, <2>1, <2>2 DEF StreamMetrics
  <2>4. slots' \in Nat /\ slots' + 1 = slots + 2
    BY <1>4, <2>1
  <2> QED
    BY <1>1, <1>3, <2>1, <2>2, <2>3, <2>4 DEF Balanced
<1> QED
  BY <1>1, <1>2, <1>5, GrowStep DEF CallAnswers

\* Reading on, or coming to the end of the body.
LEMMA OnwardStep ==
    ASSUME StreamInv, NEW s \in Streams, stage[s] \in {"deliver", "reading"},
           NEW l \in {"reading", "exhausted"}, stage' = [stage EXCEPT ![s] = l],
           UNCHANGED <<budget, slots, held, provider, deltas, fresh, metrics, unsettled, outcome, cache>>
    PROVE  StreamStepOK(s)
<1>1. HeldAt(l) = HeldAt(stage[s]) /\ OpenAt(l) = OpenAt(stage[s]) /\ stage[s] # "done"
      /\ l \in StreamLabels \ {"deliver", "caching"}
  BY DEF HeldAt, OpenAt, StreamLabels
<1>2. held' = [held EXCEPT ![s] = HeldAt(l)]
  BY <1>1, StreamFacts DEF StreamInv, StreamTyped
<1>3. /\ slots' \in Nat /\ slots' + HeldAt(l) = slots + HeldAt(stage[s])
      /\ metrics' \in StreamMetrics
      /\ metrics'.attempts + OpenAt(stage[s]) + metrics.successes + metrics.failures
           = metrics.attempts + OpenAt(l) + metrics'.successes + metrics'.failures
  BY <1>1, StreamFacts
<1>4. budget' = [budget EXCEPT ![s] = budget[s]] /\ budget[s] \in Budget
      /\ (outcome[s] = "translated" => l = "done")
  BY <1>1, StreamFacts
<1> QED
  BY <1>1, <1>2, <1>3, <1>4, MoveStep

LEMMA FinishStep ==
    ASSUME StreamInv, NEW s \in Streams, Finish(s)
    PROVE  StreamStepOK(s)
<1>1. /\ stage[s] = "exhausted" /\ HeldAt(stage[s]) = 1 /\ OpenAt(stage[s]) = 1
      /\ HeldAt("caching") = 0 /\ OpenAt("caching") = 0
  BY DEF Finish, HeldAt, OpenAt
<1>2. CASE fresh[s]
  <2>1. /\ stage' = [stage EXCEPT ![s] = "caching"] /\ stage[s] # "done" /\ "caching" \in StreamLabels
        /\ UNCHANGED <<provider, deltas, fresh, outcome, cache, unsettled, budget>>
    BY <1>2 DEF Finish, Goto, StreamLabels
  <2>2. held' = [held EXCEPT ![s] = HeldAt("caching")]
    <3>1. held[s] - held[s] = HeldAt("caching")
      BY <1>1, StreamFacts
    <3> QED
      BY <3>1 DEF Finish, Release
  <2>3. slots' \in Nat /\ slots' + HeldAt("caching") = slots + HeldAt(stage[s])
    BY <1>1, StreamFacts DEF Finish, Release
  <2>4. /\ metrics' \in StreamMetrics /\ metrics'.attempts = metrics.attempts
        /\ metrics'.successes = metrics.successes + 1 /\ metrics'.failures = metrics.failures
    BY <1>2, SuccessMetrics DEF Finish
  <2>5. metrics'.attempts + OpenAt(stage[s]) + metrics.successes + metrics.failures
           = metrics.attempts + OpenAt("caching") + metrics'.successes + metrics'.failures
    BY <1>1, <2>4, StreamFacts DEF StreamMetrics
  <2>6. budget' = [budget EXCEPT ![s] = budget[s]] /\ budget[s] \in Budget
        /\ outcome[s] # "translated"
    BY <2>1, StreamFacts
  <2> QED
    BY <1>2, <2>1, <2>2, <2>3, <2>4, <2>5, <2>6, MoveStep
<1>3. CASE ~fresh[s]
  <2>1. /\ NextProvider(s) /\ Release(s, held[s]) /\ stage[s] # "done"
        /\ unsettled' = unsettled + 1 /\ UNCHANGED <<metrics, budget, deltas, cache>>
    BY <1>1, <1>3 DEF Finish
  <2>2. /\ metrics' \in StreamMetrics /\ unsettled' \in Nat
        /\ metrics'.attempts + OpenAt(stage[s]) + metrics.successes + metrics.failures + unsettled
             = metrics.attempts + metrics'.successes + metrics'.failures + unsettled'
    <3>1. metrics \in StreamMetrics /\ unsettled \in Nat /\ metrics' = metrics
      BY <2>1, StreamFacts
    <3>2. unsettled' = unsettled + 1 /\ unsettled' \in Nat /\ OpenAt(stage[s]) = 1
      BY <1>1, <2>1, <3>1
    <3>3. /\ metrics.attempts \in Nat /\ metrics.successes \in Nat /\ metrics.failures \in Nat
      BY <3>1 DEF StreamMetrics
    <3>4. metrics.attempts + 1 + metrics.successes + metrics.failures + unsettled
            = metrics.attempts + metrics.successes + metrics.failures + unsettled'
      BY <3>1, <3>2, <3>3
    <3> QED
      BY <3>1, <3>2, <3>4
  <2> QED
    BY <2>1, <2>2, NextProviderStep
<1> QED
  BY <1>2, <1>3

LEMMA BreakStep ==
    ASSUME StreamInv, NEW s \in Streams, NEW told, Break(s, told)
    PROVE  StreamStepOK(s)
<1> DEFINE k == IF told = "rate_limited" THEN 1 ELSE 0
<1>1. /\ NextProvider(s) /\ Release(s, held[s]) /\ stage[s] # "done"
      /\ Failed(Open(s), k)
      /\ UNCHANGED <<budget, deltas, unsettled, cache>>
  BY DEF Break
<1>2. k \in {0, 1} /\ Open(s) = OpenAt(stage[s]) /\ OpenAt(stage[s]) \in 0 .. 2
  BY StreamFacts, Amounts
<1> HIDE DEF k
<1>3. /\ metrics' \in StreamMetrics /\ metrics'.attempts = metrics.attempts
      /\ metrics'.successes = metrics.successes /\ metrics'.failures = metrics.failures + OpenAt(stage[s])
  BY <1>1, <1>2, FailedMetrics DEF StreamInv
<1>4. /\ unsettled' \in Nat
      /\ metrics'.attempts + OpenAt(stage[s]) + metrics.successes + metrics.failures + unsettled
           = metrics.attempts + metrics'.successes + metrics'.failures + unsettled'
  BY <1>1, <1>2, <1>3, StreamFacts DEF StreamMetrics
<1> QED
  BY <1>1, <1>3, <1>4, NextProviderStep

LEMMA StoreResultStep ==
    ASSUME StreamInv, NEW s \in Streams, StoreResult(s)
    PROVE  StreamStepOK(s)
<1>1. /\ stage[s] = "caching" /\ HeldAt(stage[s]) = 0 /\ OpenAt(stage[s]) = 0 /\ stage[s] # "done"
      /\ HeldAt("done") = 0 /\ OpenAt("done") = 0 /\ "done" \in StreamLabels
      /\ "translated" \in StreamOutcomes
  BY DEF StoreResult, HeldAt, OpenAt, StreamLabels, StreamOutcomes
<1>2. /\ stage' = [stage EXCEPT ![s] = "done"] /\ outcome' = [outcome EXCEPT ![s] = "translated"]
      /\ UNCHANGED <<provider, fresh, budget, slots, held, deltas, metrics, unsettled>>
  BY DEF StoreResult, Raise, Goto
<1>3. /\ provider' = [provider EXCEPT ![s] = provider[s]] /\ fresh' = [fresh EXCEPT ![s] = fresh[s]]
      /\ deltas' = [deltas EXCEPT ![s] = deltas[s]] /\ budget' = [budget EXCEPT ![s] = budget[s]]
      /\ held' = [held EXCEPT ![s] = HeldAt("done")]
  BY <1>1, <1>2, StreamFacts DEF StreamInv, StreamTyped
<1>4. /\ fresh[s] /\ deltas[s] # <<>> /\ provider[s] \in {"primary", "fallback"}
      /\ deltas[s] \in Seq({"primary", "fallback"}) /\ Len(deltas[s]) <= MaxDeltas
      /\ budget[s] \in Budget /\ fresh[s] \in BOOLEAN
  BY <1>1, StreamFacts
<1>5. Balanced(s, "done")
  BY <1>1, <1>2, StreamFacts DEF Balanced
<1>6. SentOK("done", fresh[s], deltas[s], "translated")
  BY <1>4 DEF SentOK
<1>7. \A row \in cache' \ cache : /\ row.stream = s /\ row.scope = provider[s] /\ row.parts = deltas[s]
                                  /\ deltas[s] # <<>> /\ "translated" = "translated"
  BY <1>4 DEF StoreResult
<1>8. StreamMoves(s, "done", provider[s], fresh[s], "translated", deltas[s], budget[s])
  BY <1>1, <1>2, <1>3, <1>4, <1>5, <1>6, <1>7, Zenon DEF StreamMoves
<1> QED
  BY <1>1, <1>4, <1>8 DEF StreamStepOK

-----------------------------------------------------------------------------
(* The invariant. *)

LEMMA StreamStepTyped ==
    ASSUME StreamInv, NEW s \in Streams, NEW l \in StreamLabels, NEW p \in {"primary", "fallback"},
           NEW f \in BOOLEAN, NEW o \in StreamOutcomes, NEW d \in Seq({"primary", "fallback"}),
           NEW b \in Budget, StreamMoves(s, l, p, f, o, d, b)
    PROVE  /\ StreamTyped'
           /\ \A u \in Streams : held'[u] = HeldAt(stage'[u])
           /\ \A u \in Streams : SentOK(stage'[u], fresh'[u], deltas'[u], outcome'[u])
<1>1. StreamTyped'
  <2>1. /\ stage' \in [Streams -> StreamLabels] /\ provider' \in [Streams -> {"primary", "fallback"}]
        /\ fresh' \in [Streams -> BOOLEAN] /\ outcome' \in [Streams -> StreamOutcomes]
        /\ deltas' \in [Streams -> Seq({"primary", "fallback"})] /\ budget' \in [Streams -> Budget]
    BY DEF StreamMoves, StreamInv, StreamTyped
  <2>2. \A u \in Streams : Len(deltas'[u]) <= MaxDeltas
    BY DEF StreamMoves, StreamInv, StreamTyped
  <2>3. held' \in [Streams -> 0 .. 2]
    BY Amounts DEF StreamMoves, StreamInv, StreamTyped
  <2>4. slots' \in Nat /\ unsettled' \in Nat /\ metrics' \in StreamMetrics
    BY DEF StreamMoves, Balanced
  <2>5. \A row \in cache' : row.stream \in Streams /\ row.scope \in {"primary", "fallback"}
    BY DEF StreamMoves, StreamInv, StreamTyped
  <2> QED
    BY <2>1, <2>2, <2>3, <2>4, <2>5 DEF StreamTyped
<1>2. ASSUME NEW u \in Streams
      PROVE  /\ held'[u] = HeldAt(stage'[u])
             /\ SentOK(stage'[u], fresh'[u], deltas'[u], outcome'[u])
  BY DEF StreamMoves, StreamInv, StreamTyped
<1> QED
  BY <1>1, <1>2

\* The rows that were there belong to streams that have ended.
LEMMA StreamStepRows ==
    ASSUME StreamInv, NEW s \in Streams, NEW l \in StreamLabels, NEW p \in {"primary", "fallback"},
           NEW f \in BOOLEAN, NEW o \in StreamOutcomes, NEW d \in Seq({"primary", "fallback"}),
           NEW b \in Budget, StreamMoves(s, l, p, f, o, d, b)
    PROVE  RowsStand'
<1> SUFFICES ASSUME NEW row \in cache'
             PROVE  /\ outcome'[row.stream] = "translated"
                    /\ row.parts = deltas'[row.stream] /\ row.parts # <<>>
  BY DEF RowsStand
<1>1. /\ outcome' = [outcome EXCEPT ![s] = o] /\ deltas' = [deltas EXCEPT ![s] = d]
      /\ outcome \in [Streams -> StreamOutcomes] /\ deltas \in [Streams -> Seq({"primary", "fallback"})]
      /\ stage[s] # "done"
  BY DEF StreamMoves, StreamInv, StreamTyped
<1>2. CASE row \in cache
  <2>1. /\ outcome[row.stream] = "translated" /\ row.parts = deltas[row.stream] /\ row.parts # <<>>
        /\ row.stream \in Streams
    BY <1>2 DEF StreamInv, StreamTyped, RowsStand
  <2>2. stage[row.stream] = "done"
    BY <2>1 DEF StreamInv, SentOK
  <2>3. row.stream # s
    BY <1>1, <2>2
  <2> QED
    BY <1>1, <2>1, <2>3
<1>3. CASE row \notin cache
  <2>1. row.stream = s /\ row.parts = d /\ d # <<>> /\ o = "translated"
    BY <1>3 DEF StreamMoves
  <2> QED
    BY <1>1, <2>1
<1> QED
  BY <1>2, <1>3

\* The sum of the attempts that are accounted for, carried over a step.
LEMMA AttemptsCarry ==
    ASSUME NEW a \in Nat, NEW c \in Nat, NEW f \in Nat, NEW x \in Nat, NEW A \in Nat,
           NEW a1 \in Nat, NEW c1 \in Nat, NEW f1 \in Nat, NEW x1 \in Nat, NEW B \in Nat,
           NEW m \in Nat, NEW n \in Nat,
           a = c + f + x + A,
           a1 + m + c + f + x = a + n + c1 + f1 + x1,
           B + m = A + n
    PROVE  a1 = c1 + f1 + x1 + B
OBVIOUS

LEMMA StreamStepSums ==
    ASSUME IsFiniteSet(Streams), StreamInv, NEW s \in Streams, NEW l \in StreamLabels,
           NEW p \in {"primary", "fallback"},
           NEW f \in BOOLEAN, NEW o \in StreamOutcomes, NEW d \in Seq({"primary", "fallback"}),
           NEW b \in Budget, StreamMoves(s, l, p, f, o, d, b), MaxInflight \in Nat
    PROVE  /\ slots' + Cardinality(Units(held')) = MaxInflight
           /\ MetricsBalance'
<1>1. /\ held' = [held EXCEPT ![s] = HeldAt(l)] /\ held \in [Streams -> 0 .. 2]
      /\ HeldAt(l) \in 0 .. 2 /\ held[s] = HeldAt(stage[s]) /\ held[s] \in 0 .. 2
      /\ stage' = [stage EXCEPT ![s] = l] /\ stage \in [Streams -> StreamLabels]
  BY Amounts DEF StreamMoves, StreamInv, StreamTyped
<1>2. slots + Cardinality(Units(held)) = MaxInflight /\ slots \in Nat
  BY DEF StreamInv, StreamTyped
<1>3. slots' \in Nat /\ slots' + HeldAt(l) = slots + HeldAt(stage[s])
  BY DEF StreamMoves, Balanced
<1>4. slots' + Cardinality(Units(held')) = MaxInflight
  <2> DEFINE A == Cardinality(Units(held))
             B == Cardinality(Units([held EXCEPT ![s] = HeldAt(l)]))
  <2>1. A \in Nat /\ B + held[s] = A + HeldAt(l)
    BY <1>1, UnitsChange
  <2>2. B \in Nat
    <3>1. [held EXCEPT ![s] = HeldAt(l)] \in [Streams -> 0 .. 2]
      BY <1>1
    <3> QED
      BY <1>1, <3>1, UnitsChange
  <2>3. Units(held') = Units([held EXCEPT ![s] = HeldAt(l)])
    BY <1>1
  <2>4. slots + A = MaxInflight /\ held[s] = HeldAt(stage[s])
    BY <1>1, <1>2
  <2>5. slots' + B = MaxInflight
    <3> DEFINE h == HeldAt(stage[s])   k == HeldAt(l)   x == slots   x1 == slots'
    <3>1. h \in Nat /\ k \in Nat /\ x \in Nat /\ x1 \in Nat /\ A \in Nat /\ B \in Nat
      BY <1>2, <1>3, <2>1, <2>2, Amounts
    <3>2. B + h = A + k
      BY <2>1, <2>4
    <3>3. x1 + k = x + h /\ x + A = MaxInflight
      BY <1>3, <2>4
    <3> HIDE DEF A, B, h, k, x, x1
    <3>4. x1 + B = MaxInflight
      BY <3>1, <3>2, <3>3
    <3> QED
      BY <3>4 DEF x1
  <2> QED
    BY <2>3, <2>5
<1>5. MetricsBalance'
  <2> DEFINE F == [u \in Streams |-> OpenAt(stage[u])]
             G == [F EXCEPT ![s] = OpenAt(l)]
             A == Cardinality(Units(F))
             B == Cardinality(Units(G))
  <2>1. F \in [Streams -> 0 .. 2] /\ OpenAt(l) \in 0 .. 2 /\ G \in [Streams -> 0 .. 2]
        /\ F[s] = OpenAt(stage[s]) /\ F[s] \in 0 .. 2
    BY Amounts
  <2>2. A \in Nat /\ B + F[s] = A + OpenAt(l) /\ B \in Nat
    <3> HIDE DEF F
    <3>1. A \in Nat /\ B + F[s] = A + OpenAt(l)
      BY <2>1, UnitsChange
    <3>2. B \in Nat
      <4> HIDE DEF G
      <4> QED
        BY <2>1, UnitsChange
    <3> QED
      BY <3>1, <3>2
  <2>3. [u \in Streams |-> Open(u)] = F
    BY OpenByLabel DEF StreamInv
  <2>4. [u \in Streams |-> Open(u)]' = G
    <3>1. StreamTyped'
      BY StreamStepTyped
    <3>2. \A u \in Streams : Open(u)' = OpenAt(stage'[u])
      <4> TAKE u \in Streams
      <4>1. stage'[u] \in StreamLabels
        BY <3>1 DEF StreamTyped
      <4> QED
        BY <4>1 DEF Open, OpenAt, StreamLabels
    <3>3. \A u \in Streams : OpenAt(stage'[u]) = G[u]
      BY <1>1
    <3> QED
      BY <3>2, <3>3
  <2>5. metrics.attempts = metrics.successes + metrics.failures + unsettled + A
    BY <2>3 DEF StreamInv, MetricsBalance
  <2>6. /\ metrics'.attempts + OpenAt(stage[s]) + metrics.successes + metrics.failures + unsettled
             = metrics.attempts + OpenAt(l) + metrics'.successes + metrics'.failures + unsettled'
        /\ metrics \in StreamMetrics /\ metrics' \in StreamMetrics /\ unsettled \in Nat /\ unsettled' \in Nat
    BY DEF StreamMoves, Balanced, StreamInv, StreamTyped
  <2>7. metrics'.attempts = metrics'.successes + metrics'.failures + unsettled' + B
    <3> DEFINE a  == metrics.attempts   c  == metrics.successes   f0 == metrics.failures
               a1 == metrics'.attempts  c1 == metrics'.successes  f1 == metrics'.failures
               m  == OpenAt(stage[s])      n  == OpenAt(l)
               x  == unsettled          x1 == unsettled'
    <3>1. /\ a \in Nat /\ c \in Nat /\ f0 \in Nat /\ a1 \in Nat /\ c1 \in Nat /\ f1 \in Nat
          /\ m \in Nat /\ n \in Nat /\ x \in Nat /\ x1 \in Nat
      BY <2>6, Amounts DEF StreamMetrics
    <3>2. A \in Nat /\ B \in Nat /\ B + m = A + n
      BY <2>1, <2>2
    <3>3. a = c + f0 + x + A
      BY <2>5
    <3>4. a1 + m + c + f0 + x = a + n + c1 + f1 + x1
      BY <2>6
    <3> HIDE DEF A, B, F, G, a, c, f0, a1, c1, f1, m, n, x, x1
    <3>5. a1 = c1 + f1 + x1 + B
      BY <3>1, <3>2, <3>3, <3>4, AttemptsCarry
    <3> QED
      BY <3>5 DEF a1, c1, f1, x1
  <2> HIDE DEF F, G
  <2> QED
    BY <2>4, <2>7 DEF MetricsBalance
<1> QED
  BY <1>4, <1>5

LEMMA StreamStepKeeps ==
    ASSUME IsFiniteSet(Streams), MaxInflight \in Nat, StreamInv, NEW s \in Streams, StreamStepOK(s)
    PROVE  StreamInv'
<1>1. PICK l \in StreamLabels, p \in {"primary", "fallback"}, f \in BOOLEAN, o \in StreamOutcomes,
           d \in Seq({"primary", "fallback"}), b \in Budget : StreamMoves(s, l, p, f, o, d, b)
  BY DEF StreamStepOK
<1>2. /\ StreamTyped' /\ \A u \in Streams : held'[u] = HeldAt(stage'[u])
      /\ \A u \in Streams : SentOK(stage'[u], fresh'[u], deltas'[u], outcome'[u])
  BY <1>1, StreamStepTyped
<1>3. RowsStand'
  BY <1>1, StreamStepRows
<1>4. slots' + Cardinality(Units(held')) = MaxInflight /\ MetricsBalance'
  BY <1>1, StreamStepSums
<1>5. Cardinality(Units(held'))  = Cardinality(Units(held))'
  BY DEF Units
<1> QED
  BY <1>2, <1>3, <1>4, <1>5 DEF StreamInv

LEMMA StreamUnchanged ==
    ASSUME StreamInv, UNCHANGED <<slots, held, stage, provider, deltas, fresh, metrics, unsettled, outcome, cache>>,
           budget' \in [Streams -> Budget]
    PROVE  StreamInv'
<1>1. StreamTyped'
  BY DEF StreamInv, StreamTyped
<1>2. /\ \A s \in Streams : held'[s] = HeldAt(stage'[s])
      /\ \A s \in Streams : SentOK(stage'[s], fresh'[s], deltas'[s], outcome'[s])
      /\ RowsStand'
  BY DEF StreamInv, RowsStand
<1>3. Cardinality(Units(held))' = Cardinality(Units(held))
  BY DEF Units
<1>4. [s \in Streams |-> Open(s)]' = [s \in Streams |-> Open(s)]
  BY DEF Open
<1>5. MetricsBalance'
  BY <1>4 DEF StreamInv, MetricsBalance
<1> QED
  BY <1>1, <1>2, <1>3, <1>5 DEF StreamInv

LEMMA StreamExpire ==
    ASSUME StreamInv, NEW s \in Streams, Expire(s)
    PROVE  StreamInv'
<1>0. budget \in [Streams -> Budget]
  BY DEF StreamInv, StreamTyped
<1>1. budget' \in [Streams -> Budget]
  BY <1>0 DEF Expire, Budget
<1> QED
  BY <1>1, StreamUnchanged DEF Expire

LEMMA StreamInitInv ==
    ASSUME IsFiniteSet(Streams), MaxInflight \in Nat, MaxDeltas \in Nat, StreamInit
    PROVE  StreamInv
<1>1. StreamTyped
  <2>1. NewBudget \in Budget
    BY DEF NewBudget, Budget
  <2>2. <<>> \in Seq({"primary", "fallback"}) /\ Len(<<>>) <= MaxDeltas
    OBVIOUS
  <2>3. metrics \in StreamMetrics
    BY DEF StreamInit, StreamMetrics
  <2> QED
    BY <2>1, <2>2, <2>3 DEF StreamInit, StreamTyped, StreamLabels, StreamOutcomes
<1>2. /\ \A s \in Streams : held[s] = HeldAt(stage[s])
      /\ \A s \in Streams : SentOK(stage[s], fresh[s], deltas[s], outcome[s])
  BY DEF StreamInit, HeldAt, SentOK
<1>3. RowsStand
  BY DEF StreamInit, RowsStand
<1>4. Cardinality({}) = 0
  BY FS_EmptySet
<1>5. Units(held) = {}
  BY DEF StreamInit, Units
<1>6. Units([s \in Streams |-> Open(s)]) = {}
  BY DEF StreamInit, Units, Open
<1>7. slots + Cardinality(Units(held)) = MaxInflight
  <2>1. slots = MaxInflight
    BY DEF StreamInit
  <2> QED
    BY <1>4, <1>5, <2>1
<1>8. MetricsBalance
  <2>1. /\ metrics.attempts = 0 /\ metrics.successes = 0 /\ metrics.failures = 0
        /\ unsettled = 0
    BY DEF StreamInit
  <2>2. Cardinality(Units([s \in Streams |-> Open(s)])) = 0
    BY <1>4, <1>6
  <2> QED
    BY <2>1, <2>2 DEF MetricsBalance
<1> QED
  BY <1>1, <1>2, <1>3, <1>7, <1>8 DEF StreamInv

LEMMA StreamNextInv ==
    ASSUME IsFiniteSet(Streams), MaxInflight \in Nat, MaxDeltas \in Nat, StreamCost \in Cost,
           StreamInv, [StreamNext]_streamVars
    PROVE  StreamInv'
<1>1. ASSUME NEW s \in Streams, Step(s)
      PROVE  StreamStepOK(s)
  <2>1. CASE CheckActive(s)
    BY <2>1, CheckActiveStep
  <2>2. CASE TakeSlot(s)
    BY <2>2, TakeSlotStep
  <2>3. CASE QueueTimeout(s)
    BY <2>3, QueueTimeoutStep
  <2>4. CASE Reserve(s)
    BY <2>4, ReserveStep
  <2>5. CASE Finish(s)
    BY <2>5, FinishStep
  <2>6. CASE Abort(s)
    BY <2>6, AbortStep
  <2>7. CASE StoreResult(s)
    BY <2>7, StoreResultStep
  <2>8. CASE Delta(s)
    BY <2>8, DeltaStep
  <2>9. CASE CallAnswers(s)
    BY <2>9, AnswerStep
  <2>10. CASE ClientReads(s)
    BY <2>10, OnwardStep DEF ClientReads, Goto
  <2>11. CASE ClientGone(s)
    BY <2>11, ClientGoneStep
  <2>12. ASSUME NEW told, EndOfStream(s, told)
         PROVE  StreamStepOK(s)
    BY <2>12, OnwardStep DEF EndOfStream, Goto
  <2>13. ASSUME NEW told, Break(s, told)
         PROVE  StreamStepOK(s)
    BY <2>13, BreakStep
  <2> QED
    BY <1>1, <2>1, <2>2, <2>3, <2>4, <2>5, <2>6, <2>7, <2>8, <2>9, <2>10, <2>11, <2>12, <2>13
    DEF Step, OwnStep
<1>2. ASSUME UNCHANGED streamVars PROVE StreamInv'
  BY <1>2, StreamUnchanged DEF streamVars, StreamInv, StreamTyped
<1>3. ASSUME NEW s \in Streams, Step(s) PROVE StreamInv'
  BY <1>1, <1>3, StreamStepKeeps
<1>4. ASSUME NEW s \in Streams, Expire(s) PROVE StreamInv'
  BY <1>4, StreamExpire
<1> QED
  BY <1>2, <1>3, <1>4 DEF StreamNext, Done

LEMMA StreamInvariance == StreamSpec => []StreamInv
<1>1. /\ IsFiniteSet(Streams) /\ MaxInflight \in Nat /\ MaxDeltas \in Nat
      /\ StreamCost \in Cost
  BY StreamAssumption
<1>2. StreamInit => StreamInv
  BY <1>1, StreamInitInv
<1>3. StreamInv /\ [StreamNext]_streamVars => StreamInv'
  BY <1>1, StreamNextInv
<1> QED
  BY <1>2, <1>3, PTL DEF StreamSpec

\* translate_text_stream and the call inside it: permits are conserved, and a
\* stream that has ended, by any of its exits, holds none.
THEOREM StreamSlotsAreConserved == StreamSpec => []SlotsConserved
<1>1. StreamInv => SlotsConserved
  BY DEF StreamInv, SlotsConserved, HeldAt
<1> QED
  BY <1>1, StreamInvariance, PTL

\* _record_provider_call: every counted attempt is settled once, or is a body
\* without deltas or a client that went away.
THEOREM StreamMetricsBalance == StreamSpec => []MetricsBalance
<1>1. StreamInv => MetricsBalance
  BY DEF StreamInv
<1> QED
  BY <1>1, StreamInvariance, PTL

\* The variables of the streams keep their types; that the semaphore stays
\* between 0 and its limit needs the accounting.
THEOREM StreamTypeCorrect == StreamSpec => []StreamTypeOK
<1>1. ASSUME StreamInv
      PROVE  StreamTypeOK
  <2>1. slots \in 0 .. MaxInflight
    <3>1. /\ IsFiniteSet(Streams) /\ MaxInflight \in Nat /\ slots \in Nat
          /\ slots + Cardinality(Units(held)) = MaxInflight
      BY <1>1, StreamAssumption DEF StreamInv, StreamTyped
    <3>2. Cardinality(Units(held)) \in Nat
      <4>1. Units(held) \subseteq Streams \X (1 .. 2)
        BY DEF Units
      <4>2. IsFiniteSet(1 .. 2)
        <5>1. 1 \in Int /\ 2 \in Int
          OBVIOUS
        <5> QED
          BY <5>1, FS_Interval
      <4>3. IsFiniteSet(Streams \X (1 .. 2))
        BY <3>1, <4>2, FS_Product
      <4> QED
        BY <4>1, <4>3, FS_Subset, FS_CardinalityType
    <3> QED
      BY <3>1, <3>2
  <2> QED
    BY <1>1, <2>1
    DEF StreamInv, StreamTyped, StreamTypeOK, StreamLabels, StreamOutcomes, Providers
<1>2. StreamInv => StreamTypeOK
  BY <1>1
<1> QED
  BY <1>2, StreamInvariance, PTL
-----------------------------------------------------------------------------
(* The streamed translation: what the providers said of what was sent.      *)

Answers == {"ok", "transient", "rate_limited"}
Told == {"primary", "fallback"} \X Answers
Early == {"check", "queued", "reserve"}
Inside == {"icheck", "iqueued", "ireserve", "inflight"}

\* The provider of the loop has ended its answer.
Ended(s) ==
    \/ stage[s] \in {"exhausted", "caching"}
    \/ stage[s] = "deliver" /\ provider[s] \notin OpenAi
Turn(s) == IF provider[s] = "primary" THEN 0 ELSE 1

\* Which providers were heard, by the place of the stream; what was sent under
\* yielded_any is by the present one, and the rest by the other, which broke.
HeardOK(s) ==
    /\ stage[s] \in Inside => provider[s] \notin OpenAi
    /\ stage[s] = "reading" => provider[s] \in OpenAi
    /\ stage[s] \in Early \cup Inside => ~fresh[s]
    /\ fresh[s] => deltas[s] # <<>> /\ deltas[s][Len(deltas[s])] = provider[s]
    /\ provider[s] = "primary" /\ ~fresh[s] => deltas[s] = <<>>
    /\ stage[s] # "done" => Len(calls[s]) = Turn(s) + (IF Ended(s) THEN 1 ELSE 0)
    /\ Ended(s) /\ fresh[s] => calls[s][Len(calls[s])] = <<provider[s], "ok">>
    /\ outcome[s] = "translated" =>
         fresh[s] /\ Len(calls[s]) = Turn(s) + 1 /\ calls[s][Len(calls[s])] = <<provider[s], "ok">>
    /\ \A i \in DOMAIN deltas[s] : deltas[s][i] # provider[s] =>
         provider[s] = "fallback" /\ Len(calls[s]) >= 1 /\ calls[s][1] = <<deltas[s][i], "transient">>

HeardInv ==
    /\ calls \in [Streams -> Seq(Told)]
    /\ \A s \in Streams : HeardOK(s)
    /\ \A row \in cache : row.scope = provider[row.stream]

\* A list that got one more element.
LEMMA Longer ==
    ASSUME NEW S, NEW l \in Seq(S), NEW e \in S
    PROVE  /\ Append(l, e) \in Seq(S) /\ Len(Append(l, e)) = Len(l) + 1 /\ Len(l) \in Nat
           /\ Append(l, e) # <<>> /\ DOMAIN l = 1 .. Len(l)
           /\ DOMAIN Append(l, e) = 1 .. Len(l) + 1
           /\ Append(l, e)[Len(l) + 1] = e /\ \A i \in 1 .. Len(l) : Append(l, e)[i] = l[i]
OBVIOUS

\* A step of one stream that writes no row leaves the others and the rows.
LEMMA HeardMoves ==
    ASSUME StreamInv, HeardInv, NEW s \in Streams, stage[s] # "done",
           NEW l, stage' = [stage EXCEPT ![s] = l],
           NEW p, provider' = [provider EXCEPT ![s] = p],
           NEW f, fresh' = [fresh EXCEPT ![s] = f],
           NEW d, deltas' = [deltas EXCEPT ![s] = d],
           NEW c \in Seq(Told), calls' = [calls EXCEPT ![s] = c],
           NEW o, outcome' = [outcome EXCEPT ![s] = o],
           \A row \in cache' \ cache : row.stream = s /\ row.scope = p,
           HeardOK(s)'
    PROVE  HeardInv'
<1>1. calls' \in [Streams -> Seq(Told)]
  BY DEF HeardInv
<1>2. ASSUME NEW u \in Streams, u # s PROVE HeardOK(u)'
  <2>1. /\ stage'[u] = stage[u] /\ provider'[u] = provider[u] /\ fresh'[u] = fresh[u]
        /\ deltas'[u] = deltas[u] /\ calls'[u] = calls[u] /\ outcome'[u] = outcome[u]
    BY <1>2 DEF HeardInv, StreamInv, StreamTyped
  <2>2. HeardOK(u)
    BY DEF HeardInv
  <2> QED
    BY <2>1, <2>2 DEF HeardOK, Ended, Turn
<1>3. ASSUME NEW row \in cache' PROVE row.scope = provider'[row.stream]
  <2>1. CASE row \in cache
    <3>1. row.stream \in Streams /\ row.stream # s /\ row.scope = provider[row.stream]
      BY <2>1 DEF StreamInv, StreamTyped, RowsStand, SentOK, HeardInv
    <3> QED
      BY <3>1 DEF StreamInv, StreamTyped
  <2>2. CASE row \notin cache
    BY <1>3, <2>2 DEF StreamInv, StreamTyped
  <2> QED
    BY <2>1, <2>2
<1> QED
  BY <1>1, <1>2, <1>3 DEF HeardInv

LEMMA HeardFacts ==
    ASSUME StreamInv, HeardInv, NEW s \in Streams
    PROVE  /\ HeardOK(s) /\ stage[s] \in StreamLabels /\ provider[s] \in {"primary", "fallback"}
           /\ fresh[s] \in BOOLEAN /\ deltas[s] \in Seq({"primary", "fallback"})
           /\ calls[s] \in Seq(Told) /\ Len(calls[s]) \in Nat
           /\ (outcome[s] = "translated" => stage[s] = "done")
           /\ (stage[s] = "caching" => fresh[s])
           /\ stage = [stage EXCEPT ![s] = stage[s]] /\ provider = [provider EXCEPT ![s] = provider[s]]
           /\ fresh = [fresh EXCEPT ![s] = fresh[s]] /\ deltas = [deltas EXCEPT ![s] = deltas[s]]
           /\ calls = [calls EXCEPT ![s] = calls[s]] /\ outcome = [outcome EXCEPT ![s] = outcome[s]]
           /\ DOMAIN stage = Streams /\ DOMAIN provider = Streams /\ DOMAIN fresh = Streams
           /\ DOMAIN deltas = Streams /\ DOMAIN calls = Streams /\ DOMAIN outcome = Streams
<1>1. calls[s] \in Seq(Told)
  BY DEF HeardInv
<1>2. Len(calls[s]) \in Nat
  BY <1>1
<1> QED
  BY <1>1, <1>2 DEF StreamInv, StreamTyped, SentOK, HeardInv

\* Only the place changes.
LEMMA HeardGoesOn ==
    ASSUME StreamInv, HeardInv, NEW s \in Streams, stage[s] # "done",
           NEW l \in StreamLabels \ {"done"}, stage' = [stage EXCEPT ![s] = l],
           UNCHANGED <<provider, deltas, fresh, calls, outcome, cache>>,
           l \in Early \cup Inside => stage[s] \in Early \cup Inside,
           l \in Inside => provider[s] \notin OpenAi,
           l = "reading" => provider[s] \in OpenAi,
           (l \in {"exhausted", "caching"} \/ (l = "deliver" /\ provider[s] \notin OpenAi)) = Ended(s)
    PROVE  HeardInv'
<1>1. /\ stage'[s] = l /\ provider'[s] = provider[s] /\ deltas'[s] = deltas[s] /\ fresh'[s] = fresh[s]
      /\ calls'[s] = calls[s] /\ outcome'[s] = outcome[s]
  BY HeardFacts
<1>2. Ended(s)' = Ended(s) /\ Turn(s)' = Turn(s)
  BY <1>1 DEF Ended, Turn
<1>3. HeardOK(s)'
  BY <1>1, <1>2, HeardFacts DEF HeardOK
<1> QED
  BY <1>3, HeardFacts, HeardMoves

\* The stream is over, and nothing is written.
LEMMA HeardRaise ==
    ASSUME StreamInv, HeardInv, NEW s \in Streams, stage[s] # "done",
           NEW reason, reason # "translated", Raise(s, reason), UNCHANGED <<deltas, cache>>,
           \/ calls' = calls
           \/ \E told \in Answers : Hear(s, told)
    PROVE  HeardInv'
<1>1. /\ stage' = [stage EXCEPT ![s] = "done"] /\ outcome' = [outcome EXCEPT ![s] = reason]
      /\ provider' = provider /\ fresh' = fresh
  BY DEF Raise, Goto
<1>2. PICK c \in Seq(Told) :
        /\ calls' = [calls EXCEPT ![s] = c]
        /\ Len(calls[s]) >= 1 => Len(c) >= 1 /\ c[1] = calls[s][1]
  <2>1. CASE calls' = calls
    BY <2>1, HeardFacts
  <2>2. CASE \E told \in Answers : Hear(s, told)
    <3>1. PICK told \in Answers : calls' = [calls EXCEPT ![s] = Append(calls[s], <<provider[s], told>>)]
      BY <2>2 DEF Hear
    <3>2. <<provider[s], told>> \in Told
      BY HeardFacts DEF Told
    <3> DEFINE c == Append(calls[s], <<provider[s], told>>)
    <3>3. /\ c \in Seq(Told) /\ Len(c) = Len(calls[s]) + 1 /\ Len(calls[s]) \in Nat
          /\ \A i \in 1 .. Len(calls[s]) : c[i] = calls[s][i]
      BY <3>2, HeardFacts, Longer
    <3>4. calls' = [calls EXCEPT ![s] = c]
      BY <3>1
    <3> HIDE DEF c
    <3>5. Len(calls[s]) >= 1 => Len(c) >= 1 /\ c[1] = calls[s][1]
      BY <3>3
    <3> QED
      BY <3>3, <3>4, <3>5
  <2> QED
    BY <2>1, <2>2
<1>3. /\ stage'[s] = "done" /\ provider'[s] = provider[s] /\ deltas'[s] = deltas[s] /\ fresh'[s] = fresh[s]
      /\ calls'[s] = c /\ outcome'[s] = reason
  BY <1>1, <1>2, HeardFacts
<1>4. ~Ended(s)'
  BY <1>3 DEF Ended
<1>5. HeardOK(s)'
  BY <1>2, <1>3, <1>4, HeardFacts DEF HeardOK, Early, Inside
<1>6. /\ provider' = [provider EXCEPT ![s] = provider[s]] /\ fresh' = [fresh EXCEPT ![s] = fresh[s]]
      /\ deltas' = [deltas EXCEPT ![s] = deltas[s]] /\ cache' = cache
  BY <1>1, HeardFacts
<1>7. calls' = [calls EXCEPT ![s] = c] /\ c \in Seq(Told)
  BY <1>2
<1> QED
  BY <1>1, <1>5, <1>6, <1>7, HeardMoves

\* The loop goes on to the second provider: what was sent before came from one
\* that broke, and if nothing was sent, from none.
LEMMA HeardNext ==
    ASSUME StreamInv, HeardInv, NEW s \in Streams, stage[s] # "done", NextProvider(s),
           UNCHANGED <<deltas, cache>>,
           NEW c \in Seq(Told), calls' = [calls EXCEPT ![s] = c],
           Len(c) = Turn(s) + 1,
           provider[s] = "primary" /\ deltas[s] # <<>> => c[1] = <<"primary", "transient">>,
           provider[s] = "fallback" /\ Len(calls[s]) >= 1 => c[1] = calls[s][1]
    PROVE  HeardInv'
<1>1. CASE provider[s] = "primary" /\ HasFallback
  <2>1. /\ stage' = [stage EXCEPT ![s] = "check"] /\ provider' = [provider EXCEPT ![s] = "fallback"]
        /\ fresh' = [fresh EXCEPT ![s] = FALSE] /\ outcome' = outcome
        /\ deltas' = deltas /\ cache' = cache
    BY <1>1 DEF NextProvider, Goto
  <2>2. /\ stage'[s] = "check" /\ provider'[s] = "fallback" /\ deltas'[s] = deltas[s] /\ fresh'[s] = FALSE
        /\ calls'[s] = c /\ outcome'[s] = outcome[s] /\ outcome[s] # "translated"
    BY <2>1, HeardFacts
  <2>3. ~Ended(s)' /\ Turn(s)' = 1 /\ Turn(s) = 0
    BY <1>1, <2>2 DEF Ended, Turn
  <2>4. \A i \in DOMAIN deltas[s] : deltas[s][i] = "primary" /\ deltas[s] # <<>>
    BY <1>1, HeardFacts DEF HeardOK
  <2>5. HeardOK(s)'
    <3>0. Len(c) = 1 /\ 1 >= 1
      BY <2>3
    <3>1. Len(c) = 1 /\ Len(c) >= 1 /\ stage'[s] # "done" /\ "check" \notin Inside
      BY <2>2, <3>0, Zenon DEF Inside
    <3>2. ASSUME NEW i \in DOMAIN deltas[s] PROVE c[1] = <<deltas[s][i], "transient">>
      BY <1>1, <2>4
    <3>3. \A i \in DOMAIN deltas'[s] : deltas'[s][i] # provider'[s] =>
            provider'[s] = "fallback" /\ Len(calls'[s]) >= 1 /\ calls'[s][1] = <<deltas'[s][i], "transient">>
      <4>1. provider'[s] = "fallback" /\ Len(calls'[s]) >= 1
        BY <2>2, <3>1, Zenon
      <4> QED
        BY <2>2, <3>2, <4>1, Zenon
    <3>4. Len(calls'[s]) = Turn(s)' + (IF Ended(s)' THEN 1 ELSE 0)
      BY <2>2, <2>3, <3>1
    <3> QED
      BY <2>2, <2>3, <3>1, <3>3, <3>4 DEF HeardOK
  <2>6. deltas' = [deltas EXCEPT ![s] = deltas[s]] /\ outcome' = [outcome EXCEPT ![s] = outcome[s]]
    BY <2>1, HeardFacts
  <2> QED
    BY <2>1, <2>5, <2>6, HeardMoves
<1>2. CASE ~(provider[s] = "primary" /\ HasFallback)
  <2>1. /\ stage' = [stage EXCEPT ![s] = "done"] /\ outcome' = [outcome EXCEPT ![s] = "provider_unavailable"]
        /\ provider' = provider /\ fresh' = fresh /\ deltas' = deltas /\ cache' = cache
    BY <1>2 DEF NextProvider, Raise, Goto
  <2>2. /\ stage'[s] = "done" /\ provider'[s] = provider[s] /\ deltas'[s] = deltas[s] /\ fresh'[s] = fresh[s]
        /\ calls'[s] = c /\ outcome'[s] = "provider_unavailable"
    BY <2>1, HeardFacts
  <2>3. ~Ended(s)'
    BY <2>2 DEF Ended
  <2>4. \A i \in DOMAIN deltas[s] : deltas[s][i] # provider[s] =>
          provider[s] = "fallback" /\ Len(calls[s]) >= 1 /\ calls[s][1] = <<deltas[s][i], "transient">>
    BY HeardFacts DEF HeardOK
  <2>5. Len(c) >= 1
    BY DEF Turn
  <2>6. HeardOK(s)'
    BY <2>2, <2>3, <2>4, <2>5, HeardFacts DEF HeardOK, Early, Inside
  <2>7. /\ provider' = [provider EXCEPT ![s] = provider[s]] /\ fresh' = [fresh EXCEPT ![s] = fresh[s]]
        /\ deltas' = [deltas EXCEPT ![s] = deltas[s]]
    BY <2>1, HeardFacts
  <2> QED
    BY <2>1, <2>6, <2>7, HeardMoves
<1> QED
  BY <1>1, <1>2

\* The list of answers after one more.
LEMMA Hearing ==
    ASSUME StreamInv, HeardInv, NEW s \in Streams, NEW told \in Answers, Hear(s, told)
    PROVE  \E c \in Seq(Told) :
             /\ calls' = [calls EXCEPT ![s] = c] /\ Len(c) = Len(calls[s]) + 1 /\ Len(calls[s]) \in Nat
             /\ c[Len(c)] = <<provider[s], told>> /\ (Len(calls[s]) >= 1 => c[1] = calls[s][1])
             /\ (Len(calls[s]) = 0 => c[1] = <<provider[s], told>>)
<1> DEFINE c == Append(calls[s], <<provider[s], told>>)
<1>1. <<provider[s], told>> \in Told
  BY HeardFacts DEF Told
<1>2. /\ c \in Seq(Told) /\ Len(c) = Len(calls[s]) + 1 /\ Len(calls[s]) \in Nat
      /\ \A i \in 1 .. Len(calls[s]) : c[i] = calls[s][i]
      /\ c[Len(calls[s]) + 1] = <<provider[s], told>>
  BY <1>1, HeardFacts, Longer
<1>3. calls' = [calls EXCEPT ![s] = c]
  BY DEF Hear
<1> HIDE DEF c
<1>4. /\ c[Len(c)] = <<provider[s], told>> /\ (Len(calls[s]) >= 1 => c[1] = calls[s][1])
      /\ (Len(calls[s]) = 0 => c[1] = <<provider[s], told>>)
  BY <1>2
<1> QED
  BY <1>2, <1>3, <1>4

\* Something is sent: a line of the body, or the answer of the call inside.
LEMMA HeardSends ==
    ASSUME StreamInv, HeardInv, NEW s \in Streams, stage[s] \in {"reading", "inflight"},
           deltas' = [deltas EXCEPT ![s] = Append(@, provider[s])],
           fresh' = [fresh EXCEPT ![s] = TRUE], stage' = [stage EXCEPT ![s] = "deliver"],
           UNCHANGED <<provider, outcome, cache>>,
           IF stage[s] = "reading" THEN calls' = calls ELSE Hear(s, "ok")
    PROVE  HeardInv'
<1> DEFINE d == Append(deltas[s], provider[s])
<1>1. /\ HeardOK(s) /\ outcome[s] # "translated" /\ provider[s] \in {"primary", "fallback"}
      /\ calls[s] \in Seq(Told) /\ Len(calls[s]) \in Nat
  BY HeardFacts
<1>0. ~Ended(s) /\ Turn(s) \in {0, 1}
  BY DEF Ended, Turn
<1>2. /\ Len(d) = Len(deltas[s]) + 1 /\ d # <<>> /\ DOMAIN d = 1 .. Len(deltas[s]) + 1
      /\ d[Len(d)] = provider[s] /\ Len(deltas[s]) \in Nat
      /\ \A i \in DOMAIN deltas[s] : d[i] = deltas[s][i] /\ DOMAIN deltas[s] = 1 .. Len(deltas[s])
  <2>1. deltas[s] \in Seq({"primary", "fallback"}) /\ provider[s] \in {"primary", "fallback"}
    BY HeardFacts
  <2>2. /\ d \in Seq({"primary", "fallback"}) /\ Len(d) = Len(deltas[s]) + 1 /\ Len(deltas[s]) \in Nat
        /\ d # <<>> /\ DOMAIN deltas[s] = 1 .. Len(deltas[s]) /\ DOMAIN d = 1 .. Len(deltas[s]) + 1
        /\ d[Len(deltas[s]) + 1] = provider[s] /\ \A i \in 1 .. Len(deltas[s]) : d[i] = deltas[s][i]
    BY <2>1, Longer
  <2> HIDE DEF d
  <2>3. d[Len(d)] = provider[s]
    BY <2>2
  <2> QED
    BY <2>2, <2>3
<1>3. deltas' = [deltas EXCEPT ![s] = d]
  OBVIOUS
<1> HIDE DEF d
<1>4. PICK c \in Seq(Told) :
        /\ calls' = [calls EXCEPT ![s] = c]
        /\ Len(c) = Turn(s) + (IF stage[s] = "reading" THEN 0 ELSE 1)
        /\ stage[s] # "reading" => c[Len(c)] = <<provider[s], "ok">>
        /\ Len(calls[s]) >= 1 => Len(c) >= 1 /\ c[1] = calls[s][1]
  <2>1. Len(calls[s]) = Turn(s)
    <3>1. Len(calls[s]) = Turn(s) + (IF Ended(s) THEN 1 ELSE 0)
      BY <1>1 DEF HeardOK
    <3> QED
      BY <1>0, <3>1
  <2>2. CASE stage[s] = "reading"
    <3>1. /\ calls' = [calls EXCEPT ![s] = calls[s]] /\ Len(calls[s]) = Turn(s) + 0
          /\ calls[s] \in Seq(Told)
      BY <1>0, <1>1, <2>1, <2>2, HeardFacts
    <3> QED
      BY <2>2, <3>1
  <2>3. CASE stage[s] # "reading"
    <3>1. "ok" \in Answers
      BY DEF Answers
    <3>2. Hear(s, "ok")
      BY <2>3
    <3>3. PICK c \in Seq(Told) :
             /\ calls' = [calls EXCEPT ![s] = c] /\ Len(c) = Len(calls[s]) + 1 /\ Len(calls[s]) \in Nat
             /\ c[Len(c)] = <<provider[s], "ok">> /\ (Len(calls[s]) >= 1 => c[1] = calls[s][1])
      BY <3>1, <3>2, Hearing
    <3>4. Len(c) = Turn(s) + 1 /\ (Len(calls[s]) >= 1 => Len(c) >= 1)
      BY <1>0, <2>1, <3>3
    <3> QED
      BY <2>3, <3>3, <3>4
  <2> QED
    BY <2>2, <2>3
<1>5. /\ stage'[s] = "deliver" /\ provider'[s] = provider[s] /\ deltas'[s] = d /\ fresh'[s] = TRUE
      /\ calls'[s] = c /\ outcome'[s] = outcome[s]
  BY <1>3, <1>4, HeardFacts
<1>6. /\ Turn(s)' = Turn(s) /\ (Ended(s)' <=> stage[s] # "reading")
  BY <1>1, <1>5 DEF Turn, Ended, HeardOK, Inside
<1>7. ASSUME NEW i \in DOMAIN d, d[i] # provider[s]
      PROVE  provider[s] = "fallback" /\ Len(c) >= 1 /\ c[1] = <<d[i], "transient">>
  <2>1. i \in DOMAIN deltas[s] /\ d[i] = deltas[s][i]
    BY <1>2, <1>7
  <2> QED
    BY <1>1, <1>4, <1>7, <2>1 DEF HeardOK
<1>8. HeardOK(s)'
  BY <1>1, <1>2, <1>4, <1>5, <1>6, <1>7 DEF HeardOK, Early, Inside
<1>9. /\ provider' = [provider EXCEPT ![s] = provider[s]] /\ outcome' = [outcome EXCEPT ![s] = outcome[s]]
      /\ cache' = cache
  BY HeardFacts
<1>10. calls' = [calls EXCEPT ![s] = c] /\ c \in Seq(Told)
  BY <1>4
<1> QED
  BY <1>3, <1>8, <1>9, <1>10, HeardMoves

\* The body ends.
LEMMA HeardEnd ==
    ASSUME StreamInv, HeardInv, NEW s \in Streams, NEW told \in Answers, EndOfStream(s, told)
    PROVE  HeardInv'
<1>1. /\ stage[s] = "reading" /\ (told # "ok" => ~fresh[s]) /\ Hear(s, told)
      /\ stage' = [stage EXCEPT ![s] = "exhausted"]
      /\ UNCHANGED <<provider, deltas, fresh, outcome, cache>>
  BY DEF EndOfStream, Goto
<1>2. /\ HeardOK(s) /\ outcome[s] # "translated" /\ ~Ended(s) /\ Turn(s) \in {0, 1}
  BY <1>1, HeardFacts DEF Ended, Turn
<1>3. PICK c \in Seq(Told) :
        /\ calls' = [calls EXCEPT ![s] = c] /\ Len(c) = Len(calls[s]) + 1 /\ Len(calls[s]) \in Nat
        /\ c[Len(c)] = <<provider[s], told>> /\ (Len(calls[s]) >= 1 => c[1] = calls[s][1])
  BY <1>1, Hearing
<1>4. /\ stage'[s] = "exhausted" /\ provider'[s] = provider[s] /\ deltas'[s] = deltas[s]
      /\ fresh'[s] = fresh[s] /\ calls'[s] = c /\ outcome'[s] = outcome[s]
  BY <1>1, <1>3, HeardFacts
<1>5. Turn(s)' = Turn(s) /\ Ended(s)'
  BY <1>4 DEF Turn, Ended
<1>6. Len(c) = Turn(s) + 1
  <2>1. Len(calls[s]) = Turn(s) + (IF Ended(s) THEN 1 ELSE 0)
    BY <1>1, <1>2 DEF HeardOK
  <2> QED
    BY <1>2, <1>3, <2>1
<1>7. \A i \in DOMAIN deltas[s] : deltas[s][i] # provider[s] =>
        provider[s] = "fallback" /\ Len(c) >= 1 /\ c[1] = <<deltas[s][i], "transient">>
  BY <1>2, <1>3 DEF HeardOK
<1>8. fresh[s] => c[Len(c)] = <<provider[s], "ok">>
  BY <1>1, <1>3
<1>9. HeardOK(s)'
  BY <1>2, <1>4, <1>5, <1>6, <1>7, <1>8 DEF HeardOK, Early, Inside
<1>10. /\ provider' = [provider EXCEPT ![s] = provider[s]] /\ outcome' = [outcome EXCEPT ![s] = outcome[s]]
       /\ fresh' = [fresh EXCEPT ![s] = fresh[s]] /\ deltas' = [deltas EXCEPT ![s] = deltas[s]]
       /\ cache' = cache /\ stage[s] # "done"
  BY <1>1, HeardFacts
<1>11. calls' = [calls EXCEPT ![s] = c] /\ c \in Seq(Told)
  BY <1>3
<1> QED
  BY <1>1, <1>9, <1>10, <1>11, HeardMoves

\* The rows are written, all of them under the provider of the loop.
LEMMA HeardStores ==
    ASSUME StreamInv, HeardInv, NEW s \in Streams, StoreResult(s)
    PROVE  HeardInv'
<1>1. /\ stage[s] = "caching" /\ Ended(s) /\ fresh[s] /\ HeardOK(s)
      /\ stage' = [stage EXCEPT ![s] = "done"] /\ outcome' = [outcome EXCEPT ![s] = "translated"]
      /\ UNCHANGED <<provider, fresh, deltas, calls>>
  BY HeardFacts DEF StoreResult, Raise, Goto, Ended
<1>2. \A row \in cache' \ cache : row.stream = s /\ row.scope = provider[s]
  BY DEF StoreResult
<1>3. /\ stage'[s] = "done" /\ provider'[s] = provider[s] /\ deltas'[s] = deltas[s]
      /\ fresh'[s] = fresh[s] /\ calls'[s] = calls[s] /\ outcome'[s] = "translated"
  BY <1>1, HeardFacts
<1>4. Turn(s)' = Turn(s) /\ ~Ended(s)'
  BY <1>3 DEF Turn, Ended
<1>5. Len(calls[s]) = Turn(s) + 1 /\ calls[s][Len(calls[s])] = <<provider[s], "ok">>
  BY <1>1 DEF HeardOK
<1>6. HeardOK(s)'
  BY <1>1, <1>3, <1>4, <1>5 DEF HeardOK, Early, Inside
<1>7. /\ provider' = [provider EXCEPT ![s] = provider[s]] /\ fresh' = [fresh EXCEPT ![s] = fresh[s]]
      /\ deltas' = [deltas EXCEPT ![s] = deltas[s]] /\ calls' = [calls EXCEPT ![s] = calls[s]]
      /\ calls[s] \in Seq(Told) /\ stage[s] # "done"
  BY <1>1, HeardFacts
<1> QED
  BY <1>1, <1>2, <1>6, <1>7, HeardMoves

\* The provider breaks, or refuses the call inside.  What was sent before was
\* sent by a primary that answered with deltas, and such a one breaks with
\* "transient".
LEMMA HeardBreak ==
    ASSUME StreamInv, HeardInv, NEW s \in Streams, NEW told \in {"transient", "rate_limited"},
           Break(s, told)
    PROVE  HeardInv'
<1>1. /\ stage[s] \in {"reading", "inflight"} /\ (stage[s] = "reading" => told = "transient")
      /\ Hear(s, told) /\ NextProvider(s) /\ UNCHANGED <<deltas, cache>> /\ told \in Answers
  BY DEF Break, Answers
<1>2. /\ HeardOK(s) /\ ~Ended(s) /\ Turn(s) \in {0, 1} /\ stage[s] # "done"
      /\ (provider[s] = "primary" => Turn(s) = 0) /\ (provider[s] = "fallback" => Turn(s) = 1)
  BY <1>1, HeardFacts DEF Ended, Turn
<1>3. PICK c \in Seq(Told) :
        /\ calls' = [calls EXCEPT ![s] = c] /\ Len(c) = Len(calls[s]) + 1 /\ Len(calls[s]) \in Nat
        /\ (Len(calls[s]) >= 1 => c[1] = calls[s][1])
        /\ (Len(calls[s]) = 0 => c[1] = <<provider[s], told>>)
  BY <1>1, Hearing
<1>4. Len(calls[s]) = Turn(s)
  <2>1. Len(calls[s]) = Turn(s) + (IF Ended(s) THEN 1 ELSE 0)
    BY <1>2 DEF HeardOK
  <2> QED
    BY <1>2, <2>1
<1>5. Len(c) = Turn(s) + 1
  BY <1>3, <1>4
<1>6. provider[s] = "primary" => c[1] = <<"primary", told>>
  BY <1>2, <1>3, <1>4
<1>7. deltas[s] # <<>> /\ provider[s] = "primary" => told = "transient"
  BY <1>1, <1>2 DEF HeardOK, Inside
<1>8. provider[s] = "primary" /\ deltas[s] # <<>> => c[1] = <<"primary", "transient">>
  BY <1>6, <1>7
<1>9. c \in Seq(Told) /\ calls' = [calls EXCEPT ![s] = c]
      /\ (provider[s] = "fallback" /\ Len(calls[s]) >= 1 => c[1] = calls[s][1])
  BY <1>3
<1> QED
  BY <1>1, <1>2, <1>5, <1>8, <1>9, HeardNext

\* After the loop over the deltas.
LEMMA HeardFinish ==
    ASSUME StreamInv, HeardInv, NEW s \in Streams, Finish(s)
    PROVE  HeardInv'
<1>1. stage[s] = "exhausted" /\ Ended(s) /\ stage[s] # "done" /\ HeardOK(s) /\ UNCHANGED <<deltas, calls, cache>>
  BY HeardFacts DEF Finish, Ended
<1>2. CASE fresh[s]
  <2>1. stage' = [stage EXCEPT ![s] = "caching"] /\ UNCHANGED <<provider, fresh, outcome>>
    BY <1>2 DEF Finish, Goto
  <2>2. /\ "caching" \in StreamLabels \ {"done"} /\ "caching" \notin Early \cup Inside
        /\ "caching" # "reading" /\ "caching" \notin Inside
    BY DEF StreamLabels, Early, Inside
  <2> QED
    BY <1>1, <2>1, <2>2, HeardGoesOn
<1>3. CASE ~fresh[s]
  <2>1. NextProvider(s)
    BY <1>3 DEF Finish
  <2>2. Len(calls[s]) = Turn(s) + 1 /\ (provider[s] = "primary" => deltas[s] = <<>>)
    BY <1>1, <1>3 DEF HeardOK
  <2>3. calls[s] \in Seq(Told) /\ calls' = [calls EXCEPT ![s] = calls[s]]
    BY <1>1, HeardFacts
  <2> QED
    BY <1>1, <2>1, <2>2, <2>3, HeardNext
<1> QED
  BY <1>2, <1>3

LEMMA HeardStep ==
    ASSUME StreamInv, HeardInv, NEW s \in Streams, Step(s)
    PROVE  HeardInv'
<1> USE DEF Goto
<1>1. CASE CheckActive(s)
  <2>1. CASE Active(budget[s])
    <3>1. PICK l \in {"queued", "iqueued"} :
            /\ stage' = [stage EXCEPT ![s] = l] /\ stage[s] \in {"check", "icheck"}
            /\ (l = "queued") = (stage[s] = "check")
            /\ UNCHANGED <<provider, deltas, fresh, calls, outcome, cache>>
      BY <1>1, <2>1 DEF CheckActive
    <3>2. l = "iqueued" => provider[s] \notin OpenAi
      BY <3>1, HeardFacts DEF HeardOK, Inside
    <3> QED
      BY <3>1, <3>2, HeardGoesOn DEF StreamLabels, Early, Inside, Ended
  <2>2. CASE ~Active(budget[s])
    <3>1. Raise(s, Inactive(budget[s])) /\ UNCHANGED <<deltas, calls, cache>> /\ stage[s] # "done"
      BY <1>1, <2>2 DEF CheckActive
    <3>2. Inactive(budget[s]) # "translated"
      BY <2>2, StreamFacts, StreamInactive, ReasonOutcome
    <3> QED
      BY <3>1, <3>2, HeardRaise
  <2> QED
    BY <2>1, <2>2
<1>2. CASE TakeSlot(s)
  <2>1. PICK l \in {"reserve", "ireserve"} :
          /\ stage' = [stage EXCEPT ![s] = l] /\ stage[s] \in {"queued", "iqueued"}
          /\ (l = "reserve") = (stage[s] = "queued")
          /\ UNCHANGED <<provider, deltas, fresh, calls, outcome, cache>>
    BY <1>2 DEF TakeSlot
  <2>2. l = "ireserve" => provider[s] \notin OpenAi
    BY <2>1, HeardFacts DEF HeardOK, Inside
  <2> QED
    BY <2>1, <2>2, HeardGoesOn DEF StreamLabels, Early, Inside, Ended
<1>3. CASE QueueTimeout(s)
  <2>1. PICK reason \in {"deadline", "queue"} :
          Raise(s, reason) /\ UNCHANGED <<deltas, calls, cache>> /\ stage[s] # "done"
    BY <1>3 DEF QueueTimeout
  <2> QED
    BY <2>1, HeardRaise
<1>4. CASE Reserve(s)
  <2>1. stage[s] \in {"reserve", "ireserve"} /\ UNCHANGED <<deltas, calls, cache>>
    BY <1>4 DEF Reserve
  <2>2. CASE Refusal(budget[s], StreamCost) = "none"
    <3>1. PICK l \in {"inflight", "reading", "icheck"} :
            /\ stage' = [stage EXCEPT ![s] = l]
            /\ l = (IF stage[s] = "ireserve" THEN "inflight"
                    ELSE IF provider[s] \in OpenAi THEN "reading" ELSE "icheck")
            /\ UNCHANGED <<provider, fresh, outcome>>
      BY <1>4, <2>2 DEF Reserve
    <3>2. stage[s] = "ireserve" => provider[s] \notin OpenAi
      BY HeardFacts DEF HeardOK, Inside
    <3> QED
      BY <2>1, <3>1, <3>2, HeardGoesOn DEF StreamLabels, Early, Inside, Ended
  <2>3. CASE Refusal(budget[s], StreamCost) # "none"
    <3>1. Raise(s, Refusal(budget[s], StreamCost)) /\ stage[s] # "done"
      BY <1>4, <2>1, <2>3 DEF Reserve
    <3>2. Refusal(budget[s], StreamCost) # "translated"
      BY <2>3, StreamFacts, StreamRefusal, ReasonOutcome
    <3> QED
      BY <2>1, <3>1, <3>2, HeardRaise
  <2> QED
    BY <2>2, <2>3
<1>5. CASE Abort(s)
  <2>1. /\ Raise(s, Inactive(budget[s])) /\ UNCHANGED <<deltas, calls, cache>> /\ stage[s] # "done"
        /\ ~Active(budget[s])
    BY <1>5 DEF Abort
  <2>2. Inactive(budget[s]) # "translated"
    BY <2>1, StreamFacts, StreamInactive, ReasonOutcome
  <2> QED
    BY <2>1, <2>2, HeardRaise
<1>6. CASE ClientGone(s)
  <2>1. Raise(s, "disconnected") /\ UNCHANGED <<deltas, calls, cache>> /\ stage[s] # "done"
    BY <1>6 DEF ClientGone
  <2> QED
    BY <2>1, HeardRaise
<1>7. CASE Delta(s)
  BY <1>7, HeardSends DEF Delta
<1>8. CASE CallAnswers(s)
  BY <1>8, HeardSends DEF CallAnswers
<1>9. CASE ClientReads(s)
  <2>1. stage[s] = "deliver" /\ UNCHANGED <<provider, deltas, fresh, calls, outcome, cache>>
    BY <1>9 DEF ClientReads
  <2>2. CASE provider[s] \in OpenAi
    <3>1. stage' = [stage EXCEPT ![s] = "reading"]
      BY <1>9, <2>2 DEF ClientReads
    <3> QED
      BY <2>1, <2>2, <3>1, HeardGoesOn DEF StreamLabels, Early, Inside, Ended
  <2>3. CASE provider[s] \notin OpenAi
    <3>1. stage' = [stage EXCEPT ![s] = "exhausted"]
      BY <1>9, <2>3 DEF ClientReads
    <3> QED
      BY <2>1, <2>3, <3>1, HeardGoesOn DEF StreamLabels, Early, Inside, Ended
  <2> QED
    BY <2>2, <2>3
<1>10. ASSUME NEW told \in {"ok", "transient", "rate_limited"}, EndOfStream(s, told) PROVE HeardInv'
  BY <1>10, HeardEnd DEF Answers
<1>11. ASSUME NEW told \in {"transient", "rate_limited"}, Break(s, told) PROVE HeardInv'
  BY <1>11, HeardBreak
<1> QED
  BY <1>1, <1>2, <1>3, <1>4, <1>5, <1>6, <1>7, <1>8, <1>9, <1>10, <1>11, HeardFinish, HeardStores
  DEF Step, OwnStep

LEMMA HeardNextInv ==
    ASSUME StreamInv, HeardInv, [StreamNext]_streamVars
    PROVE  HeardInv'
<1>1. ASSUME UNCHANGED <<stage, provider, deltas, fresh, calls, outcome, cache>> PROVE HeardInv'
  BY <1>1 DEF HeardInv, HeardOK, Ended, Turn
<1>2. ASSUME NEW s \in Streams, Expire(s) PROVE HeardInv'
  BY <1>1, <1>2 DEF Expire
<1>3. ASSUME UNCHANGED streamVars PROVE HeardInv'
  BY <1>1, <1>3 DEF streamVars
<1> QED
  BY <1>2, <1>3, HeardStep DEF StreamNext, Done

LEMMA HeardInitInv == StreamInit => HeardInv
<1> SUFFICES ASSUME StreamInit PROVE HeardInv
  OBVIOUS
<1>1. calls \in [Streams -> Seq(Told)]
  BY DEF StreamInit
<1>2. ASSUME NEW s \in Streams PROVE HeardOK(s)
  <2>1. /\ stage[s] = "check" /\ provider[s] = "primary" /\ deltas[s] = <<>> /\ fresh[s] = FALSE
        /\ calls[s] = <<>> /\ outcome[s] = "none"
    BY DEF StreamInit
  <2>2. DOMAIN deltas[s] = {} /\ Len(calls[s]) = 0
    BY <2>1
  <2> QED
    BY <2>1, <2>2 DEF HeardOK, Ended, Turn, Inside
<1>3. cache = {}
  BY DEF StreamInit
<1> QED
  BY <1>1, <1>2, <1>3 DEF HeardInv

\* translate_text_stream, stream_gen: a row is stored under a provider that
\* answered to the end and said something; what it holds of the other one was
\* sent before that one's connection broke.
THEOREM CachedStreamsAreAnswered == StreamSpec => []CachedIsAnswered
<1>1. ASSUME StreamInv, HeardInv PROVE CachedIsAnswered
  <2>1. ASSUME NEW row \in cache
        PROVE  LET heard == calls[row.stream]
               IN  /\ heard # <<>> /\ heard[Len(heard)] = <<row.scope, "ok">>
                   /\ row.parts # <<>> /\ row.parts[Len(row.parts)] = row.scope
                   /\ \A i \in DOMAIN row.parts : row.parts[i] # row.scope =>
                        Len(heard) = 2 /\ heard[1] = <<row.parts[i], "transient">>
    <3>1. PICK s \in Streams : s = row.stream
      BY <1>1, <2>1 DEF StreamInv, StreamTyped
    <3>2. /\ outcome[s] = "translated" /\ row.parts = deltas[s] /\ row.parts # <<>>
          /\ row.scope = provider[s]
      BY <1>1, <2>1, <3>1 DEF StreamInv, RowsStand, HeardInv
    <3>3. HeardOK(s) /\ calls[s] \in Seq(Told)
      BY <1>1 DEF HeardInv
    <3>4. /\ fresh[s] /\ Len(calls[s]) = Turn(s) + 1 /\ calls[s][Len(calls[s])] = <<provider[s], "ok">>
          /\ deltas[s][Len(deltas[s])] = provider[s]
      BY <3>2, <3>3 DEF HeardOK
    <3>5. calls[s] # <<>>
      <4>1. Turn(s) + 1 # 0
        BY DEF Turn
      <4> QED
        BY <3>4, <4>1
    <3>6. ASSUME NEW i \in DOMAIN deltas[s], deltas[s][i] # provider[s]
          PROVE  Len(calls[s]) = 2 /\ calls[s][1] = <<deltas[s][i], "transient">>
      <4>1. provider[s] = "fallback" /\ calls[s][1] = <<deltas[s][i], "transient">>
        BY <3>3, <3>6 DEF HeardOK
      <4> QED
        BY <3>4, <4>1 DEF Turn
    <3> QED
      BY <3>1, <3>2, <3>4, <3>5, <3>6
  <2> QED
    BY <2>1 DEF CachedIsAnswered
<1>2. /\ IsFiniteSet(Streams) /\ MaxInflight \in Nat /\ MaxDeltas \in Nat /\ StreamCost \in Cost
  BY StreamAssumption
<1>3. StreamInit => StreamInv /\ HeardInv
  BY <1>2, StreamInitInv, HeardInitInv
<1>4. StreamInv /\ HeardInv /\ [StreamNext]_streamVars => StreamInv' /\ HeardInv'
  BY <1>2, StreamNextInv, HeardNextInv
<1> QED
  BY <1>1, <1>3, <1>4, PTL DEF StreamSpec
=============================================================================
