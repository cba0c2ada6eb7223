----------------------------- MODULE BatchProofs -----------------------------
(***************************************************************************)
(* Proofs about TranslationCache, for all threads, keys, thresholds, caps  *)
(* and retention periods, and about BatchRequest, which reads and writes   *)
(* the rows of a request, for every finite set of groups and any window,   *)
(* budget and contents of the cache.  Each theorem is about one of the two *)
(* specifications; they share no state.                                    *)
(*                                                                         *)
(* Hits are accounted for because at most one thread holds a counter that  *)
(* was swapped out, the holder of _flush_lock (Flushing).  The barrier     *)
(* holds because what is pending when a flush of the call itself is under  *)
(* way, and all that is in memory when the call goes on to retention, was  *)
(* queued after the call began (Barrier).  A row that disappears is old    *)
(* because a thread that evicts remembers a stamp that had expired         *)
(* (Located).                                                              *)
(*                                                                         *)
(* A failed batch starts no call because whoever raises has cancelled the  *)
(* budget first (FailedIsCancelled).  Counters are published once because  *)
(* a worker has at most one to publish and none while it is inside a call, *)
(* and because none has any before the sink is attached (Tracker).  Every   *)
(* paragraph is answered because a group is always cached, unsubmitted,    *)
(* with a worker or in the response (Covered), and a worker returns only   *)
(* with a whole group (Answered); the counters are the sizes of sets of    *)
(* groups and segments (Tally).                                            *)
(***************************************************************************)
EXTENDS TranslationCache, BatchRequest, FiniteSetTheorems, TLAPS

-----------------------------------------------------------------------------
(* Sums.                                                                    *)

LEMMA Matching ==
    ASSUME NEW S, NEW T, NEW f \in [S -> T],
           \A a, b \in S : f[a] = f[b] => a = b, \A t \in T : \E a \in S : f[a] = t
    PROVE  f \in Bijection(S, T)
BY DEF Bijection, Injection, Surjection, IsInjective

Units(counter) == UNION { {x} \X (1 .. counter[x]) : x \in DOMAIN counter }

\* A counter with nothing in it, and one with one entry.
LEMMA SumOfNone ==
    ASSUME NEW S, NEW c \in [S -> Nat], \A x \in S : c[x] = 0
    PROVE  SumHits(c) = 0
<1>1. \A x \in S : {x} \X (1 .. c[x]) = {}
  OBVIOUS
<1>2. Units(c) = {}
  BY <1>1 DEF Units
<1> QED
  BY <1>2, FS_EmptySet DEF SumHits, Units

LEMMA SumOfOne ==
    ASSUME NEW S, NEW c \in [S -> Nat], NEW u \in S, \A x \in S \ {u} : c[x] = 0
    PROVE  SumHits(c) = c[u]
<1> DEFINE n == c[u]
           T == {u} \X (1 .. n)
           f == [i \in 1 .. n |-> <<u, i>>]
<1>1. \A x \in S \ {u} : {x} \X (1 .. c[x]) = {}
  OBVIOUS
<1>2. Units(c) = T
  <2>1. ASSUME NEW p \in Units(c) PROVE p \in T
    <3>1. PICK x \in S : p \in {x} \X (1 .. c[x])
      BY DEF Units
    <3> QED
      BY <1>1, <3>1
  <2>2. T \subseteq Units(c)
    BY DEF Units
  <2> QED
    BY <2>1, <2>2
<1>3. n \in Nat
  OBVIOUS
<1>4. f \in Bijection(1 .. n, T)
  <2>1. f \in [1 .. n -> T]
    OBVIOUS
  <2>2. \A a, b \in 1 .. n : f[a] = f[b] => a = b
    OBVIOUS
  <2>3. \A t \in T : \E a \in 1 .. n : f[a] = t
    OBVIOUS
  <2> HIDE DEF f, T
  <2> QED
    BY <2>1, <2>2, <2>3, Matching
<1>5. IsFiniteSet(1 .. n) /\ Cardinality(1 .. n) = n
  <2>1. 1 \in Int /\ n \in Int
    BY <1>3
  <2>2. IsFiniteSet(1 .. n) /\ Cardinality(1 .. n) = IF 1 > n THEN 0 ELSE n - 1 + 1
    BY <2>1, FS_Interval
  <2> QED
    BY <1>3, <2>2
<1>6. Cardinality(T) = n
  <2> HIDE DEF f, T, n
  <2> QED
    BY <1>4, <1>5, FS_Bijection DEF ExistsBijection
<1> QED
  BY <1>2, <1>6 DEF SumHits, Units

\* A counter with finitely many entries has a sum.
LEMMA SumIsNat ==
    ASSUME NEW S, IsFiniteSet(S), NEW c \in [S -> Nat]
    PROVE  SumHits(c) \in Nat
<1> DEFINE Single == { {x} \X (1 .. c[x]) : x \in S }
           f == [x \in S |-> {x} \X (1 .. c[x])]
<1>1. f \in Surjection(S, Single)
  BY DEF Surjection
<1>2. IsFiniteSet(Single)
  <2> HIDE DEF f, Single
  <2> QED
    BY <1>1, FS_Surjection
<1>3. ASSUME NEW T \in Single PROVE IsFiniteSet(T)
  <2>1. PICK x \in S : T = {x} \X (1 .. c[x])
    OBVIOUS
  <2>2. 1 \in Int /\ c[x] \in Int
    OBVIOUS
  <2>3. IsFiniteSet(1 .. c[x])
    BY <2>2, FS_Interval
  <2> QED
    BY <2>1, <2>3, FS_Singleton, FS_Product
<1>4. Units(c) = UNION Single
  BY DEF Units
<1> HIDE DEF Single
<1>5. IsFiniteSet(UNION Single)
  BY <1>2, <1>3, FS_UNION
<1> QED
  BY <1>4, <1>5, FS_CardinalityType DEF SumHits, Units

-----------------------------------------------------------------------------
(* The invariant.                                                           *)

\* The hits of a key that a flush has taken out of the counter.
InFlush(k) == IF flusher = NoThread THEN 0 ELSE taken[flusher][k]

\* Whoever has swapped the counter out holds _flush_lock, and nobody else
\* has hits in hand.
Flushing ==
    /\ flusher # NoThread => Swapped(flusher)
    /\ \A t \in Threads : /\ Swapped(t) => flusher = t
                          /\ ~Swapped(t) => taken[t] = NoHits

\* The locals of a call.
Located == \A t \in Threads :
    /\ loc[t].stamp <= clock
    /\ pc[t] = "select" => loc[t].days = TTL
    /\ pc[t] \in {"select", "served"} => \E k \in Keys : loc[t].keys = {k}
    /\ pc[t] = "evict" => loc[t].stamp + TTL < clock

RowHits(k) == IF k \in Present THEN rows[k].hits ELSE 0
Accounts == \A k \in Keys : recorded[k] = RowHits(k) + pending[k] + InFlush(k) + lost[k]

\* What a call has seen queued leaves the memory before it prunes.
Barrier == \A t \in Threads, k \in Keys :
    /\ loc[t].seen[k] <= recorded[k]
    /\ pc[t] = "swappedFirst" => pending[k] + loc[t].seen[k] <= recorded[k]
    /\ pc[t] = "retain" => pending[k] + InFlush(k) + loc[t].seen[k] <= recorded[k]

\* The watermark is below its threshold whatever became of the prune.
Capped ==
    /\ writes < PruneThreshold
    /\ ~pruneFailed => Cardinality(Present) <= MaxEntries + writes

IInv == TypeOK /\ Flushing /\ Located /\ Accounts /\ Barrier /\ Capped

\* What a step may do to the rows.
RowStep ==
    \A k \in Present \ DOMAIN rows' :
      \/ \E days \in Retentions : rows[k].created < clock - days
      \/ Cardinality(DOMAIN rows') = MaxEntries
      \/ \E t \in Threads : /\ pc[t] = "put" /\ k \in loc[t].keys
                            /\ loc[t].stamp < clock - TTL

LEMMA Constants ==
    /\ IsFiniteSet(Threads) /\ IsFiniteSet(Keys) /\ NoThread \notin Threads
    /\ TTL \in Nat \ {0} /\ MaxEntries \in Nat \ {0} /\ FlushThreshold \in Nat \ {0}
    /\ CleanupDays \subseteq Nat \ {0} /\ MaxTime \in Nat /\ MaxCalls \in Nat
    /\ TTL \in Retentions /\ Retentions \subseteq Nat
    /\ PruneThreshold \in Nat \ {0} /\ PruneThreshold <= MaxEntries
BY ThreadsAssumption, StoreAssumption DEF Retentions, PruneThreshold

LEMMA TakenSum ==
    ASSUME TypeOK, Flushing, NEW k \in Keys
    PROVE  SumHits([t \in Threads |-> taken[t][k]]) = InFlush(k) /\ InFlush(k) \in Nat
<1> DEFINE c == [t \in Threads |-> taken[t][k]]
<1>1. c \in [Threads -> Nat] /\ \A t \in Threads : c[t] = taken[t][k]
  BY DEF TypeOK
<1>2. \A t \in Threads : t # flusher => taken[t][k] = 0
  BY DEF Flushing, NoHits
<1>3. CASE flusher = NoThread
  <2>1. \A t \in Threads : c[t] = 0
    BY <1>1, <1>2, <1>3, Constants
  <2> HIDE DEF c
  <2>2. SumHits(c) = 0
    BY <1>1, <2>1, SumOfNone
  <2> QED
    BY <1>3, <2>2 DEF InFlush, c
<1>4. CASE flusher # NoThread
  <2>1. flusher \in Threads
    BY <1>4 DEF TypeOK
  <2>2. \A t \in Threads \ {flusher} : c[t] = 0
    BY <1>1, <1>2
  <2> HIDE DEF c
  <2>3. SumHits(c) = c[flusher]
    BY <1>1, <2>1, <2>2, SumOfOne
  <2>4. c[flusher] = taken[flusher][k] /\ c[flusher] \in Nat
    BY <1>1, <2>1
  <2> QED
    BY <1>4, <2>3, <2>4 DEF InFlush, c
<1> QED
  BY <1>3, <1>4

-----------------------------------------------------------------------------
(* Retention.                                                               *)

LEMMA FiniteKeys ==
    ASSUME NEW S \in SUBSET Keys
    PROVE  IsFiniteSet(S) /\ Cardinality(S) \in Nat
BY Constants, FS_Subset, FS_CardinalityType

\* Retention keeps the rows it does not delete as they are, never more than
\* the cap, and deletes expired ones only, unless the cap is reached.
LEMMA PruneFacts ==
    ASSUME NEW table, DOMAIN table \subseteq Keys, NEW cutoff, NEW after \in Prune(table, cutoff)
    PROVE  /\ DOMAIN after \subseteq DOMAIN table
           /\ after = [k \in DOMAIN after |-> table[k]]
           /\ Cardinality(DOMAIN after) <= MaxEntries
           /\ \A k \in DOMAIN table \ DOMAIN after :
                ~(table[k].created >= cutoff) \/ Cardinality(DOMAIN after) = MaxEntries
<1> DEFINE young == {k \in DOMAIN table : table[k].created >= cutoff}
           kept == Keep(table, young)
           n == Cardinality(young)
<1>1. DOMAIN kept = young /\ \A k \in young : kept[k] = table[k]
  BY DEF Keep
<1>2. PICK s \in SUBSET young : /\ Cardinality(s) = IF n > MaxEntries THEN MaxEntries ELSE n
                                /\ after = Keep(kept, s)
  <2>1. after \in EnforceCap(kept)
    BY DEF Prune, DeleteExpired
  <2> HIDE DEF kept, young
  <2> QED
    BY <1>1, <2>1 DEF EnforceCap
<1>3. DOMAIN after = s /\ after = [k \in s |-> table[k]]
  BY <1>1, <1>2 DEF Keep
<1>4. /\ young \in SUBSET Keys /\ IsFiniteSet(young) /\ n \in Nat /\ MaxEntries \in Nat
  BY FiniteKeys, Constants
<1>5. Cardinality(s) <= MaxEntries
  <2> HIDE DEF n
  <2> QED
    BY <1>2, <1>4
<1>6. n <= MaxEntries => s = young
  <2>1. n <= MaxEntries => Cardinality(s) = Cardinality(young)
    <3>1. Cardinality(s) = IF n > MaxEntries THEN MaxEntries ELSE n
      BY <1>2
    <3> HIDE DEF young
    <3> QED
      BY <1>4, <3>1
  <2> HIDE DEF young
  <2>2. s \in SUBSET young
    BY <1>2
  <2> QED
    BY <1>4, <2>1, <2>2, FS_Subset
<1>7. \A k \in DOMAIN table \ s : ~(table[k].created >= cutoff) \/ Cardinality(s) = MaxEntries
  <2>1. CASE n <= MaxEntries
    BY <1>6, <2>1
  <2>2. CASE ~(n <= MaxEntries)
    <3>1. Cardinality(s) = MaxEntries
      <4> HIDE DEF n
      <4> QED
        BY <1>2, <1>4, <2>2
    <3> QED
      BY <3>1
  <2> QED
    BY <2>1, <2>2
<1> QED
  BY <1>2, <1>3, <1>5, <1>7

-----------------------------------------------------------------------------
(* What the parts of the invariant need of a step.                          *)

\* The thread that moves, and the threads that stay.
Moved(t) == \A u \in Threads \ {t} : pc'[u] = pc[u] /\ loc'[u] = loc[u]

LEMMA GotoFacts ==
    ASSUME TypeOK, NEW t \in Threads, NEW label \in Labels, Goto(t, label)
    PROVE  /\ pc' \in [Threads -> Labels] /\ pc'[t] = label
           /\ \A u \in Threads \ {t} : pc'[u] = pc[u]
BY DEF TypeOK, Goto

LEMMA IdleIsLocal == Idle \in Local /\ Idle.stamp = 0 /\ Idle.seen = NoHits
<1>1. NoHits \in [Keys -> Nat]
  BY DEF NoHits
<1>2. TTL \in Retentions
  BY Constants
<1> QED
  BY <1>1, <1>2 DEF Idle, Local

LEMMA LocalFields ==
    ASSUME NEW l \in Local
    PROVE  /\ l.keys \in SUBSET Keys /\ l.stamp \in Nat /\ l.days \in Retentions
           /\ l.seen \in [Keys -> Nat]
BY DEF Local

LEMMA ReturnFacts ==
    ASSUME TypeOK, NEW t \in Threads, Return(t)
    PROVE  /\ pc' \in [Threads -> Labels] /\ loc' \in [Threads -> Local]
           /\ pc'[t] = "idle" /\ loc'[t] = Idle /\ Moved(t)
<1>1. pc \in [Threads -> Labels] /\ loc \in [Threads -> Local] /\ "idle" \in Labels
  BY DEF TypeOK, Labels
<1>2. pc' = [pc EXCEPT ![t] = "idle"] /\ loc' = [loc EXCEPT ![t] = Idle]
  BY DEF Return, Goto
<1> QED
  BY <1>1, <1>2, IdleIsLocal DEF Moved

\* A thread that has returned has nothing to say about the invariant.
LEMMA LocatedStays ==
    ASSUME TypeOK, Located, clock' = clock, NEW t \in Threads, Moved(t),
           /\ loc'[t].stamp <= clock
           /\ pc'[t] = "select" => loc'[t].days = TTL
           /\ pc'[t] \in {"select", "served"} => \E k \in Keys : loc'[t].keys = {k}
           /\ pc'[t] = "evict" => loc'[t].stamp + TTL < clock
    PROVE  Located'
BY DEF Located, Moved

LEMMA LocatedOnReturn ==
    ASSUME TypeOK, Located, clock' = clock, NEW t \in Threads, Return(t)
    PROVE  Located'
<1>1. pc'[t] = "idle" /\ loc'[t] = Idle /\ Moved(t)
  BY ReturnFacts
<1>2. clock \in Nat /\ Idle.stamp = 0
  BY IdleIsLocal, Constants DEF TypeOK
<1> QED
  BY <1>1, <1>2, LocatedStays

\* Nobody swaps the counter out or back.
LEMMA FlushingStays ==
    ASSUME TypeOK, Flushing, UNCHANGED <<taken, flusher>>, NEW t \in Threads, Moved(t),
           ~Swapped(t), pc'[t] \notin {"swapped", "swappedFirst"}
    PROVE  Flushing'
<1>1. \A u \in Threads : Swapped(u)' <=> Swapped(u)
  BY DEF Swapped, Moved
<1>2. flusher # NoThread => flusher \in Threads
  BY DEF TypeOK
<1> QED
  BY <1>1, <1>2 DEF Flushing

\* What is in memory does not grow but by what is queued.
LEMMA BarrierStays ==
    ASSUME TypeOK, Barrier, NEW t \in Threads, Moved(t),
           recorded' \in [Keys -> Nat], pending' \in [Keys -> Nat],
           \A k \in Keys : InFlush(k) \in Nat /\ InFlush(k)' \in Nat,
           \A k \in Keys : /\ recorded[k] <= recorded'[k]
                           /\ pending'[k] + recorded[k] <= pending[k] + recorded'[k]
                           /\ pending'[k] + InFlush(k)' + recorded[k] <= pending[k] + InFlush(k) + recorded'[k],
           loc'[t].seen \in [Keys -> Nat],
           \A k \in Keys : /\ loc'[t].seen[k] <= recorded'[k]
                           /\ pc'[t] = "swappedFirst" => pending'[k] + loc'[t].seen[k] <= recorded'[k]
                           /\ pc'[t] = "retain" => pending'[k] + InFlush(k)' + loc'[t].seen[k] <= recorded'[k]
    PROVE  Barrier'
<1>1. ASSUME NEW u \in Threads \ {t}, NEW k \in Keys
      PROVE  /\ loc'[u].seen[k] <= recorded'[k]
             /\ pc'[u] = "swappedFirst" => pending'[k] + loc'[u].seen[k] <= recorded'[k]
             /\ pc'[u] = "retain" => pending'[k] + InFlush(k)' + loc'[u].seen[k] <= recorded'[k]
  <2> DEFINE s == loc[u].seen[k]
             a == recorded[k]
             b == recorded'[k]
             p == pending[k]
             q == pending'[k]
             i == InFlush(k)
             j == InFlush(k)'
  <2>1. pc'[u] = pc[u] /\ loc'[u].seen[k] = s
    BY DEF Moved
  <2>2. s \in Nat /\ a \in Nat /\ b \in Nat /\ p \in Nat /\ q \in Nat /\ i \in Nat /\ j \in Nat
    <3>1. loc[u].seen \in [Keys -> Nat]
      BY LocalFields DEF TypeOK
    <3> QED
      BY <3>1 DEF TypeOK
  <2>3. a <= b /\ q + a <= p + b /\ q + j + a <= p + i + b
    OBVIOUS
  <2>4. pc[u] = "swappedFirst" => p + s <= a
    BY DEF Barrier
  <2>5. s <= a /\ (pc[u] = "retain" => p + i + s <= a)
    BY DEF Barrier
  <2>6. /\ s <= b
        /\ pc[u] = "swappedFirst" => q + s <= b
        /\ pc[u] = "retain" => q + j + s <= b
    <3> HIDE DEF s, a, b, p, q, i, j
    <3> QED
      BY <2>2, <2>3, <2>4, <2>5
  <2> QED
    BY <2>1, <2>6
<1> QED
  BY <1>1 DEF Barrier

\* A step that touches neither counter nor memory keeps the barrier.
LEMMA BarrierOnReturn ==
    ASSUME TypeOK, Flushing, Barrier, NEW t \in Threads, Return(t),
           UNCHANGED <<recorded, pending>>,
           \A k \in Keys : InFlush(k)' \in Nat /\ InFlush(k)' <= InFlush(k)
    PROVE  Barrier'
<1>1. pc'[t] = "idle" /\ loc'[t] = Idle /\ Moved(t)
  BY ReturnFacts
<1>2. recorded \in [Keys -> Nat] /\ pending \in [Keys -> Nat]
  BY DEF TypeOK
<1>3. \A k \in Keys : InFlush(k) \in Nat
  BY TakenSum
<1>4. loc'[t].seen = NoHits /\ NoHits \in [Keys -> Nat] /\ \A k \in Keys : NoHits[k] = 0
  BY <1>1, IdleIsLocal DEF NoHits
<1>5. \A k \in Keys : /\ recorded[k] <= recorded'[k]
                      /\ pending'[k] + recorded[k] <= pending[k] + recorded'[k]
                      /\ pending'[k] + InFlush(k)' + recorded[k] <= pending[k] + InFlush(k) + recorded'[k]
  BY <1>2, <1>3
<1>6. \A k \in Keys : loc'[t].seen[k] <= recorded'[k]
  BY <1>2, <1>4
<1>7. pc'[t] # "swappedFirst" /\ pc'[t] # "retain"
  BY <1>1
<1> HIDE DEF InFlush
<1> QED
  BY <1>1, <1>2, <1>3, <1>4, <1>5, <1>6, <1>7, BarrierStays

\* The accounts when rows change or go, and their hits with them.
LEMMA AccountsStay ==
    ASSUME TypeOK, Accounts, UNCHANGED <<recorded, pending>>,
           \A k \in Keys : InFlush(k)' = InFlush(k) /\ InFlush(k) \in Nat,
           NEW table, DOMAIN table \subseteq Keys,
           \A k \in DOMAIN table : table[k].hits \in Nat,
           \A k \in Keys : RowHits(k) = IF k \in DOMAIN table THEN table[k].hits ELSE 0,
           DOMAIN rows' \subseteq DOMAIN table,
           \A k \in DOMAIN rows' : rows'[k].hits = table[k].hits,
           lost' = AddHits(lost, Dropped(table, rows'))
    PROVE  Accounts' /\ lost' \in [Keys -> Nat]
<1>1. \A k \in Keys : lost[k] \in Nat
  BY DEF TypeOK
<1>2. \A k \in Keys : Dropped(table, rows')[k] = IF k \in DOMAIN table \ DOMAIN rows' THEN table[k].hits ELSE 0
  BY DEF Dropped
<1>3. \A k \in Keys : lost'[k] = lost[k] + Dropped(table, rows')[k]
  BY DEF AddHits
<1>4. \A k \in Keys : RowHits(k)' = IF k \in DOMAIN rows' THEN table[k].hits ELSE 0
  BY DEF RowHits, Present
<1>5. ASSUME NEW k \in Keys
      PROVE  /\ RowHits(k)' + lost'[k] = RowHits(k) + lost[k]
             /\ lost'[k] \in Nat /\ RowHits(k)' \in Nat /\ RowHits(k) \in Nat
  BY <1>1, <1>2, <1>3, <1>4
<1>6. lost' \in [Keys -> Nat]
  <2>1. lost' = [k \in Keys |-> lost[k] + Dropped(table, rows')[k]]
    BY DEF AddHits
  <2> QED
    BY <1>3, <1>5, <2>1
<1>7. ASSUME NEW k \in Keys
      PROVE  recorded'[k] = RowHits(k)' + pending'[k] + InFlush(k)' + lost'[k]
  <2>1. /\ recorded'[k] = recorded[k] /\ pending'[k] = pending[k] /\ pending[k] \in Nat
        /\ InFlush(k)' = InFlush(k) /\ InFlush(k) \in Nat
    BY DEF TypeOK
  <2>2. recorded[k] = RowHits(k) + pending[k] + InFlush(k) + lost[k]
    BY DEF Accounts
  <2> HIDE DEF InFlush, RowHits
  <2> QED
    BY <1>1, <1>5, <2>1, <2>2
<1> QED
  BY <1>6, <1>7 DEF Accounts
-----------------------------------------------------------------------------
(* The steps.                                                               *)

LEMMA Facts ==
    ASSUME IInv
    PROVE  /\ TypeOK /\ Flushing /\ Located /\ Accounts /\ Barrier /\ Capped
           /\ clock \in Nat /\ writes \in Nat /\ pendingTotal \in Nat /\ pruneFailed \in BOOLEAN
           /\ Present \in SUBSET Keys /\ \A k \in Present : rows[k] \in Row /\ rows[k].hits \in Nat
           /\ pending \in [Keys -> Nat] /\ recorded \in [Keys -> Nat] /\ lost \in [Keys -> Nat]
           /\ taken \in [Threads -> [Keys -> Nat]]
           /\ \A k \in Keys : InFlush(k) \in Nat
           /\ \A t \in Threads : loc[t] \in Local /\ pc[t] \in Labels
<1> SUFFICES ASSUME IInv
             PROVE  /\ clock \in Nat /\ \A k \in Keys : InFlush(k) \in Nat
                    /\ \A k \in Present : rows[k] \in Row /\ rows[k].hits \in Nat
  BY DEF IInv, TypeOK
<1>1. clock \in Nat
  BY Constants DEF IInv, TypeOK
<1>2. \A k \in Keys : InFlush(k) \in Nat
  BY TakenSum DEF IInv
<1>3. \A k \in Present : rows[k] \in Row /\ rows[k].hits \in Nat
  BY DEF IInv, TypeOK, Row
<1> QED
  BY <1>1, <1>2, <1>3

LEMMA RowsStay == ASSUME UNCHANGED rows PROVE RowStep
BY DEF RowStep, Present

\* A call that ends and leaves rows and counters alone.
LEMMA ReturnStep ==
    ASSUME IInv, NEW t \in Threads, ~Swapped(t), Return(t),
           UNCHANGED <<clock, rows, pending, pendingTotal, flusher, taken, calls, recorded, lost>>,
           writes' \in Nat, pruneFailed' \in BOOLEAN, Capped'
    PROVE  IInv' /\ RowStep
<1>1. /\ pc' \in [Threads -> Labels] /\ loc' \in [Threads -> Local]
      /\ pc'[t] = "idle" /\ loc'[t] = Idle /\ Moved(t)
  BY Facts, ReturnFacts
<1>2. TypeOK'
  BY <1>1, Facts DEF TypeOK, Present
<1>3. Flushing'
  BY <1>1, Facts, FlushingStays
<1>4. Located'
  BY Facts, LocatedOnReturn
<1>5. \A k \in Keys : InFlush(k)' = InFlush(k) /\ RowHits(k)' = RowHits(k)
  BY DEF InFlush, RowHits, Present
<1>6. Accounts'
  BY <1>5, Facts DEF Accounts
<1>7. Barrier'
  <2>1. \A k \in Keys : InFlush(k)' \in Nat /\ InFlush(k)' <= InFlush(k)
    BY <1>5, Facts
  <2> QED
    BY <2>1, Facts, BarrierOnReturn
<1> QED
  BY <1>2, <1>3, <1>4, <1>6, <1>7, RowsStay DEF IInv

\* A call begins.
LEMMA EnterStep ==
    ASSUME IInv, NEW t \in Threads, NEW label \in {"put", "select", "flushFirst", "flush"},
           NEW ks \in SUBSET Keys, NEW days \in Retentions,
           label = "select" => days = TTL /\ \E k \in Keys : ks = {k},
           Enter(t, label, ks, days)
    PROVE  IInv' /\ RowStep
<1> DEFINE l == [keys |-> ks, stamp |-> clock, days |-> days, seen |-> recorded]
<1>1. /\ pc[t] = "idle" /\ calls < MaxCalls /\ calls' = calls + 1
      /\ Goto(t, label) /\ loc' = [loc EXCEPT ![t] = l]
      /\ UNCHANGED <<clock, rows, pending, pendingTotal, writes, flusher, taken,
                     recorded, lost, pruneFailed>>
  BY DEF Enter, store, ghosts
<1>2. l \in Local /\ l.keys = ks /\ l.stamp = clock /\ l.days = days /\ l.seen = recorded
  BY Facts DEF Local
<1> HIDE DEF l
<1>3. pc' \in [Threads -> Labels] /\ pc'[t] = label /\ \A u \in Threads \ {t} : pc'[u] = pc[u]
  BY <1>1, Facts, GotoFacts DEF Labels
<1>4. loc' \in [Threads -> Local] /\ loc'[t] = l /\ Moved(t)
  BY <1>1, <1>2, <1>3, Facts DEF TypeOK, Moved
<1>5. TypeOK'
  <2>1. calls' \in 0 .. MaxCalls
    BY <1>1, Facts, Constants DEF TypeOK
  <2> QED
    BY <1>1, <1>3, <1>4, <2>1, Facts DEF TypeOK, Present
<1>6. Flushing'
  <2>1. ~Swapped(t) /\ pc'[t] \notin {"swapped", "swappedFirst"}
    BY <1>1, <1>3 DEF Swapped
  <2> QED
    BY <1>1, <1>4, <2>1, Facts, FlushingStays
<1>7. Located'
  BY <1>1, <1>2, <1>3, <1>4, Facts, LocatedStays
<1>8. \A k \in Keys : InFlush(k)' = InFlush(k) /\ RowHits(k)' = RowHits(k)
  BY <1>1 DEF InFlush, RowHits, Present
<1>9. Accounts'
  BY <1>1, <1>8, Facts DEF Accounts
<1>10. Barrier'
  <2>1. \A k \in Keys : recorded[k] \in Nat /\ pending[k] \in Nat /\ InFlush(k) \in Nat
    BY Facts
  <2>2. \A k \in Keys : /\ recorded[k] <= recorded'[k]
                        /\ pending'[k] + recorded[k] <= pending[k] + recorded'[k]
                        /\ pending'[k] + InFlush(k)' + recorded[k] <= pending[k] + InFlush(k) + recorded'[k]
                        /\ loc'[t].seen[k] <= recorded'[k]
                        /\ InFlush(k) \in Nat /\ InFlush(k)' \in Nat
    BY <1>1, <1>2, <1>4, <1>8, <2>1
  <2>3. pc'[t] # "swappedFirst" /\ pc'[t] # "retain" /\ loc'[t].seen \in [Keys -> Nat]
    BY <1>2, <1>3, <1>4, Facts
  <2>4. recorded' \in [Keys -> Nat] /\ pending' \in [Keys -> Nat]
    BY <1>1, Facts
  <2> QED
    BY <1>4, <2>2, <2>3, <2>4, Facts, BarrierStays
<1>11. Capped' /\ RowStep
  BY <1>1, Facts, RowsStay DEF Capped, Present
<1> QED
  BY <1>5, <1>6, <1>7, <1>9, <1>10, <1>11 DEF IInv

LEMMA QuitSteps ==
    ASSUME IInv, NEW t \in Threads, EvictRollback(t) \/ IgnoreRow(t) \/ RetainRollback(t)
    PROVE  IInv' /\ RowStep
<1>1. /\ pc[t] \in {"evict", "served", "retain"} /\ Return(t)
      /\ UNCHANGED <<clock, rows, pending, pendingTotal, writes, flusher, taken, calls,
                     recorded, lost, pruneFailed>>
  BY DEF EvictRollback, IgnoreRow, RetainRollback, store, ghosts
<1>2. ~Swapped(t)
  BY <1>1 DEF Swapped
<1>3. writes' \in Nat /\ pruneFailed' \in BOOLEAN /\ Capped'
  BY <1>1, Facts DEF Capped, Present
<1> QED
  BY <1>1, <1>2, <1>3, ReturnStep

LEMMA PutRollbackStep ==
    ASSUME IInv, NEW t \in Threads, PutRollback(t)
    PROVE  IInv' /\ RowStep
<1> DEFINE count == writes + Cardinality(loc[t].keys)
           due == count >= PruneThreshold
<1>1. /\ pc[t] = "put" /\ Return(t)
      /\ \/ UNCHANGED <<writes, pruneFailed>>
         \/ writes' = (IF due THEN 0 ELSE count) /\ pruneFailed' = (pruneFailed \/ due)
      /\ UNCHANGED <<clock, rows, pending, pendingTotal, flusher, taken, calls, recorded, lost>>
  BY DEF PutRollback
<1>2. Cardinality(loc[t].keys) \in Nat /\ Cardinality(Present) \in Nat
  BY Facts, LocalFields, FiniteKeys
<1>3. count \in Nat /\ count >= writes
  BY <1>2, Facts
<1>6. ~Swapped(t)
  BY <1>1 DEF Swapped
<1> HIDE DEF count
<1>4. CASE UNCHANGED <<writes, pruneFailed>>
  <2>1. writes' \in Nat /\ pruneFailed' \in BOOLEAN /\ Capped'
    BY <1>1, <1>4, Facts DEF Capped, Present
  <2> QED
    BY <1>1, <1>6, <2>1, ReturnStep
<1>5. CASE writes' = (IF due THEN 0 ELSE count) /\ pruneFailed' = (pruneFailed \/ due)
  <2>1. CASE due
    <3>1. writes' = 0 /\ pruneFailed' = TRUE
      BY <1>5, <2>1
    <3>2. writes' \in Nat /\ pruneFailed' \in BOOLEAN /\ Capped'
      BY <3>1, Constants DEF Capped
    <3> QED
      BY <1>1, <1>6, <3>2, ReturnStep
  <2>2. CASE ~due
    <3>1. writes' = count
      BY <1>5, <2>2
    <3>2. pruneFailed' = pruneFailed
      BY <1>5, <2>2, Facts, Zenon
    <3>3. count < PruneThreshold
      BY <1>3, <2>2, Constants
    <3>4. ~pruneFailed => Cardinality(Present) <= MaxEntries + writes
      BY Facts DEF Capped
    <3>5. Present' = Present
      BY <1>1 DEF Present
    <3>6. ~pruneFailed => Cardinality(Present) <= MaxEntries + count
      BY <1>2, <1>3, <3>4, Facts, Constants
    <3>7. Capped'
      BY <3>1, <3>2, <3>3, <3>5, <3>6 DEF Capped
    <3>8. writes' \in Nat /\ pruneFailed' \in BOOLEAN
      BY <1>3, <3>1, <3>2, Facts
    <3> QED
      BY <1>1, <1>6, <3>7, <3>8, ReturnStep
  <2> QED
    BY <2>1, <2>2
<1> QED
  BY <1>1, <1>4, <1>5

\* The rows that retention leaves of a well-formed table.
LEMMA PrunedRows ==
    ASSUME NEW table, DOMAIN table \subseteq Keys,
           \A k \in DOMAIN table : table[k] \in Row /\ table[k].created <= clock,
           clock' = clock, NEW cutoff, rows' \in Prune(table, cutoff)
    PROVE  /\ Present' \subseteq Keys /\ \A k \in Present' : rows'[k] \in Row /\ rows'[k].created <= clock'
           /\ DOMAIN rows' \subseteq DOMAIN table
           /\ \A k \in DOMAIN rows' : rows'[k] = table[k] /\ rows'[k].hits = table[k].hits
           /\ Cardinality(Present') <= MaxEntries
           /\ \A k \in DOMAIN table \ DOMAIN rows' :
                ~(table[k].created >= cutoff) \/ Cardinality(DOMAIN rows') = MaxEntries
<1>1. /\ DOMAIN rows' \subseteq DOMAIN table
      /\ rows' = [k \in DOMAIN rows' |-> table[k]]
      /\ Cardinality(DOMAIN rows') <= MaxEntries
      /\ \A k \in DOMAIN table \ DOMAIN rows' :
           ~(table[k].created >= cutoff) \/ Cardinality(DOMAIN rows') = MaxEntries
  BY PruneFacts
<1>2. \A k \in DOMAIN rows' : rows'[k] = table[k]
  BY <1>1
<1>3. Present' = DOMAIN rows'
  BY DEF Present
<1> QED
  BY <1>1, <1>2, <1>3

\* A call ends whose transaction has changed the rows only.
LEMMA RowsReturn ==
    ASSUME IInv, NEW t \in Threads, ~Swapped(t), Return(t),
           UNCHANGED <<clock, pending, pendingTotal, flusher, taken, calls, recorded>>,
           Present' \subseteq Keys, \A k \in Present' : rows'[k] \in Row /\ rows'[k].created <= clock',
           NEW table, DOMAIN table \subseteq Keys,
           \A k \in DOMAIN table : table[k].hits \in Nat,
           \A k \in Keys : RowHits(k) = IF k \in DOMAIN table THEN table[k].hits ELSE 0,
           DOMAIN rows' \subseteq DOMAIN table,
           \A k \in DOMAIN rows' : rows'[k].hits = table[k].hits,
           lost' = AddHits(lost, Dropped(table, rows')),
           writes' \in Nat, pruneFailed' \in BOOLEAN, Capped'
    PROVE  IInv'
<1>1. /\ pc' \in [Threads -> Labels] /\ loc' \in [Threads -> Local]
      /\ pc'[t] = "idle" /\ loc'[t] = Idle /\ Moved(t)
  BY Facts, ReturnFacts
<1>2. \A k \in Keys : InFlush(k)' = InFlush(k) /\ InFlush(k) \in Nat
  BY Facts DEF InFlush
<1>3. Accounts' /\ lost' \in [Keys -> Nat]
  BY <1>2, Facts, AccountsStay
<1>4. TypeOK'
  BY <1>1, <1>3, Facts DEF TypeOK
<1>5. Flushing'
  BY <1>1, Facts, FlushingStays
<1>6. Located'
  BY Facts, LocatedOnReturn
<1>7. Barrier'
  <2>1. \A k \in Keys : InFlush(k)' \in Nat /\ InFlush(k)' <= InFlush(k)
    BY <1>2
  <2> QED
    BY <2>1, Facts, BarrierOnReturn
<1> QED
  BY <1>3, <1>4, <1>5, <1>6, <1>7 DEF IInv
\* A row that goes in a write was written long ago, or the write brought its
\* own expired stamp.
LEMMA PutCommitStep ==
    ASSUME IInv, NEW t \in Threads, PutCommit(t)
    PROVE  IInv' /\ RowStep
<1> DEFINE keys == loc[t].keys
           stamp == loc[t].stamp
           written == Upsert(keys, stamp)
           count == writes + Cardinality(keys)
           due == count >= PruneThreshold
<1>1. /\ pc[t] = "put" /\ Return(t)
      /\ IF due THEN rows' \in Prune(written, clock - TTL) ELSE rows' = written
      /\ writes' = IF due THEN 0 ELSE count
      /\ pruneFailed' = (pruneFailed /\ ~due)
      /\ lost' = AddHits(lost, Dropped(written, rows'))
      /\ UNCHANGED <<clock, pending, pendingTotal, flusher, taken, calls, recorded>>
  BY DEF PutCommit
<1>2. ~Swapped(t)
  BY <1>1 DEF Swapped
<1>3. keys \in SUBSET Keys /\ stamp \in Nat /\ stamp <= clock
  BY Facts, LocalFields DEF Located
<1>4. /\ DOMAIN written = Present \cup keys
      /\ \A k \in Present \cup keys :
           /\ k \in keys => written[k] = [created |-> stamp, accessed |-> stamp,
                                         hits |-> IF k \in Present THEN rows[k].hits ELSE 0]
           /\ k \notin keys => written[k] = rows[k]
  BY DEF Upsert
<1> HIDE DEF written
<1>5. \A k \in DOMAIN written : /\ written[k] \in Row
                                /\ written[k].created <= clock
                                /\ written[k].hits = RowHits(k) /\ written[k].hits \in Nat
                                /\ written[k].created = IF k \in keys THEN stamp ELSE rows[k].created
  <2>1. ASSUME NEW k \in keys
        PROVE  /\ written[k] \in Row /\ written[k].created = stamp
               /\ written[k].hits = RowHits(k) /\ written[k].hits \in Nat
    <3>1. RowHits(k) \in Nat
      BY Facts DEF RowHits
    <3>2. written[k] = [created |-> stamp, accessed |-> stamp, hits |-> RowHits(k)]
      BY <1>4, <2>1 DEF RowHits
    <3> QED
      BY <1>3, <3>1, <3>2 DEF Row
  <2>2. ASSUME NEW k \in Present \ keys
        PROVE  /\ written[k] = rows[k] /\ rows[k] \in Row /\ rows[k].created <= clock
               /\ RowHits(k) = rows[k].hits /\ RowHits(k) \in Nat
    BY <1>4, Facts DEF RowHits, TypeOK
  <2> QED
    BY <1>3, <1>4, <2>1, <2>2
<1>6. \A k \in Keys : RowHits(k) = IF k \in DOMAIN written THEN written[k].hits ELSE 0
  BY <1>4, <1>5 DEF RowHits
<1>7. DOMAIN written \subseteq Keys
  BY <1>3, <1>4, Facts
<1>8. Cardinality(keys) \in Nat /\ count \in Nat
  BY <1>3, Facts, FiniteKeys
<1> HIDE DEF count
<1>9. CASE due
  <2>1. rows' \in Prune(written, clock - TTL)
    BY <1>1, <1>9
  <2>2. writes' = 0
    BY <1>1, <1>9
  <2>3. pruneFailed' = FALSE
    BY <1>1, <1>9, Zenon
  <2>4. \A k \in DOMAIN written : written[k] \in Row /\ written[k].created <= clock
    BY <1>5
  <2>5. /\ Present' \subseteq Keys /\ \A k \in Present' : rows'[k] \in Row /\ rows'[k].created <= clock'
        /\ DOMAIN rows' \subseteq DOMAIN written
        /\ \A k \in DOMAIN rows' : rows'[k] = written[k] /\ rows'[k].hits = written[k].hits
        /\ Cardinality(Present') <= MaxEntries
        /\ \A k \in DOMAIN written \ DOMAIN rows' :
             ~(written[k].created >= clock - TTL) \/ Cardinality(DOMAIN rows') = MaxEntries
    BY <1>1, <1>7, <2>1, <2>4, PrunedRows
  <2>6. writes' \in Nat /\ pruneFailed' \in BOOLEAN
    BY <2>2, <2>3
  <2>7. Capped'
    <3>1. Cardinality(Present') \in Nat
      BY <2>5, FiniteKeys
    <3>2. Cardinality(Present') <= MaxEntries + 0 /\ 0 < PruneThreshold
      BY <2>5, <3>1, Constants
    <3> QED
      BY <2>2, <3>2 DEF Capped
  <2>8. RowStep
    <3>1. ASSUME NEW k \in Present \ DOMAIN rows', Cardinality(DOMAIN rows') # MaxEntries
          PROVE  \/ \E days \in Retentions : rows[k].created < clock - days
                 \/ k \in keys /\ stamp < clock - TTL
      <4>1. ~(written[k].created >= clock - TTL)
        BY <1>4, <2>5, <3>1
      <4>2. CASE k \in keys
        <5>1. written[k].created = stamp
          BY <1>4, <1>5, <4>2
        <5> QED
          BY <1>3, <4>1, <4>2, <5>1, Facts, Constants
      <4>3. CASE k \notin keys
        <5>1. written[k].created = rows[k].created /\ rows[k].created \in Nat
          BY <1>4, <1>5, <4>3, Facts DEF Row
        <5>2. rows[k].created < clock - TTL
          BY <4>1, <5>1, Facts, Constants
        <5> QED
          BY <5>2, Constants
      <4> QED
        BY <4>2, <4>3
    <3> QED
      BY <1>1, <3>1 DEF RowStep
  <2>9. \A k \in DOMAIN rows' : rows'[k].hits = written[k].hits
    BY <2>5
  <2>10. \A k \in DOMAIN written : written[k].hits \in Nat
    BY <1>5
  <2>11. IInv'
    BY <1>1, <1>2, <1>6, <1>7, <2>5, <2>6, <2>7, <2>9, <2>10, RowsReturn
  <2> QED
    BY <2>8, <2>11
<1>10. CASE ~due
  <2>1. rows' = written /\ writes' = count
    BY <1>1, <1>10
  <2>2. pruneFailed' = pruneFailed
    BY <1>1, <1>10, Facts, Zenon
  <2>3. Present' = DOMAIN written
    BY <2>1 DEF Present
  <2>4. writes' \in Nat /\ pruneFailed' \in BOOLEAN
    BY <1>8, <2>1, <2>2, Facts
  <2>5. /\ Present' \subseteq Keys /\ \A k \in Present' : rows'[k] \in Row /\ rows'[k].created <= clock'
    BY <1>1, <1>5, <1>7, <2>1, <2>3
  <2>6. Capped'
    <3>1. Cardinality(Present') <= Cardinality(Present) + Cardinality(keys)
      <4>1. IsFiniteSet(Present) /\ IsFiniteSet(keys)
        BY <1>3, Facts, FiniteKeys
      <4>2. Cardinality(Present \cup keys) = Cardinality(Present) + Cardinality(keys) - Cardinality(Present \cap keys)
        BY <4>1, FS_Union
      <4>3. /\ Cardinality(Present) \in Nat /\ Cardinality(keys) \in Nat
            /\ Cardinality(Present \cap keys) \in Nat
        <5>1. Present \cap keys \in SUBSET Keys
          BY <1>3
        <5> QED
          BY <1>3, <5>1, Facts, FiniteKeys
      <4>4. Present' = Present \cup keys
        BY <1>4, <2>3
      <4> QED
        BY <4>2, <4>3, <4>4
    <3>2. Cardinality(Present') \in Nat /\ Cardinality(Present) \in Nat
      BY <2>5, Facts, FiniteKeys
    <3>3. ~pruneFailed => Cardinality(Present) <= MaxEntries + writes
      BY Facts DEF Capped
    <3>4. count = writes + Cardinality(keys)
      BY DEF count
    <3>5. ~pruneFailed => Cardinality(Present') <= MaxEntries + count
      BY <1>8, <3>1, <3>2, <3>3, <3>4, Facts, Constants
    <3>6. count < PruneThreshold
      BY <1>8, <1>10, Constants
    <3> QED
      BY <2>1, <2>2, <3>5, <3>6 DEF Capped
  <2>7. RowStep
    <3>1. Present \ DOMAIN rows' = {}
      BY <1>4, <2>1
    <3> QED
      BY <3>1 DEF RowStep
  <2>8. \A k \in DOMAIN rows' : rows'[k].hits = written[k].hits
    BY <2>1
  <2>9. \A k \in DOMAIN written : written[k].hits \in Nat
    BY <1>5
  <2>10. DOMAIN rows' \subseteq DOMAIN written
    BY <2>1
  <2>11. IInv'
    BY <1>1, <1>2, <1>6, <1>7, <2>4, <2>5, <2>6, <2>8, <2>9, <2>10, RowsReturn
  <2> QED
    BY <2>7, <2>11
<1> QED
  BY <1>9, <1>10
\* cleanup and stats: what goes is older than the period they were given.
LEMMA RetainStep ==
    ASSUME IInv, NEW t \in Threads, Retain(t)
    PROVE  IInv' /\ RowStep
<1>1. /\ pc[t] = "retain" /\ Return(t) /\ rows' \in Prune(rows, Cutoff(t))
      /\ lost' = AddHits(lost, Dropped(rows, rows')) /\ pruneFailed' = FALSE
      /\ UNCHANGED <<clock, pending, pendingTotal, writes, flusher, taken, calls, recorded>>
  BY DEF Retain
<1>2. ~Swapped(t)
  BY <1>1 DEF Swapped
<1>3. /\ loc[t].stamp \in Nat /\ loc[t].stamp <= clock /\ loc[t].days \in Retentions
      /\ loc[t].days \in Nat /\ Cutoff(t) = loc[t].stamp - loc[t].days
  BY Facts, LocalFields, Constants DEF Located, Cutoff
<1>4. DOMAIN rows \subseteq Keys /\ \A k \in DOMAIN rows : rows[k] \in Row /\ rows[k].created <= clock
  BY Facts DEF TypeOK, Present
<1>5. /\ Present' \subseteq Keys /\ \A k \in Present' : rows'[k] \in Row /\ rows'[k].created <= clock'
      /\ DOMAIN rows' \subseteq DOMAIN rows
      /\ \A k \in DOMAIN rows' : rows'[k] = rows[k] /\ rows'[k].hits = rows[k].hits
      /\ Cardinality(Present') <= MaxEntries
      /\ \A k \in DOMAIN rows \ DOMAIN rows' :
           ~(rows[k].created >= Cutoff(t)) \/ Cardinality(DOMAIN rows') = MaxEntries
  BY <1>1, <1>4, PrunedRows
<1>6. Capped' /\ writes' \in Nat /\ pruneFailed' \in BOOLEAN
  <2>1. Cardinality(Present') \in Nat
    BY <1>5, FiniteKeys
  <2>2. Cardinality(Present') <= MaxEntries
    BY <1>5
  <2>3. writes' = writes /\ pruneFailed' = FALSE
    BY <1>1
  <2>4. writes \in Nat /\ writes < PruneThreshold
    BY Facts DEF Capped
  <2>5. Cardinality(Present') <= MaxEntries + writes
    BY <2>1, <2>2, <2>4, Constants
  <2> QED
    BY <2>3, <2>4, <2>5 DEF Capped
<1>7. RowStep
  <2>1. ASSUME NEW k \in Present \ DOMAIN rows', Cardinality(DOMAIN rows') # MaxEntries
        PROVE  rows[k].created < clock - loc[t].days
    <3>1. ~(rows[k].created >= Cutoff(t)) /\ rows[k].created \in Nat
      BY <1>4, <1>5, <2>1 DEF Present, Row
    <3> QED
      BY <1>3, <3>1, Facts
  <2> QED
    BY <1>3, <2>1 DEF RowStep
<1>8. \A k \in Keys : RowHits(k) = IF k \in DOMAIN rows THEN rows[k].hits ELSE 0
  BY DEF RowHits, Present
<1>9. \A k \in DOMAIN rows : rows[k].hits \in Nat
  BY Facts DEF Present
<1>10. \A k \in DOMAIN rows' : rows'[k].hits = rows[k].hits
  BY <1>5
<1>11. IInv'
  BY <1>1, <1>2, <1>4, <1>5, <1>6, <1>8, <1>9, <1>10, RowsReturn
<1> QED
  BY <1>7, <1>11

\* get: the row that is deleted has the expired stamp that was read.
LEMMA EvictStep ==
    ASSUME IInv, NEW t \in Threads, Evict(t)
    PROVE  IInv' /\ RowStep
<1> DEFINE kept == {k \in Present : ~ (k \in loc[t].keys /\ rows[k].created = loc[t].stamp)}
<1>1. /\ pc[t] = "evict" /\ Return(t) /\ rows' = Keep(rows, kept)
      /\ lost' = AddHits(lost, Dropped(rows, rows'))
      /\ UNCHANGED <<clock, pending, pendingTotal, writes, flusher, taken, calls,
                     recorded, pruneFailed>>
  BY DEF Evict
<1>2. ~Swapped(t)
  BY <1>1 DEF Swapped
<1>3. DOMAIN rows' = kept /\ \A k \in kept : rows'[k] = rows[k]
  BY <1>1 DEF Keep
<1>4. loc[t].stamp \in Nat /\ loc[t].stamp + TTL < clock
  BY <1>1, Facts, LocalFields DEF Located
<1>5. RowStep
  <2>1. ASSUME NEW k \in Present \ DOMAIN rows' PROVE rows[k].created < clock - TTL
    <3>1. rows[k].created = loc[t].stamp
      BY <1>3, <2>1
    <3> QED
      BY <1>4, <3>1, Facts, Constants
  <2> QED
    BY <2>1, Constants DEF RowStep
<1>6. Present' = kept /\ kept \in SUBSET Present /\ DOMAIN rows' \subseteq DOMAIN rows
  BY <1>3 DEF Present
<1>7. \A k \in Present' : rows'[k] \in Row /\ rows'[k].created <= clock'
  BY <1>1, <1>3, <1>6, Facts DEF TypeOK
<1>8. Capped'
  <2> HIDE DEF kept
  <2>1. kept \in SUBSET Keys /\ Present \in SUBSET Keys
    BY <1>6, Facts
  <2>2. Cardinality(kept) <= Cardinality(Present)
    BY <1>6, <2>1, FiniteKeys, FS_Subset
  <2>3. Cardinality(kept) \in Nat /\ Cardinality(Present) \in Nat
    BY <2>1, FiniteKeys
  <2>4. writes < PruneThreshold /\ (~pruneFailed => Cardinality(Present) <= MaxEntries + writes)
    BY Facts DEF Capped
  <2>5. ~pruneFailed => Cardinality(kept) <= MaxEntries + writes
    BY <2>2, <2>3, <2>4, Facts, Constants
  <2> QED
    BY <1>1, <1>6, <2>4, <2>5 DEF Capped
<1>9. \A k \in Keys : RowHits(k) = IF k \in DOMAIN rows THEN rows[k].hits ELSE 0
  BY DEF RowHits, Present
<1>10. \A k \in DOMAIN rows : rows[k].hits \in Nat
  BY Facts DEF Present
<1>11. \A k \in DOMAIN rows' : rows'[k].hits = rows[k].hits
  BY <1>3
<1>12. Present' \subseteq Keys /\ DOMAIN rows \subseteq Keys
  BY <1>6, Facts DEF Present
<1>13. writes' \in Nat /\ pruneFailed' \in BOOLEAN
  BY <1>1, Facts
<1>14. IInv'
  BY <1>1, <1>2, <1>6, <1>7, <1>8, <1>9, <1>10, <1>11, <1>12, <1>13, RowsReturn
<1> QED
  BY <1>5, <1>14

\* A step that moves one thread, and leaves rows and counters alone.
LEMMA MoveStep ==
    ASSUME IInv, NEW t \in Threads, NEW label \in Labels, ~Swapped(t),
           label \notin {"swapped", "swappedFirst", "retain", "put", "select"},
           Goto(t, label), NEW l \in Local, loc' = [loc EXCEPT ![t] = l],
           l.keys = loc[t].keys, l.seen = loc[t].seen, l.stamp <= clock,
           label = "served" => pc[t] = "select",
           label = "evict" => l.stamp + TTL < clock,
           UNCHANGED <<clock, rows, pending, pendingTotal, writes, flusher, taken, calls,
                       recorded, lost, pruneFailed>>
    PROVE  IInv' /\ RowStep
<1>1. pc' \in [Threads -> Labels] /\ pc'[t] = label /\ \A u \in Threads \ {t} : pc'[u] = pc[u]
  BY Facts, GotoFacts
<1>2. loc' \in [Threads -> Local] /\ loc'[t] = l /\ Moved(t)
  BY <1>1, Facts DEF TypeOK, Moved
<1>3. TypeOK'
  BY <1>1, <1>2, Facts DEF TypeOK, Present
<1>4. Flushing'
  BY <1>1, <1>2, Facts, FlushingStays
<1>5. Located'
  <2>1. pc'[t] \in {"select", "served"} => \E k \in Keys : loc'[t].keys = {k}
    BY <1>1, <1>2, Facts DEF Located
  <2> QED
    BY <1>1, <1>2, <2>1, Facts, LocatedStays
<1>6. \A k \in Keys : InFlush(k)' = InFlush(k) /\ RowHits(k)' = RowHits(k)
  BY DEF InFlush, RowHits, Present
<1>7. Accounts'
  BY <1>6, Facts DEF Accounts
<1>8. Barrier'
  BY <1>1, <1>2, <1>6, Facts DEF Barrier, Moved
<1>9. Capped' /\ RowStep
  BY Facts, RowsStay DEF Capped, Present
<1> QED
  BY <1>3, <1>4, <1>5, <1>7, <1>8, <1>9 DEF IInv

\* get: a row that is about to be evicted had expired.
LEMMA SelectStep ==
    ASSUME IInv, NEW t \in Threads, Select(t)
    PROVE  IInv' /\ RowStep
<1> DEFINE k == KeyOf(t)
           old == rows[k].created
<1>1. /\ pc[t] = "select"
      /\ UNCHANGED <<clock, rows, pending, pendingTotal, writes, flusher, taken, calls,
                     recorded, lost, pruneFailed>>
      /\ \/ Return(t)
         \/ k \in Present /\ old < Cutoff(t) /\ Goto(t, "evict") /\ loc' = [loc EXCEPT ![t].stamp = old]
         \/ Goto(t, "served") /\ UNCHANGED loc
  BY DEF Select, store, ghosts
<1>2. ~Swapped(t)
  BY <1>1 DEF Swapped
<1>3. loc[t] \in Local /\ loc[t].days = TTL /\ loc[t].stamp \in Nat /\ loc[t].stamp <= clock
  BY <1>1, Facts, LocalFields DEF Located
<1>4. CASE Return(t)
  <2>1. writes' \in Nat /\ pruneFailed' \in BOOLEAN /\ Capped'
    BY <1>1, Facts DEF Capped, Present
  <2> QED
    BY <1>1, <1>2, <1>4, <2>1, ReturnStep
<1>5. CASE k \in Present /\ old < Cutoff(t) /\ Goto(t, "evict") /\ loc' = [loc EXCEPT ![t].stamp = old]
  <2> DEFINE l == [loc[t] EXCEPT !.stamp = old]
  <2>1. old \in Nat /\ old <= clock
    BY <1>5, Facts DEF TypeOK, Row
  <2>2. old + TTL < clock
    <3>1. old < loc[t].stamp - TTL
      BY <1>3, <1>5 DEF Cutoff
    <3> HIDE DEF old
    <3> QED
      BY <1>3, <2>1, <3>1, Facts, Constants
  <2> HIDE DEF old
  <2>3. l \in Local /\ l.keys = loc[t].keys /\ l.seen = loc[t].seen /\ l.stamp = old
    BY <1>3, <2>1 DEF Local
  <2>4. loc' = [loc EXCEPT ![t] = l]
    BY <1>5
  <2>5. "evict" \in Labels
    BY DEF Labels
  <2> HIDE DEF l
  <2> QED
    BY <1>1, <1>2, <1>5, <2>1, <2>2, <2>3, <2>4, <2>5, MoveStep
<1>6. CASE Goto(t, "served") /\ UNCHANGED loc
  <2>1. loc' = [loc EXCEPT ![t] = loc[t]]
    BY <1>6, Facts DEF TypeOK
  <2>2. "served" \in Labels
    BY DEF Labels
  <2> QED
    BY <1>1, <1>2, <1>3, <1>6, <2>1, <2>2, MoveStep
<1> QED
  BY <1>1, <1>4, <1>5, <1>6
\* A hit is counted where it is queued.
LEMMA QueueHitStep ==
    ASSUME IInv, NEW t \in Threads, QueueHit(t)
    PROVE  IInv' /\ RowStep
<1> DEFINE h == KeyOf(t)
<1>1. /\ pc[t] = "served"
      /\ pending' = [pending EXCEPT ![h] = @ + 1]
      /\ pendingTotal' = pendingTotal + 1
      /\ recorded' = [recorded EXCEPT ![h] = @ + 1]
      /\ \/ Goto(t, "flush") /\ UNCHANGED loc
         \/ Return(t)
      /\ UNCHANGED <<clock, rows, writes, flusher, taken, calls, lost, pruneFailed>>
  BY DEF QueueHit
<1>2. h \in Keys
  <2>1. PICK k \in Keys : loc[t].keys = {k}
    BY <1>1, Facts DEF Located
  <2> QED
    BY <2>1 DEF KeyOf
<1> HIDE DEF h
<1>3. ~Swapped(t)
  BY <1>1 DEF Swapped
<1>4. /\ pending' \in [Keys -> Nat] /\ recorded' \in [Keys -> Nat]
      /\ \A k \in Keys : /\ pending[k] \in Nat /\ recorded[k] \in Nat
                         /\ pending'[k] = (IF k = h THEN pending[k] + 1 ELSE pending[k])
                         /\ recorded'[k] = (IF k = h THEN recorded[k] + 1 ELSE recorded[k])
  BY <1>1, <1>2, Facts
<1>5. /\ pc' \in [Threads -> Labels] /\ pc'[t] \in {"flush", "idle"}
      /\ loc' \in [Threads -> Local] /\ Moved(t)
      /\ loc'[t] = loc[t] \/ loc'[t] = Idle
  <2>1. CASE Goto(t, "flush") /\ UNCHANGED loc
    BY <2>1, Facts, GotoFacts DEF Labels, Moved, TypeOK
  <2>2. CASE Return(t)
    BY <2>2, Facts, ReturnFacts
  <2> QED
    BY <1>1, <2>1, <2>2
<1>6. TypeOK'
  BY <1>1, <1>4, <1>5, Facts DEF TypeOK, Present
<1>7. Flushing'
  BY <1>1, <1>3, <1>5, Facts, FlushingStays
<1>8. Located'
  <2>1. loc'[t].stamp <= clock
    BY <1>5, Facts, IdleIsLocal DEF Located
  <2> QED
    BY <1>1, <1>5, <2>1, Facts, LocatedStays
<1>9. \A k \in Keys : InFlush(k)' = InFlush(k) /\ RowHits(k)' = RowHits(k)
  BY <1>1 DEF InFlush, RowHits, Present
<1>10. \A k \in Keys : RowHits(k) \in Nat /\ lost[k] \in Nat /\ InFlush(k) \in Nat
  BY Facts DEF RowHits
<1>11. Accounts'
  <2>1. ASSUME NEW k \in Keys
        PROVE  recorded'[k] = RowHits(k)' + pending'[k] + InFlush(k)' + lost'[k]
    <3>1. recorded[k] = RowHits(k) + pending[k] + InFlush(k) + lost[k]
      BY Facts DEF Accounts
    <3>2. lost'[k] = lost[k]
      BY <1>1
    <3> HIDE DEF RowHits, InFlush
    <3> QED
      BY <1>4, <1>9, <1>10, <3>1, <3>2
  <2> QED
    BY <2>1 DEF Accounts
<1>12. Barrier'
  <2>1. \A k \in Keys : /\ recorded[k] <= recorded'[k]
                        /\ pending'[k] + recorded[k] <= pending[k] + recorded'[k]
                        /\ pending'[k] + InFlush(k)' + recorded[k] <= pending[k] + InFlush(k) + recorded'[k]
                        /\ InFlush(k) \in Nat /\ InFlush(k)' \in Nat
    BY <1>4, <1>9, <1>10
  <2>2. loc'[t].seen \in [Keys -> Nat] /\ pc'[t] # "swappedFirst" /\ pc'[t] # "retain"
    BY <1>5, LocalFields
  <2>3. \A k \in Keys : loc'[t].seen[k] <= recorded'[k]
    <3>1. CASE loc'[t] = loc[t]
      <4>1. ASSUME NEW k \in Keys PROVE loc[t].seen[k] <= recorded'[k]
        <5>1. loc[t].seen[k] \in Nat /\ loc[t].seen[k] <= recorded[k]
          BY Facts, LocalFields DEF Barrier
        <5> QED
          BY <1>4, <5>1
      <4> QED
        BY <3>1, <4>1
    <3>2. CASE loc'[t] = Idle
      BY <1>4, <3>2, IdleIsLocal DEF NoHits
    <3> QED
      BY <1>5, <3>1, <3>2
  <2> QED
    BY <1>4, <1>5, <2>1, <2>2, <2>3, Facts, BarrierStays
<1>13. Capped' /\ RowStep
  BY <1>1, Facts, RowsStay DEF Capped, Present
<1> QED
  BY <1>6, <1>7, <1>8, <1>11, <1>12, <1>13 DEF IInv

\* What follows a flush: the call returns, or goes on to retention with the
\* instant of the flush.
LEMMA AfterFlushFacts ==
    ASSUME IInv, NEW t \in Threads, NEW label \in {"flush", "flushFirst"}, AfterFlush(t, label)
    PROVE  /\ pc' \in [Threads -> Labels] /\ loc' \in [Threads -> Local] /\ Moved(t)
           /\ \/ label = "flush" /\ pc'[t] = "idle" /\ loc'[t] = Idle
              \/ label = "flushFirst" /\ pc'[t] = "retain" /\ loc'[t].seen = loc[t].seen
           /\ loc'[t].stamp <= clock
<1>1. CASE label = "flush"
  <2>1. Return(t)
    BY <1>1 DEF AfterFlush
  <2> QED
    BY <1>1, <2>1, Facts, ReturnFacts, IdleIsLocal
<1>2. CASE label = "flushFirst"
  <2> DEFINE l == [loc[t] EXCEPT !.stamp = clock]
  <2>1. Goto(t, "retain") /\ loc' = [loc EXCEPT ![t] = l]
    BY <1>2 DEF AfterFlush
  <2>2. l \in Local /\ l.stamp = clock /\ l.seen = loc[t].seen
    BY Facts DEF Local
  <2> HIDE DEF l
  <2>3. "retain" \in Labels
    BY DEF Labels
  <2>4. pc' \in [Threads -> Labels] /\ pc'[t] = "retain" /\ \A u \in Threads \ {t} : pc'[u] = pc[u]
    BY <2>1, <2>3, Facts, GotoFacts
  <2>5. loc' \in [Threads -> Local] /\ loc'[t] = l /\ \A u \in Threads \ {t} : loc'[u] = loc[u]
    BY <2>1, <2>2, Facts DEF TypeOK
  <2> QED
    BY <1>2, <2>2, <2>4, <2>5, Facts DEF Moved
<1> QED
  BY <1>1, <1>2
\* A flush takes the counter, and with it all that the call had seen.
LEMMA FlushSwapStep ==
    ASSUME IInv, NEW t \in Threads, FlushSwap(t)
    PROVE  IInv' /\ RowStep
<1>1. /\ pc[t] \in {"flush", "flushFirst"} /\ flusher = NoThread
      /\ UNCHANGED <<clock, rows, writes, calls, recorded, lost, pruneFailed>>
  BY DEF FlushSwap, AtFlush, ghosts
<1>2. ~Swapped(t)
  BY <1>1 DEF Swapped
<1>3. \A k \in Keys : InFlush(k) = 0
  BY <1>1 DEF InFlush
<1>4. \A u \in Threads : ~Swapped(u)
  BY <1>1, Facts, Constants DEF Flushing
<1>5. Capped' /\ RowStep
  BY <1>1, Facts, RowsStay DEF Capped, Present
<1>6. \A k \in Keys : RowHits(k)' = RowHits(k)
  BY <1>1 DEF RowHits, Present
<1>7. \A k \in Keys : recorded[k] \in Nat /\ pending[k] \in Nat
  BY Facts
<1>8. CASE pending = NoHits
  <2>1. AfterFlush(t, pc[t]) /\ UNCHANGED <<pending, pendingTotal, flusher, taken>>
    BY <1>8 DEF FlushSwap
  <2>2. /\ pc' \in [Threads -> Labels] /\ loc' \in [Threads -> Local] /\ Moved(t)
        /\ \/ pc'[t] = "idle" /\ loc'[t] = Idle
           \/ pc'[t] = "retain" /\ loc'[t].seen = loc[t].seen
        /\ loc'[t].stamp <= clock
    BY <1>1, <2>1, AfterFlushFacts
  <2>3. TypeOK'
    BY <1>1, <2>1, <2>2, Facts DEF TypeOK, Present
  <2>4. Flushing'
    BY <1>2, <2>1, <2>2, Facts, FlushingStays
  <2>5. Located'
    BY <1>1, <2>2, Facts, LocatedStays
  <2>6. \A k \in Keys : InFlush(k)' = InFlush(k)
    BY <2>1 DEF InFlush
  <2>7. Accounts'
    BY <1>1, <1>6, <2>1, <2>6, Facts DEF Accounts
  <2>8. Barrier'
    <3>1. \A k \in Keys : /\ recorded[k] <= recorded'[k]
                          /\ pending'[k] + recorded[k] <= pending[k] + recorded'[k]
                          /\ pending'[k] + InFlush(k)' + recorded[k] <= pending[k] + InFlush(k) + recorded'[k]
                          /\ InFlush(k) \in Nat /\ InFlush(k)' \in Nat
      BY <1>1, <1>3, <1>7, <2>1, <2>6
    <3>2. loc'[t].seen \in [Keys -> Nat] /\ pc'[t] # "swappedFirst"
      BY <2>2, LocalFields
    <3>3. \A k \in Keys : loc'[t].seen[k] <= recorded'[k]
      BY <1>1, <1>7, <2>2, Facts, IdleIsLocal DEF Barrier, NoHits
    <3>4. \A k \in Keys : pending'[k] + InFlush(k)' + loc'[t].seen[k] <= recorded'[k]
      <4>1. ASSUME NEW k \in Keys PROVE pending'[k] + InFlush(k)' + loc'[t].seen[k] <= recorded'[k]
        <5>1. pending'[k] = 0 /\ InFlush(k)' = 0
          BY <1>3, <1>8, <2>1, <2>6 DEF NoHits
        <5>2. loc'[t].seen[k] \in Nat /\ loc'[t].seen[k] <= recorded'[k]
          BY <3>2, <3>3
        <5> QED
          BY <5>1, <5>2
      <4> QED
        BY <4>1
    <3>5. recorded' \in [Keys -> Nat] /\ pending' \in [Keys -> Nat]
      BY <1>1, <2>1, Facts
    <3> QED
      BY <2>2, <3>1, <3>2, <3>3, <3>4, <3>5, Facts, BarrierStays
  <2> QED
    BY <1>5, <2>3, <2>4, <2>5, <2>7, <2>8 DEF IInv
<1>9. CASE pending # NoHits
  <2> DEFINE label == IF pc[t] = "flush" THEN "swapped" ELSE "swappedFirst"
             l == [loc[t] EXCEPT !.stamp = clock]
  <2>1. /\ flusher' = t /\ taken' = [taken EXCEPT ![t] = pending]
        /\ pending' = NoHits /\ pendingTotal' = 0
        /\ Goto(t, label) /\ loc' = [loc EXCEPT ![t] = l]
    BY <1>9 DEF FlushSwap
  <2>2. l \in Local /\ l.stamp = clock /\ l.seen = loc[t].seen
    BY Facts DEF Local
  <2>3. label \in Labels /\ label \in {"swapped", "swappedFirst"}
    BY DEF Labels
  <2> HIDE DEF l, label
  <2>4. pc' \in [Threads -> Labels] /\ pc'[t] = label /\ \A u \in Threads \ {t} : pc'[u] = pc[u]
    BY <2>1, <2>3, Facts, GotoFacts
  <2>5. loc' \in [Threads -> Local] /\ loc'[t] = l /\ Moved(t)
    BY <2>1, <2>2, <2>4, Facts DEF TypeOK, Moved
  <2>6. pending' \in [Keys -> Nat] /\ \A k \in Keys : pending'[k] = 0
    BY <2>1 DEF NoHits
  <2>7. taken' \in [Threads -> [Keys -> Nat]] /\ taken'[t] = pending /\ \A u \in Threads \ {t} : taken'[u] = taken[u]
    BY <2>1, Facts
  <2>8. TypeOK'
    BY <1>1, <2>1, <2>4, <2>5, <2>6, <2>7, Facts DEF TypeOK, Present
  <2>9. Flushing'
    BY <1>4, <2>1, <2>3, <2>4, <2>7, Facts DEF Flushing, Swapped
  <2>10. Located'
    BY <1>1, <2>2, <2>3, <2>4, <2>5, Facts, LocatedStays
  <2>11. \A k \in Keys : InFlush(k)' = pending[k]
    BY <2>1, <2>7, Constants DEF InFlush
  <2>12. Accounts'
    <3>1. ASSUME NEW k \in Keys
          PROVE  recorded'[k] = RowHits(k)' + pending'[k] + InFlush(k)' + lost'[k]
      <4>1. recorded[k] = RowHits(k) + pending[k] + InFlush(k) + lost[k]
        BY Facts DEF Accounts
      <4>2. RowHits(k) \in Nat /\ lost[k] \in Nat /\ lost'[k] = lost[k] /\ recorded'[k] = recorded[k]
        BY <1>1, Facts DEF RowHits
      <4> HIDE DEF RowHits, InFlush
      <4> QED
        BY <1>3, <1>6, <1>7, <2>6, <2>11, <4>1, <4>2
    <3> QED
      BY <3>1 DEF Accounts
  <2>13. Barrier'
    <3>1. \A k \in Keys : /\ recorded[k] <= recorded'[k]
                          /\ pending'[k] + recorded[k] <= pending[k] + recorded'[k]
                          /\ pending'[k] + InFlush(k)' + recorded[k] <= pending[k] + InFlush(k) + recorded'[k]
                          /\ InFlush(k) \in Nat /\ InFlush(k)' \in Nat
      BY <1>1, <1>3, <1>7, <2>6, <2>11
    <3>2. loc'[t].seen \in [Keys -> Nat] /\ pc'[t] # "retain"
      BY <2>3, <2>4, <2>5, LocalFields
    <3>3. \A k \in Keys : loc'[t].seen[k] <= recorded'[k] /\ loc'[t].seen[k] \in Nat
      BY <1>1, <2>2, <2>5, <3>2, Facts DEF Barrier
    <3>4. \A k \in Keys : pending'[k] + loc'[t].seen[k] <= recorded'[k]
      BY <2>6, <3>3
    <3>5. recorded' \in [Keys -> Nat]
      BY <1>1, Facts
    <3> QED
      BY <2>5, <2>6, <3>1, <3>2, <3>3, <3>4, <3>5, Facts, BarrierStays
  <2> QED
    BY <1>5, <2>8, <2>9, <2>10, <2>12, <2>13 DEF IInv
<1> QED
  BY <1>8, <1>9

\* What a thread that holds the swapped counter knows.
LEMMA HolderFacts ==
    ASSUME IInv, NEW t \in Threads, Swapped(t)
    PROVE  /\ flusher = t /\ flusher # NoThread
           /\ \A u \in Threads \ {t} : ~Swapped(u) /\ taken[u] = NoHits
           /\ taken[t] \in [Keys -> Nat]
           /\ \A k \in Keys : InFlush(k) = taken[t][k]
BY Facts, Constants DEF Flushing, InFlush

\* The holder gives the counter up, into the rows or back to memory.
LEMMA FlushEnds ==
    ASSUME IInv, NEW t \in Threads, Swapped(t), pc' \in [Threads -> Labels], Moved(t),
           ~(pc'[t] \in {"swapped", "swappedFirst"}),
           taken' = [taken EXCEPT ![t] = NoHits], flusher' = NoThread
    PROVE  /\ Flushing' /\ taken' \in [Threads -> [Keys -> Nat]]
           /\ \A k \in Keys : InFlush(k)' = 0
<1>1. NoHits \in [Keys -> Nat]
  BY DEF NoHits
<1>2. taken' \in [Threads -> [Keys -> Nat]] /\ taken'[t] = NoHits /\ \A u \in Threads \ {t} : taken'[u] = taken[u]
  BY <1>1, Facts
<1>3. \A u \in Threads \ {t} : pc'[u] = pc[u]
  BY DEF Moved
<1>4. \A u \in Threads : ~Swapped(u)' /\ taken'[u] = NoHits
  BY <1>2, <1>3, HolderFacts DEF Swapped
<1> QED
  BY <1>2, <1>4 DEF Flushing, InFlush
\* The hits go into the rows that still exist.
LEMMA FlushCommitStep ==
    ASSUME IInv, NEW t \in Threads, FlushCommit(t)
    PROVE  IInv' /\ RowStep
<1> DEFINE label == IF pc[t] = "swapped" THEN "flush" ELSE "flushFirst"
           after(k) == IF taken[t][k] = 0 THEN rows[k]
                       ELSE [rows[k] EXCEPT !.hits = @ + taken[t][k], !.accessed = loc[t].stamp]
<1>1. /\ Swapped(t) /\ rows' = [k \in Present |-> after(k)]
      /\ lost' = AddHits(lost, [k \in Keys |-> IF k \in Present THEN 0 ELSE taken[t][k]])
      /\ taken' = [taken EXCEPT ![t] = NoHits] /\ flusher' = NoThread
      /\ AfterFlush(t, label)
      /\ UNCHANGED <<clock, pending, pendingTotal, writes, calls, recorded, pruneFailed>>
  BY DEF FlushCommit
<1>2. /\ flusher = t /\ taken[t] \in [Keys -> Nat] /\ \A k \in Keys : InFlush(k) = taken[t][k]
  BY <1>1, HolderFacts
<1>3. label \in {"flush", "flushFirst"} /\ (label = "flush" <=> pc[t] = "swapped")
  OBVIOUS
<1>4. pc[t] \in {"swapped", "swappedFirst"}
  BY <1>1 DEF Swapped
<1> HIDE DEF label
<1>5. /\ pc' \in [Threads -> Labels] /\ loc' \in [Threads -> Local] /\ Moved(t)
      /\ \/ pc'[t] = "idle" /\ loc'[t] = Idle
         \/ pc[t] = "swappedFirst" /\ pc'[t] = "retain" /\ loc'[t].seen = loc[t].seen
      /\ loc'[t].stamp <= clock
  BY <1>1, <1>3, <1>4, AfterFlushFacts
<1>6. Flushing' /\ taken' \in [Threads -> [Keys -> Nat]] /\ \A k \in Keys : InFlush(k)' = 0
  BY <1>1, <1>5, FlushEnds
<1>7. \A k \in Present : /\ after(k) \in Row /\ after(k).created = rows[k].created
                         /\ after(k).hits = rows[k].hits + taken[t][k]
  <2>1. ASSUME NEW k \in Present
        PROVE  /\ after(k) \in Row /\ after(k).created = rows[k].created
               /\ after(k).hits = rows[k].hits + taken[t][k]
    <3> DEFINE r == rows[k]
               n == taken[t][k]
               s == loc[t].stamp
    <3>1. r \in Row /\ r.hits \in Nat /\ n \in Nat /\ s \in Nat
      BY <1>2, Facts, LocalFields
    <3>2. after(k) = IF n = 0 THEN r ELSE [r EXCEPT !.hits = @ + n, !.accessed = s]
      OBVIOUS
    <3> HIDE DEF after, r, n, s
    <3>3. CASE n = 0
      BY <3>1, <3>2, <3>3 DEF r, n
    <3>4. CASE n # 0
      <4> DEFINE more == r.hits + n
                 e == [r EXCEPT !.hits = more, !.accessed = s]
      <4>1. after(k) = e
        BY <3>2, <3>4
      <4>2. more \in Nat
        BY <3>1
      <4>3. e \in Row /\ e.created = r.created /\ e.hits = more
        <5> HIDE DEF more
        <5> QED
          BY <3>1, <4>2 DEF Row
      <4> HIDE DEF e
      <4> QED
        BY <4>1, <4>3 DEF r, n
    <3> QED
      BY <3>3, <3>4
  <2> QED
    BY <2>1
<1> HIDE DEF after
<1>8. Present' = Present /\ \A k \in Present : rows'[k] = after(k)
  BY <1>1 DEF Present
<1>9. lost' \in [Keys -> Nat] /\ \A k \in Keys : lost'[k] = lost[k] + (IF k \in Present THEN 0 ELSE taken[t][k])
  BY <1>1, <1>2, Facts DEF AddHits
<1>10. TypeOK'
  <2>1. \A k \in Present' : rows'[k] \in Row /\ rows'[k].created <= clock'
    BY <1>1, <1>7, <1>8, Facts DEF TypeOK
  <2> QED
    BY <1>1, <1>5, <1>6, <1>8, <1>9, <2>1, Facts DEF TypeOK
<1>11. Located'
  BY <1>1, <1>5, Facts, LocatedStays
<1>12. Accounts'
  <2>1. ASSUME NEW k \in Keys
        PROVE  recorded'[k] = RowHits(k)' + pending'[k] + InFlush(k)' + lost'[k]
    <3>1. recorded[k] = RowHits(k) + pending[k] + taken[t][k] + lost[k]
      BY <1>2, Facts DEF Accounts
    <3>2. /\ pending[k] \in Nat /\ taken[t][k] \in Nat /\ lost[k] \in Nat /\ RowHits(k) \in Nat
          /\ recorded'[k] = recorded[k] /\ pending'[k] = pending[k]
      BY <1>1, <1>2, Facts DEF RowHits
    <3>3. k \in Present => RowHits(k)' = RowHits(k) + taken[t][k]
      BY <1>7, <1>8 DEF RowHits
    <3>4. k \notin Present => RowHits(k)' = 0 /\ RowHits(k) = 0
      BY <1>8 DEF RowHits
    <3> HIDE DEF RowHits, InFlush
    <3> QED
      BY <1>6, <1>9, <3>1, <3>2, <3>3, <3>4
  <2> QED
    BY <2>1 DEF Accounts
<1>13. Barrier'
  <2>1. \A k \in Keys : recorded[k] \in Nat /\ pending[k] \in Nat /\ taken[t][k] \in Nat
    BY <1>2, Facts
  <2>2. \A k \in Keys : /\ recorded[k] <= recorded'[k]
                        /\ pending'[k] + recorded[k] <= pending[k] + recorded'[k]
                        /\ pending'[k] + InFlush(k)' + recorded[k] <= pending[k] + InFlush(k) + recorded'[k]
                        /\ InFlush(k) \in Nat /\ InFlush(k)' \in Nat
    BY <1>1, <1>2, <1>6, <2>1
  <2>3. loc'[t].seen \in [Keys -> Nat] /\ pc'[t] # "swappedFirst"
    BY <1>5, LocalFields
  <2>4. \A k \in Keys : loc'[t].seen[k] <= recorded'[k]
    BY <1>1, <1>5, <2>1, Facts, IdleIsLocal DEF Barrier, NoHits
  <2>5. ASSUME pc'[t] = "retain", NEW k \in Keys
        PROVE  pending'[k] + InFlush(k)' + loc'[t].seen[k] <= recorded'[k]
    <3>1. pending[k] + loc[t].seen[k] <= recorded[k]
      BY <1>5, <2>5, Facts DEF Barrier
    <3>2. loc'[t].seen[k] = loc[t].seen[k] /\ loc'[t].seen[k] \in Nat
      BY <1>5, <2>3, <2>5
    <3> HIDE DEF InFlush
    <3> QED
      BY <1>1, <1>6, <2>1, <3>1, <3>2
  <2>6. recorded' \in [Keys -> Nat] /\ pending' \in [Keys -> Nat]
    BY <1>1, Facts
  <2> HIDE DEF InFlush
  <2> QED
    BY <1>5, <2>2, <2>3, <2>4, <2>5, <2>6, Facts, BarrierStays
<1>14. Capped'
  BY <1>1, <1>8, Facts DEF Capped
<1>15. RowStep
  BY <1>8 DEF RowStep, Present
<1> QED
  BY <1>6, <1>10, <1>11, <1>12, <1>13, <1>14, <1>15 DEF IInv

\* The hits go back to the counter.
LEMMA FlushFailStep ==
    ASSUME IInv, NEW t \in Threads, FlushFail(t)
    PROVE  IInv' /\ RowStep
<1>1. /\ Swapped(t) /\ pending' = AddHits(pending, taken[t])
      /\ pendingTotal' = pendingTotal + SumHits(taken[t])
      /\ taken' = [taken EXCEPT ![t] = NoHits] /\ flusher' = NoThread /\ Return(t)
      /\ UNCHANGED <<clock, rows, writes, calls, recorded, lost, pruneFailed>>
  BY DEF FlushFail, ghosts
<1>2. /\ flusher = t /\ taken[t] \in [Keys -> Nat] /\ \A k \in Keys : InFlush(k) = taken[t][k]
      /\ \A u \in Threads \ {t} : ~Swapped(u)
  BY <1>1, HolderFacts
<1>3. /\ pc' \in [Threads -> Labels] /\ loc' \in [Threads -> Local]
      /\ pc'[t] = "idle" /\ loc'[t] = Idle /\ Moved(t)
  BY <1>1, Facts, ReturnFacts
<1>4. Flushing' /\ taken' \in [Threads -> [Keys -> Nat]] /\ \A k \in Keys : InFlush(k)' = 0
  BY <1>1, <1>3, FlushEnds
<1>5. /\ pending' \in [Keys -> Nat]
      /\ \A k \in Keys : /\ pending'[k] = pending[k] + taken[t][k]
                         /\ pending[k] \in Nat /\ taken[t][k] \in Nat /\ recorded[k] \in Nat
  BY <1>1, <1>2, Facts DEF AddHits
<1>6. pendingTotal' \in Nat
  <2>1. SumHits(taken[t]) \in Nat
    BY <1>2, SumIsNat, Constants
  <2> QED
    BY <1>1, <2>1, Facts
<1>7. TypeOK'
  BY <1>1, <1>3, <1>4, <1>5, <1>6, Facts DEF TypeOK, Present
<1>8. Located'
  BY <1>1, Facts, LocatedOnReturn
<1>9. Accounts'
  <2>1. ASSUME NEW k \in Keys
        PROVE  recorded'[k] = RowHits(k)' + pending'[k] + InFlush(k)' + lost'[k]
    <3>1. recorded[k] = RowHits(k) + pending[k] + taken[t][k] + lost[k]
      BY <1>2, Facts DEF Accounts
    <3>2. /\ lost[k] \in Nat /\ RowHits(k) \in Nat /\ recorded'[k] = recorded[k] /\ lost'[k] = lost[k]
          /\ RowHits(k)' = RowHits(k)
      BY <1>1, Facts DEF RowHits, Present
    <3> HIDE DEF RowHits, InFlush
    <3> QED
      BY <1>4, <1>5, <3>1, <3>2
  <2> QED
    BY <2>1 DEF Accounts
<1>10. Barrier'
  <2>1. ASSUME NEW u \in Threads, NEW k \in Keys
        PROVE  /\ loc'[u].seen[k] <= recorded'[k]
               /\ pc'[u] # "swappedFirst"
               /\ pc'[u] = "retain" => pending'[k] + InFlush(k)' + loc'[u].seen[k] <= recorded'[k]
    <3>1. CASE u = t
      BY <1>1, <1>3, <1>5, <3>1, IdleIsLocal DEF NoHits
    <3>2. CASE u # t
      <4>1. pc'[u] = pc[u] /\ loc'[u].seen[k] = loc[u].seen[k] /\ pc[u] # "swappedFirst"
        BY <1>2, <1>3, <3>2 DEF Moved, Swapped
      <4>2. loc[u].seen[k] \in Nat /\ loc[u].seen[k] <= recorded[k]
        BY Facts, LocalFields DEF Barrier
      <4>3. pc[u] = "retain" => pending[k] + taken[t][k] + loc[u].seen[k] <= recorded[k]
        BY <1>2, Facts DEF Barrier
      <4> HIDE DEF InFlush
      <4> QED
        BY <1>1, <1>4, <1>5, <4>1, <4>2, <4>3
    <3> QED
      BY <3>1, <3>2
  <2> QED
    BY <2>1 DEF Barrier
<1>11. Capped' /\ RowStep
  BY <1>1, Facts, RowsStay DEF Capped, Present
<1> QED
  BY <1>4, <1>7, <1>8, <1>9, <1>10, <1>11 DEF IInv
\* What the process had in memory is given up, and the rows it prunes.
LEMMA RestartStep ==
    ASSUME IInv, Restart
    PROVE  IInv' /\ RowStep
<1>1. /\ calls < MaxCalls /\ calls' = calls + 1
      /\ rows' \in Prune(rows, clock - TTL)
      /\ lost' = [k \in Keys |-> lost[k] + pending[k] + Dropped(rows, rows')[k]
                                 + SumHits([t \in Threads |-> taken[t][k]])]
      /\ pending' = NoHits /\ pendingTotal' = 0 /\ writes' = 0 /\ flusher' = NoThread
      /\ taken' = [t \in Threads |-> NoHits] /\ pc' = [t \in Threads |-> "idle"]
      /\ loc' = [t \in Threads |-> Idle] /\ pruneFailed' = FALSE
      /\ UNCHANGED <<clock, recorded>>
  BY DEF Restart
<1>2. DOMAIN rows \subseteq Keys /\ \A k \in DOMAIN rows : rows[k] \in Row /\ rows[k].created <= clock
  BY Facts DEF TypeOK, Present
<1>3. /\ Present' \subseteq Keys /\ \A k \in Present' : rows'[k] \in Row /\ rows'[k].created <= clock'
      /\ DOMAIN rows' \subseteq DOMAIN rows
      /\ \A k \in DOMAIN rows' : rows'[k] = rows[k] /\ rows'[k].hits = rows[k].hits
      /\ Cardinality(Present') <= MaxEntries
      /\ \A k \in DOMAIN rows \ DOMAIN rows' :
           ~(rows[k].created >= clock - TTL) \/ Cardinality(DOMAIN rows') = MaxEntries
  BY <1>1, <1>2, PrunedRows
<1>4. NoHits \in [Keys -> Nat] /\ \A k \in Keys : NoHits[k] = 0
  BY DEF NoHits
<1>5. ASSUME NEW k \in Keys
      PROVE  /\ lost'[k] \in Nat
             /\ recorded'[k] = RowHits(k)' + pending'[k] + InFlush(k)' + lost'[k]
  <2>1. /\ SumHits([t \in Threads |-> taken[t][k]]) = InFlush(k) /\ InFlush(k) \in Nat
        /\ lost[k] \in Nat /\ pending[k] \in Nat /\ RowHits(k) \in Nat
    BY Facts, TakenSum DEF RowHits
  <2>2. Dropped(rows, rows')[k] = IF k \in DOMAIN rows \ DOMAIN rows' THEN rows[k].hits ELSE 0
    BY DEF Dropped
  <2>3. /\ RowHits(k)' + Dropped(rows, rows')[k] = RowHits(k)
        /\ Dropped(rows, rows')[k] \in Nat /\ RowHits(k)' \in Nat
    <3>1. k \in DOMAIN rows => rows[k].hits \in Nat
      BY Facts DEF Present
    <3> QED
      BY <1>3, <2>2, <3>1 DEF RowHits, Present
  <2>4. lost'[k] = lost[k] + pending[k] + Dropped(rows, rows')[k] + InFlush(k)
    BY <1>1, <2>1
  <2>5. pending'[k] = 0 /\ InFlush(k)' = 0 /\ recorded'[k] = recorded[k]
    BY <1>1, <1>4 DEF InFlush
  <2>6. recorded[k] = RowHits(k) + pending[k] + InFlush(k) + lost[k]
    BY Facts DEF Accounts
  <2> HIDE DEF RowHits, InFlush
  <2> QED
    BY <2>1, <2>3, <2>4, <2>5, <2>6
<1>6. lost' \in [Keys -> Nat]
  BY <1>1, <1>5
<1>7. TypeOK'
  <2>1. calls' \in 0 .. MaxCalls
    BY <1>1, Facts, Constants DEF TypeOK
  <2>2. taken' \in [Threads -> [Keys -> Nat]] /\ loc' \in [Threads -> Local] /\ pc' \in [Threads -> Labels]
    BY <1>1, <1>4, IdleIsLocal DEF Labels
  <2>3. clock' \in 0 .. MaxTime /\ recorded' \in [Keys -> Nat] /\ pending' \in [Keys -> Nat]
    BY <1>1, <1>4, Facts DEF TypeOK
  <2>4. pendingTotal' \in Nat /\ writes' \in Nat /\ flusher' \in Threads \cup {NoThread} /\ pruneFailed' \in BOOLEAN
    BY <1>1
  <2> QED
    BY <1>3, <1>6, <2>1, <2>2, <2>3, <2>4 DEF TypeOK
<1>8. Flushing'
  BY <1>1 DEF Flushing, Swapped
<1>9. Located'
  BY <1>1, Facts, IdleIsLocal DEF Located
<1>10. Accounts'
  BY <1>5 DEF Accounts
<1>11. Barrier'
  BY <1>1, <1>4, Facts, IdleIsLocal DEF Barrier
<1>12. Capped'
  <2>1. Cardinality(Present') \in Nat
    BY <1>3, FiniteKeys
  <2>2. Cardinality(Present') <= MaxEntries + 0 /\ 0 < PruneThreshold
    BY <1>3, <2>1, Constants
  <2> QED
    BY <1>1, <2>2 DEF Capped
<1>13. RowStep
  <2>1. ASSUME NEW k \in Present \ DOMAIN rows', Cardinality(DOMAIN rows') # MaxEntries
        PROVE  rows[k].created < clock - TTL
    <3>1. ~(rows[k].created >= clock - TTL) /\ rows[k].created \in Nat
      BY <1>2, <1>3, <2>1 DEF Present, Row
    <3> QED
      BY <3>1, Facts, Constants
  <2> QED
    BY <2>1, Constants DEF RowStep
<1> QED
  BY <1>7, <1>8, <1>9, <1>10, <1>11, <1>12, <1>13 DEF IInv

LEMMA TickStep ==
    ASSUME IInv, Tick
    PROVE  IInv' /\ RowStep
<1>1. /\ clock < MaxTime /\ clock' = clock + 1
      /\ UNCHANGED <<rows, pending, pendingTotal, writes, flusher, taken, pc, loc, calls,
                     recorded, lost, pruneFailed>>
  BY DEF Tick, store, ghosts
<1>2. clock' \in 0 .. MaxTime /\ clock <= clock'
  BY <1>1, Facts, Constants DEF TypeOK
<1>3. TypeOK'
  <2>1. \A k \in Present' : rows'[k] \in Row /\ rows'[k].created <= clock'
    BY <1>1, <1>2, Facts DEF TypeOK, Present, Row
  <2> QED
    BY <1>1, <1>2, <2>1, Facts DEF TypeOK, Present
<1>4. Located'
  BY <1>1, Facts, LocalFields, Constants DEF Located
<1>5. \A k \in Keys : InFlush(k)' = InFlush(k) /\ RowHits(k)' = RowHits(k)
  BY <1>1 DEF InFlush, RowHits, Present
<1>6. Flushing' /\ Accounts' /\ Barrier' /\ Capped'
  <2>1. Flushing'
    BY <1>1, Facts DEF Flushing, Swapped
  <2>2. Accounts'
    BY <1>1, <1>5, Facts DEF Accounts
  <2>3. Barrier'
    BY <1>1, <1>5, Facts DEF Barrier
  <2>4. Capped'
    BY <1>1, Facts DEF Capped, Present
  <2> QED
    BY <2>1, <2>2, <2>3, <2>4
<1>7. RowStep
  BY <1>1, RowsStay
<1> QED
  BY <1>3, <1>4, <1>6, <1>7 DEF IInv

LEMMA StutterStep ==
    ASSUME IInv, UNCHANGED vars
    PROVE  IInv' /\ RowStep
<1>1. UNCHANGED <<clock, rows, pending, pendingTotal, writes, flusher, taken, pc, loc, calls,
                  recorded, lost, pruneFailed>>
  BY DEF vars, store, ghosts
<1>2. TypeOK'
  BY <1>1, Facts DEF TypeOK, Present
<1>3. Flushing'
  BY <1>1, Facts DEF Flushing, Swapped
<1>4. Located' /\ Capped'
  BY <1>1, Facts DEF Located, Capped, Present
<1>5. \A k \in Keys : InFlush(k)' = InFlush(k) /\ RowHits(k)' = RowHits(k)
  BY <1>1 DEF InFlush, RowHits, Present
<1>6. Accounts' /\ Barrier'
  BY <1>1, <1>5, Facts DEF Accounts, Barrier
<1> QED
  BY <1>1, <1>2, <1>3, <1>4, <1>6, RowsStay DEF IInv

LEMMA InitInv == ASSUME Init PROVE IInv
<1>1. NoHits \in [Keys -> Nat] /\ \A k \in Keys : NoHits[k] = 0
  BY DEF NoHits
<1>2. Present = {} /\ Present \in SUBSET Keys
  BY DEF Init, Present
<1>3. TypeOK
  <2>1. clock \in 0 .. MaxTime /\ calls \in 0 .. MaxCalls
    BY Constants DEF Init
  <2>2. pendingTotal \in Nat /\ writes \in Nat /\ flusher \in Threads \cup {NoThread}
    BY DEF Init
  <2>3. pending \in [Keys -> Nat] /\ recorded \in [Keys -> Nat] /\ lost \in [Keys -> Nat]
    BY <1>1 DEF Init
  <2>4. taken \in [Threads -> [Keys -> Nat]] /\ loc \in [Threads -> Local] /\ pc \in [Threads -> Labels]
    BY <1>1, IdleIsLocal DEF Init, Labels
  <2>5. pruneFailed \in BOOLEAN
    BY DEF Init
  <2> QED
    BY <1>2, <2>1, <2>2, <2>3, <2>4, <2>5 DEF TypeOK
<1>4. Flushing
  BY DEF Init, Flushing, Swapped
<1>5. Located
  BY IdleIsLocal DEF Init, Located
<1>6. Accounts
  <2>1. \A k \in Keys : RowHits(k) = 0 /\ InFlush(k) = 0
    BY <1>2 DEF Init, RowHits, InFlush
  <2> QED
    BY <1>1, <2>1 DEF Init, Accounts
<1>7. Barrier
  BY <1>1, IdleIsLocal DEF Init, Barrier
<1>8. Capped
  <2>1. Cardinality(Present) = 0
    BY <1>2, FS_EmptySet
  <2> QED
    BY <2>1, Constants DEF Init, Capped
<1> QED
  BY <1>3, <1>4, <1>5, <1>6, <1>7, <1>8 DEF IInv

LEMMA NextInv == ASSUME IInv, [Next]_vars PROVE IInv' /\ RowStep
<1>1. ASSUME NEW t \in Threads, Step(t) PROVE IInv' /\ RowStep
  <2>1. ASSUME NEW ks \in SUBSET Keys \ {{}}, Put(t, ks) PROVE IInv' /\ RowStep
    BY <2>1, EnterStep, Constants DEF Put
  <2>2. ASSUME NEW k \in Keys, Get(t, k) PROVE IInv' /\ RowStep
    <3>1. Enter(t, "select", {k}, TTL) /\ {k} \in SUBSET Keys /\ \E j \in Keys : {k} = {j}
      BY <2>2 DEF Get
    <3> QED
      BY <3>1, EnterStep, Constants
  <2>3. ASSUME NEW days \in Retentions, Maintain(t, days) PROVE IInv' /\ RowStep
    BY <2>3, EnterStep DEF Maintain
  <2>4. CASE Checkpoint(t)
    BY <2>4, EnterStep, Constants DEF Checkpoint
  <2>5. CASE PutCommit(t)
    BY <2>5, PutCommitStep
  <2>6. CASE PutRollback(t)
    BY <2>6, PutRollbackStep
  <2>7. CASE Select(t)
    BY <2>7, SelectStep
  <2>8. CASE Evict(t)
    BY <2>8, EvictStep
  <2>9. CASE EvictRollback(t) \/ IgnoreRow(t) \/ RetainRollback(t)
    BY <2>9, QuitSteps
  <2>10. CASE QueueHit(t)
    BY <2>10, QueueHitStep
  <2>11. CASE FlushSwap(t)
    BY <2>11, FlushSwapStep
  <2>12. CASE FlushCommit(t)
    BY <2>12, FlushCommitStep
  <2>13. CASE FlushFail(t)
    BY <2>13, FlushFailStep
  <2>14. CASE Retain(t)
    BY <2>14, RetainStep
  <2> QED
    BY <1>1, <2>1, <2>2, <2>3, <2>4, <2>5, <2>6, <2>7, <2>8, <2>9, <2>10, <2>11, <2>12,
       <2>13, <2>14 DEF Step
<1>2. CASE Restart
  BY <1>2, RestartStep
<1>3. CASE Tick
  BY <1>3, TickStep
<1>4. CASE Finished \/ UNCHANGED vars
  BY <1>4, StutterStep DEF Finished
<1> QED
  BY <1>1, <1>2, <1>3, <1>4 DEF Next

-----------------------------------------------------------------------------
(* The theorems.                                                            *)

LEMMA Inductive == Spec => []IInv
<1>1. Init => IInv
  BY InitInv
<1>2. IInv /\ [Next]_vars => IInv'
  BY NextInv
<1> QED
  BY <1>1, <1>2, PTL DEF Spec

\* Every variable of the store has its type, and no row of the table is
\* stamped in the future.
THEOREM TypeCorrect == Spec => []TypeOK
<1>1. IInv => TypeOK
  BY DEF IInv
<1> QED
  BY <1>1, Inductive, PTL

\* _queue_hit, flush_hits, eviction, retention and restart: every hit that was
\* queued is in its row, in the counter, in a flush, or given up, once.
THEOREM HitsAreAccountedFor == Spec => []HitAccounting
<1>1. IInv => HitAccounting
  <2>1. ASSUME IInv, NEW k \in Keys
        PROVE  recorded[k] = (IF k \in Present THEN rows[k].hits ELSE 0) + pending[k]
                             + SumHits([t \in Threads |-> taken[t][k]]) + lost[k]
    <3>1. SumHits([t \in Threads |-> taken[t][k]]) = InFlush(k)
      BY <2>1, Facts, TakenSum
    <3>2. recorded[k] = RowHits(k) + pending[k] + InFlush(k) + lost[k]
      BY <2>1, Facts DEF Accounts
    <3> QED
      BY <3>1, <3>2 DEF RowHits
  <2> QED
    BY <2>1 DEF HitAccounting
<1> QED
  BY <1>1, Inductive, PTL

\* cleanup and stats: whatever flush is under way elsewhere, and however it
\* ends, the hits queued before the call are out of memory when it prunes.
THEOREM RetentionFollowsTheFlush == Spec => []FlushBarrier
<1>1. IInv => FlushBarrier
  <2>1. ASSUME IInv, NEW t \in Threads, pc[t] = "retain", NEW k \in Keys
        PROVE  pending[k] + SumHits([u \in Threads |-> taken[u][k]]) <= recorded[k] - loc[t].seen[k]
    <3>1. SumHits([u \in Threads |-> taken[u][k]]) = InFlush(k) /\ InFlush(k) \in Nat
      BY <2>1, Facts, TakenSum
    <3>2. pending[k] + InFlush(k) + loc[t].seen[k] <= recorded[k]
      BY <2>1, Facts DEF Barrier
    <3>3. pending[k] \in Nat /\ loc[t].seen[k] \in Nat /\ recorded[k] \in Nat
      BY <2>1, Facts, LocalFields
    <3> HIDE DEF InFlush
    <3> QED
      BY <3>1, <3>2, <3>3
  <2> QED
    BY <2>1 DEF FlushBarrier
<1> QED
  BY <1>1, Inductive, PTL

\* put_many: unless a due prune was rolled back, the table exceeds its cap by
\* no more than the writes counted since, and those stay below the threshold.
THEOREM WatermarkBoundsTheTable == Spec => []CapPlusWatermark
<1>1. IInv => CapPlusWatermark
  BY DEF IInv, Capped, CapPlusWatermark
<1> QED
  BY <1>1, Inductive, PTL

\* get, put_many, cleanup, stats, init: a row goes only because it is too old,
\* for the cap, or under a late write with an expired stamp.
THEOREM RowsGoForAReason == Spec => FreshRowsSurvive
<1> DEFINE Reason == \A k \in Present \ DOMAIN rows' :
          \/ \E days \in Retentions : rows[k].created < clock - days
          \/ Cardinality(DOMAIN rows') = MaxEntries
          \/ \E t \in Threads : /\ pc[t] = "put" /\ k \in loc[t].keys
                                /\ loc[t].stamp < clock - TTL
<1>1. IInv /\ [Next]_vars => [Reason]_vars
  BY NextInv DEF RowStep
<1>2. Spec => [][Reason]_vars
  <2> HIDE DEF Reason
  <2> QED
    BY <1>1, Inductive, PTL DEF Spec
<1> QED
  BY <1>2 DEF FreshRowsSurvive

-----------------------------------------------------------------------------
(* The batch request: its budget and the published counters.               *)

BatchMains == {"lookup", "run", "collect", "flush", "publish", "write", "done"}
BatchStates == {"waiting", "submitted", "ready", "calling", "finished", "collected", "cancelled"}
BeforeSink == {"lookup", "run", "collect", "flush"}
Single(v) == v = Nothing \/ \E n \in Metrics : v = One(n)

\* A worker raises, and the request fails, only after the budget is cancelled
\* or expired, and neither is ever taken back.
FailedIsCancelled ==
    /\ budget \in Budget
    /\ state \in [Groups -> BatchStates] /\ raised \in [Groups -> Reasons \cup {"none"}]
    /\ outcome \in Reasons \cup {"none", "ok"}
    /\ \A g \in Groups : raised[g] # "none" => ~Active(budget)
    /\ outcome \notin {"none", "ok"} => ~Active(budget)

\* The tracker before and after the sink: nothing is published before, and a
\* worker that is inside a call has nothing left to publish.
TrackerTyped ==
    /\ counts \in [Metrics -> Nat] /\ published \in [Metrics -> Nat]
    /\ publishing \in [Groups \cup {0} -> [Metrics -> Nat]]
    /\ \A g \in Groups : Single(publishing[g])

\* No worker was started: the request has not begun, or the cache had it all.
Untouched == main = "lookup" \/ (main = "done" /\ ~sink)

Tracker ==
    /\ TrackerTyped
    /\ main \in BatchMains
    /\ \A g \in Groups : state[g] = "calling" => publishing[g] = Nothing
    /\ sink \in BOOLEAN /\ (sink => main \notin BeforeSink) /\ (main \in {"publish", "write"} => sink)
    /\ main # "publish" => publishing[0] = Nothing
    /\ ~sink => published = Nothing /\ \A g \in Groups : publishing[g] = Nothing
    /\ Untouched => counts = Nothing /\ \A g \in Groups : state[g] = "waiting"
    /\ PublishedOnce

BatchInv == FailedIsCancelled /\ Tracker

\* What a call costs depends on the stage of its group.
StagesKnown == stage \in [Groups -> 1 .. 3]

-----------------------------------------------------------------------------
(* The budget. *)

LEMMA CancelEnds ==
    ASSUME NEW b \in Budget, NEW r \in Reasons
    PROVE  Cancel(b, r) \in Budget /\ ~Active(Cancel(b, r))
BY DEF Cancel, Budget, Active, Inactive, Reasons

LEMMA InactiveIsReason ==
    ASSUME NEW b \in Budget
    PROVE  Active(b) \/ Inactive(b) \in Reasons
BY DEF Budget, Active, Inactive, Reasons

LEMMA RefusalIsReason ==
    ASSUME NEW b \in Budget, NEW c
    PROVE  /\ Refusal(b, c) # "none" => Refusal(b, c) \in Reasons
           /\ Refusal(b, c) = "none" => Active(b)
BY InactiveIsReason DEF Refusal, Reasons, Active

LEMMA ReservedStays ==
    ASSUME NEW b \in Budget, NEW c \in Cost
    PROVE  Reserved(b, c) \in Budget /\ (Active(Reserved(b, c)) = Active(b))
<1> DEFINE x == b.attempts + 1
           y == b.inputBytes + c.inputBytes
           z == b.outputTokens + c.outputTokens
<1>1. x \in Nat /\ y \in Nat /\ z \in Nat
  BY DEF Cost, Budget
<1>2. Reserved(b, c) = [b EXCEPT !.attempts = x, !.inputBytes = y, !.outputTokens = z]
  BY DEF Reserved
<1> HIDE DEF x, y, z
<1> QED
  BY <1>1, <1>2 DEF Budget, Active, Inactive

\* _do_group: WorkBudgetExceeded.
LEMMA GiveUpKeeps ==
    ASSUME FailedIsCancelled, NEW g \in Groups, NEW r \in Reasons, GiveUp(g, r), outcome' = outcome
    PROVE  FailedIsCancelled' /\ state' = [state EXCEPT ![g] = "finished"]
<1>1. budget' \in Budget /\ ~Active(budget')
  BY CancelEnds DEF GiveUp, FailedIsCancelled
<1> QED
  BY <1>1 DEF GiveUp, FailedIsCancelled, BatchStates

\* A step that leaves the budget alone, or reserves from an active one.
LEMMA BudgetKept ==
    ASSUME FailedIsCancelled, budget' \in Budget, Active(budget') => Active(budget),
           state' \in [Groups -> BatchStates], raised' = raised, outcome' = outcome
    PROVE  FailedIsCancelled'
BY DEF FailedIsCancelled

-----------------------------------------------------------------------------
(* The tracker. *)

Publishers(p, n) == {g \in Groups : p[g][n] = 1}

LEMMA SingleFacts ==
    ASSUME NEW v, Single(v)
    PROVE  v \in [Metrics -> Nat] /\ \A n \in Metrics : v[n] \in {0, 1}
BY DEF Single, Nothing, One

LEMMA PublishersChange ==
    ASSUME NEW p \in [Groups \cup {0} -> [Metrics -> Nat]], NEW g \in Groups, NEW v, Single(v),
           Single(p[g]), NEW n \in Metrics
    PROVE  /\ Cardinality(Publishers(p, n)) \in Nat
           /\ Cardinality(Publishers([p EXCEPT ![g] = v], n)) \in Nat
           /\ Cardinality(Publishers([p EXCEPT ![g] = v], n)) + p[g][n]
                = Cardinality(Publishers(p, n)) + v[n]
<1> DEFINE q == [p EXCEPT ![g] = v]
           S == Publishers(p, n)
           T == Publishers(q, n)
<1>1. IsFiniteSet(Groups) /\ S \subseteq Groups /\ T \subseteq Groups
  BY BatchAssumption DEF Publishers
<1>2. IsFiniteSet(S) /\ IsFiniteSet(T) /\ Cardinality(S) \in Nat /\ Cardinality(T) \in Nat
  BY <1>1, FS_Subset, FS_CardinalityType
<1>3. /\ \A h \in Groups \ {g} : q[h] = p[h]
      /\ q[g] = v
  OBVIOUS
<1>4. v[n] \in {0, 1} /\ p[g][n] \in {0, 1}
  BY SingleFacts
<1>5. CASE v[n] = p[g][n]
  <2>1. S = T
    BY <1>3, <1>5 DEF Publishers
  <2>2. Cardinality(T) + p[g][n] = Cardinality(S) + v[n]
    BY <1>5, <2>1
  <2> QED
    BY <1>2, <2>2
<1>6. CASE v[n] = 1 /\ p[g][n] = 0
  <2>1. T = S \cup {g} /\ g \notin S
    BY <1>3, <1>6 DEF Publishers
  <2>2. Cardinality(T) = Cardinality(S) + 1
    <3> HIDE DEF S, T
    <3> QED
      BY <1>2, <2>1, FS_AddElement
  <2>3. Cardinality(T) + p[g][n] = Cardinality(S) + v[n]
    <3> HIDE DEF S, T
    <3> QED
      BY <1>2, <1>6, <2>2
  <2> QED
    BY <1>2, <2>3
<1>7. CASE v[n] = 0 /\ p[g][n] = 1
  <2>1. T = S \ {g} /\ g \in S
    BY <1>3, <1>7 DEF Publishers
  <2>2. Cardinality(T) = Cardinality(S) - 1
    <3> HIDE DEF S, T
    <3> QED
      BY <1>2, <2>1, FS_RemoveElement
  <2>3. Cardinality(T) + p[g][n] = Cardinality(S) + v[n]
    <3> HIDE DEF S, T
    <3> QED
      BY <1>2, <1>7, <2>2
  <2> QED
    BY <1>2, <2>3
<1> QED
  BY <1>4, <1>5, <1>6, <1>7

LEMMA PublishersNone ==
    ASSUME NEW p, \A g \in Groups : p[g] = Nothing, NEW n \in Metrics
    PROVE  Cardinality(Publishers(p, n)) = 0
<1>1. Publishers(p, n) = {}
  BY DEF Publishers, Nothing
<1> QED
  BY <1>1, FS_EmptySet

\* PublishedOnce, with the sets named.
LEMMA PublishedByName ==
    PublishedOnce <=>
      \A n \in Metrics :
        published[n] + publishing[0][n] + Cardinality(Publishers(publishing, n))
            = IF main \in BeforeSink THEN 0 ELSE counts[n]
BY DEF PublishedOnce, Publishers, BeforeSink

\* A step that does not touch the tracker.
LEMMA TrackerKept ==
    ASSUME Tracker, UNCHANGED metrics, main' \in BatchMains,
           (main' \in BeforeSink) = (main \in BeforeSink),
           (main' = "publish") = (main = "publish"), main' = "write" => main = "write",
           Untouched' => Untouched /\ state' = state,
           \A g \in Groups : state'[g] = "calling" => publishing[g] = Nothing
    PROVE  Tracker'
<1>1. /\ counts' = counts /\ published' = published /\ publishing' = publishing /\ sink' = sink
  BY DEF metrics
<1>2. PublishedOnce'
  BY <1>1 DEF Tracker, PublishedOnce, BeforeSink
<1>3. TrackerTyped'
  BY <1>1 DEF Tracker, TrackerTyped
<1> QED
  BY <1>1, <1>2, <1>3 DEF Tracker, Untouched

\* BatchRecoveryTracker.record
LEMMA RecordKeeps ==
    ASSUME Tracker, NEW g \in Groups, NEW name \in Metrics, Record(g, name),
           state[g] = "calling", state'[g] # "calling", main' = main,
           \A h \in Groups \ {g} : state'[h] = "calling" => state[h] = "calling"
    PROVE  Tracker'
<1> DEFINE v == IF sink THEN One(name) ELSE Nothing
<1>0. 0 \notin Groups /\ ~Untouched
  BY BatchAssumption DEF Tracker
<1>1. /\ publishing' = [publishing EXCEPT ![g] = v] /\ counts' = [counts EXCEPT ![name] = @ + 1]
      /\ published' = published /\ sink' = sink
  BY DEF Record
<1>2. Single(v) /\ v \in [Metrics -> Nat] /\ publishing[g] = Nothing /\ Single(Nothing)
  <2>1. Single(v)
    BY DEF Single
  <2> QED
    BY <2>1, SingleFacts DEF Tracker, Single
<1>3. TrackerTyped'
  BY <1>1, <1>2 DEF Tracker, TrackerTyped
<1>4. PublishedOnce'
  <2> SUFFICES ASSUME NEW n \in Metrics
               PROVE  published'[n] + publishing'[0][n] + Cardinality(Publishers(publishing', n))
                        = IF main' \in BeforeSink THEN 0 ELSE counts'[n]
    BY PublishedByName DEF PublishedOnce, Publishers, BeforeSink
  <2> DEFINE A == Cardinality(Publishers(publishing, n))
             B == Cardinality(Publishers(publishing', n))
  <2>1. A \in Nat /\ B \in Nat /\ B = A + v[n]
    <3>1. A \in Nat /\ B \in Nat /\ B + publishing[g][n] = A + v[n]
      <4>1. publishing \in [Groups \cup {0} -> [Metrics -> Nat]]
        BY DEF Tracker, TrackerTyped
      <4> HIDE DEF v
      <4> QED
        BY <1>1, <1>2, <4>1, PublishersChange
    <3>2. publishing[g][n] = 0
      BY <1>2 DEF Nothing
    <3> HIDE DEF A, B, v
    <3> QED
      BY <1>2, <3>1, <3>2
  <2>2. /\ publishing'[0] = publishing[0] /\ published'[n] = published[n] /\ main' = main
        /\ published[n] \in Nat /\ publishing[0][n] \in Nat /\ counts[n] \in Nat
    BY <1>0, <1>1 DEF Tracker, TrackerTyped
  <2>3. published[n] + publishing[0][n] + A = IF main \in BeforeSink THEN 0 ELSE counts[n]
    BY PublishedByName DEF Tracker
  <2>4. published[n] + publishing[0][n] + B = (published[n] + publishing[0][n] + A) + v[n]
    <3>1. v[n] \in Nat
      BY <1>2
    <3> HIDE DEF A, B, v
    <3> QED
      BY <2>1, <2>2, <3>1
  <2>5. CASE main \in BeforeSink
    <3>1. v[n] = 0
      <4>1. ~sink
        BY <2>5 DEF Tracker
      <4> QED
        BY <4>1 DEF Nothing
    <3>2. published[n] + publishing[0][n] + B = 0
      <4> HIDE DEF A, B, v
      <4> QED
        BY <2>3, <2>4, <2>5, <3>1
    <3> QED
      BY <2>2, <2>5, <3>2
  <2>6. CASE main \notin BeforeSink
    <3>1. counts'[n] = counts[n] + v[n]
      <4>1. sink /\ v = One(name)
        BY <1>0, <2>6 DEF Tracker, Untouched, BatchMains, BeforeSink
      <4>2. v[n] = IF n = name THEN 1 ELSE 0
        BY <4>1 DEF One, Nothing
      <4> QED
        BY <1>1, <2>2, <4>2 DEF Tracker, TrackerTyped
    <3>2. published[n] + publishing[0][n] + B = counts[n] + v[n]
      <4> HIDE DEF A, B, v
      <4> QED
        BY <2>3, <2>4, <2>6
    <3> QED
      BY <2>2, <2>6, <3>1, <3>2
  <2> QED
    BY <2>5, <2>6
<1>5. \A h \in Groups : state'[h] = "calling" => publishing'[h] = Nothing
  BY <1>1 DEF Tracker, TrackerTyped
<1>6. publishing'[0] = publishing[0]
  BY <1>0, <1>1 DEF Tracker, TrackerTyped
<1>7. ~sink' => published' = Nothing /\ \A h \in Groups : publishing'[h] = Nothing
  BY <1>1 DEF Tracker, TrackerTyped
<1> QED
  BY <1>0, <1>1, <1>3, <1>4, <1>5, <1>6, <1>7 DEF Tracker, Untouched

LEMMA PublishKeeps ==
    ASSUME Tracker, NEW g \in Groups, Publish(g)
    PROVE  Tracker'
<1>0. 0 \notin Groups
  BY BatchAssumption
<1>1. /\ publishing' = [publishing EXCEPT ![g] = Nothing] /\ counts' = counts /\ sink' = sink
      /\ published' = Plus(published, publishing[g]) /\ main' = main /\ state' = state
      /\ sink /\ main \notin BeforeSink
  BY DEF Publish, request, workers, Tracker
<1>2. Single(publishing[g]) /\ Single(Nothing)
  BY DEF Tracker, TrackerTyped, Single
<1>3. publishing[g] \in [Metrics -> Nat] /\ Nothing \in [Metrics -> Nat]
  BY <1>2, SingleFacts
<1>4. \A n \in Metrics : published'[n] = published[n] + publishing[g][n] /\ published'[n] \in Nat
  BY <1>1, <1>3 DEF Plus, Tracker, TrackerTyped
<1>5. TrackerTyped'
  <2>1. published' \in [Metrics -> Nat]
    BY <1>1, <1>4 DEF Plus
  <2> QED
    BY <1>1, <1>2, <1>3, <2>1 DEF Tracker, TrackerTyped
<1>6. publishing'[0] = publishing[0]
  BY <1>0, <1>1 DEF Tracker, TrackerTyped
<1>7. PublishedOnce'
  <2> SUFFICES ASSUME NEW n \in Metrics
               PROVE  published'[n] + publishing'[0][n] + Cardinality(Publishers(publishing', n))
                        = counts'[n]
    BY <1>1 DEF PublishedOnce, Publishers, BeforeSink
  <2> DEFINE A == Cardinality(Publishers(publishing, n))
             B == Cardinality(Publishers(publishing', n))
             v == publishing[g][n]
             x == published[n]
             x1 == published'[n]
             z == publishing[0][n]
  <2>1. A \in Nat /\ B \in Nat /\ B + v = A + Nothing[n]
    <3>1. publishing \in [Groups \cup {0} -> [Metrics -> Nat]]
      BY DEF Tracker, TrackerTyped
    <3> QED
      BY <1>1, <1>2, <3>1, PublishersChange
  <2>2. Nothing[n] = 0 /\ v \in Nat /\ x \in Nat /\ z \in Nat /\ x1 = x + v
    BY <1>3, <1>4 DEF Nothing, Tracker, TrackerTyped
  <2>3. x + z + A = counts[n]
    BY <1>1, PublishedByName DEF Tracker
  <2>4. x1 + z + B = counts[n]
    <3> HIDE DEF A, B, v, x, x1, z
    <3>1. B + v = A
      BY <2>1, <2>2
    <3> QED
      BY <2>1, <2>2, <2>3, <3>1
  <2> QED
    BY <1>1, <1>6, <2>4
<1>8. \A h \in Groups : state'[h] = "calling" => publishing'[h] = Nothing
  BY <1>1 DEF Tracker, TrackerTyped
<1> QED
  BY <1>1, <1>5, <1>6, <1>7, <1>8 DEF Tracker, Untouched

\* attach_sink_and_flush: what is counted so far is about to be published.
LEMMA AttachKeeps ==
    ASSUME Tracker, AttachSink
    PROVE  Tracker'
<1>0. 0 \notin Groups
  BY BatchAssumption
<1>1. /\ publishing' = [publishing EXCEPT ![0] = counts] /\ counts' = counts /\ sink' = TRUE
      /\ published' = published /\ main' = "publish" /\ state' = state /\ main \in BeforeSink
  BY DEF AttachSink, workers, BeforeSink
<1>2. publishing'[0] = counts /\ \A g \in Groups : publishing'[g] = Nothing
  BY <1>0, <1>1 DEF Tracker, TrackerTyped
<1>3. TrackerTyped'
  BY <1>0, <1>1, <1>2 DEF Tracker, TrackerTyped, Single
<1>4. PublishedOnce'
  <2> SUFFICES ASSUME NEW n \in Metrics
               PROVE  published'[n] + publishing'[0][n] + Cardinality(Publishers(publishing', n))
                        = counts'[n]
    BY <1>1 DEF PublishedOnce, Publishers, BeforeSink
  <2>1. Cardinality(Publishers(publishing', n)) = 0
    BY <1>2, PublishersNone
  <2>2. published'[n] = 0 /\ counts[n] \in Nat
    BY <1>1 DEF Tracker, TrackerTyped, Nothing
  <2> QED
    BY <1>1, <1>2, <2>1, <2>2
<1>5. main' \in BatchMains /\ main' \notin BeforeSink
  BY <1>1 DEF BatchMains, BeforeSink
<1>6. \A g \in Groups : state'[g] = "calling" => publishing'[g] = Nothing
  BY <1>2
<1> QED
  BY <1>1, <1>3, <1>4, <1>5, <1>6 DEF Tracker, Untouched

LEMMA FlushedKeeps ==
    ASSUME Tracker, PublishFlushed
    PROVE  Tracker'
<1>0. 0 \notin Groups
  BY BatchAssumption
<1>1. /\ publishing' = [publishing EXCEPT ![0] = Nothing] /\ counts' = counts /\ sink' = sink
      /\ published' = Plus(published, publishing[0]) /\ main' \in {"write", "done"}
      /\ state' = state /\ main = "publish" /\ main \notin BeforeSink /\ sink
  BY DEF PublishFlushed, workers, BeforeSink, Tracker
<1>2. publishing'[0] = Nothing /\ \A g \in Groups : publishing'[g] = publishing[g]
  BY <1>0, <1>1 DEF Tracker, TrackerTyped
<1>3. Nothing \in [Metrics -> Nat]
  BY DEF Nothing
<1>4. \A n \in Metrics : published'[n] = published[n] + publishing[0][n] /\ published'[n] \in Nat
  BY <1>1 DEF Plus, Tracker, TrackerTyped
<1>5. TrackerTyped'
  <2>1. published' \in [Metrics -> Nat]
    BY <1>1, <1>4 DEF Plus
  <2> QED
    BY <1>1, <1>2, <1>3, <2>1 DEF Tracker, TrackerTyped
<1>6. PublishedOnce'
  <2> SUFFICES ASSUME NEW n \in Metrics
               PROVE  published'[n] + publishing'[0][n] + Cardinality(Publishers(publishing', n))
                        = counts'[n]
    BY <1>1 DEF PublishedOnce, Publishers, BeforeSink
  <2> DEFINE A == Cardinality(Publishers(publishing, n))
             x == published[n]
             x1 == published'[n]
             z == publishing[0][n]
  <2>1. A \in Nat
    BY BatchAssumption, FS_Subset, FS_CardinalityType DEF Publishers
  <2>2. Publishers(publishing', n) = Publishers(publishing, n)
    BY <1>2 DEF Publishers
  <2>3. x \in Nat /\ z \in Nat /\ x1 = x + z /\ publishing'[0][n] = 0
    BY <1>2, <1>4 DEF Nothing, Tracker, TrackerTyped
  <2>4. x + z + A = counts[n]
    BY <1>1, PublishedByName DEF Tracker
  <2>5. x1 + 0 + A = counts[n]
    <3> HIDE DEF A, x, x1, z
    <3> QED
      BY <2>1, <2>3, <2>4
  <2> QED
    BY <1>1, <2>2, <2>3, <2>5
<1>7. main' \in BatchMains /\ main' \notin BeforeSink /\ main' # "publish"
  BY <1>1 DEF BatchMains, BeforeSink
<1>8. \A g \in Groups : state'[g] = "calling" => publishing'[g] = Nothing
  BY <1>1, <1>2 DEF Tracker
<1> QED
  BY <1>1, <1>2, <1>5, <1>6, <1>7, <1>8 DEF Tracker, Untouched

-----------------------------------------------------------------------------
(* The request thread. *)

LEMMA RequestFacts ==
    ASSUME BatchInv
    PROVE  /\ budget \in Budget /\ state \in [Groups -> BatchStates] /\ main \in BatchMains
           /\ raised \in [Groups -> Reasons \cup {"none"}] /\ outcome \in Reasons \cup {"none", "ok"}
BY DEF BatchInv, FailedIsCancelled, Tracker

LEMMA LookupStep ==
    ASSUME BatchInv, Lookup
    PROVE  BatchInv'
<1>1. /\ main = "lookup" /\ UNCHANGED <<budget, state, raised, counts, sink, published, publishing>>
      /\ \/ main' = "done" /\ outcome' = "ok"
         \/ main' = "run" /\ outcome' = outcome
  BY DEF Lookup, workers, metrics
<1>2. FailedIsCancelled'
  BY <1>1 DEF BatchInv, FailedIsCancelled
<1>3. Untouched /\ main \in BeforeSink /\ ~sink /\ counts = Nothing
  BY <1>1 DEF BatchInv, Tracker, Untouched, BeforeSink
<1>4. PublishedOnce'
  <2>1. PublishedOnce /\ \A n \in Metrics : counts[n] = 0
    BY <1>3 DEF BatchInv, Tracker, Nothing
  <2> QED
    BY <1>1, <2>1 DEF PublishedOnce
<1>5. main' \in BatchMains /\ main' \notin {"publish", "write"}
  BY <1>1 DEF BatchMains
<1> QED
  BY <1>1, <1>2, <1>3, <1>4, <1>5 DEF BatchInv, Tracker, TrackerTyped, Untouched

\* A step of the request thread that leaves budget and tracker alone.
LEMMA RequestMoves ==
    ASSUME BatchInv, UNCHANGED <<budget, raised, metrics>>, ~Untouched, ~Untouched',
           main' \in BatchMains, (main' \in BeforeSink) = (main \in BeforeSink),
           main # "publish", main' \notin {"publish", "write"},
           state' \in [Groups -> BatchStates],
           \A g \in Groups : state'[g] = "calling" => state[g] = "calling",
           outcome' \in Reasons \cup {"none", "ok"}, outcome' \notin {"none", "ok"} => ~Active(budget)
    PROVE  BatchInv'
<1>1. FailedIsCancelled'
  BY DEF BatchInv, FailedIsCancelled
<1>2. Tracker'
  BY TrackerKept DEF BatchInv, Tracker
<1> QED
  BY <1>1, <1>2 DEF BatchInv

LEMMA SubmitStep ==
    ASSUME BatchInv, NEW g \in Groups, Submit(g)
    PROVE  BatchInv'
<1>1. /\ UNCHANGED <<budget, raised, metrics, main, outcome>> /\ main = "run"
      /\ state' = [state EXCEPT ![g] = "submitted"]
  BY DEF Submit
<1>2. /\ state' \in [Groups -> BatchStates]
      /\ \A h \in Groups : state'[h] = "calling" => state[h] = "calling"
  BY <1>1, RequestFacts DEF BatchStates
<1> QED
  BY <1>1, <1>2, RequestMoves, RequestFacts DEF Untouched, BatchInv, FailedIsCancelled

LEMMA WaitStep ==
    ASSUME BatchInv, Wait
    PROVE  BatchInv'
<1>1. UNCHANGED <<budget, raised, metrics, outcome, state>> /\ main = "run" /\ main' = "collect"
  BY DEF Wait, workers
<1>2. main' \in BatchMains /\ main \in BeforeSink /\ main' \in BeforeSink
  BY <1>1 DEF BatchMains, BeforeSink
<1> QED
  BY <1>1, <1>2, RequestMoves, RequestFacts DEF Untouched, BatchInv, FailedIsCancelled

LEMMA CollectStep ==
    ASSUME BatchInv, NEW g \in Groups, Collect(g)
    PROVE  BatchInv'
<1>1. /\ UNCHANGED <<budget, raised, metrics>> /\ main = "collect"
      /\ main' \in {"collect", "run", "flush"}
  BY DEF Collect
<1>2. /\ state' \in [Groups -> BatchStates]
      /\ \A h \in Groups : state'[h] = "calling" => state[h] = "calling"
      /\ outcome' \in Reasons \cup {"none", "ok"} /\ (outcome' \notin {"none", "ok"} => ~Active(budget))
  <2>1. CASE raised[g] = "none"
    BY <2>1, RequestFacts DEF Collect, BatchStates
  <2>2. CASE raised[g] # "none"
    <3>1. outcome' = raised[g] /\ ~Active(budget)
      BY <2>2 DEF Collect, BatchInv, FailedIsCancelled
    <3>2. state' = [h \in Groups |-> IF h = g THEN "collected"
                                    ELSE IF state[h] = "submitted" THEN "cancelled" ELSE state[h]]
      BY <2>2 DEF Collect
    <3> QED
      BY <3>1, <3>2, RequestFacts DEF BatchStates
  <2> QED
    BY <2>1, <2>2
<1>3. main' \in BatchMains /\ main \in BeforeSink /\ main' \in BeforeSink
  BY <1>1 DEF BatchMains, BeforeSink
<1> QED
  BY <1>1, <1>2, <1>3, RequestMoves DEF Untouched

LEMMA WriteStep ==
    ASSUME BatchInv, WriteCache
    PROVE  BatchInv'
<1>1. UNCHANGED <<budget, raised, metrics, outcome, state>> /\ main = "write" /\ main' = "done" /\ sink
      /\ sink' = sink
  BY DEF WriteCache, workers, metrics, BatchInv, Tracker
<1>2. main' \in BatchMains /\ main \notin BeforeSink /\ main' \notin BeforeSink
  BY <1>1 DEF BatchMains, BeforeSink
<1> QED
  BY <1>1, <1>2, RequestMoves, RequestFacts DEF Untouched, BatchInv, FailedIsCancelled

-----------------------------------------------------------------------------
(* A worker. *)

\* What a worker does without recording: the tracker stays, and a call is only
\* begun with nothing left to publish.
LEMMA WorkerMoves ==
    ASSUME BatchInv, NEW g \in Groups, NEW l \in BatchStates, state' = [state EXCEPT ![g] = l],
           UNCHANGED <<request, metrics>>, state[g] # "waiting", l = "calling" => publishing[g] = Nothing
    PROVE  Tracker'
<1>1. ~Untouched /\ ~Untouched' /\ main' = main
  BY DEF BatchInv, Tracker, Untouched, request, metrics
<1>2. \A h \in Groups : state'[h] = "calling" => publishing[h] = Nothing
  BY RequestFacts DEF BatchInv, Tracker
<1> QED
  BY <1>1, <1>2, TrackerKept, RequestFacts DEF BatchInv

LEMMA GiveUpStep ==
    ASSUME BatchInv, NEW g \in Groups, NEW r \in Reasons, GiveUp(g, r), UNCHANGED <<request, metrics>>,
           state[g] # "waiting"
    PROVE  BatchInv'
<1>1. FailedIsCancelled' /\ state' = [state EXCEPT ![g] = "finished"]
  BY GiveUpKeeps DEF BatchInv, request
<1> QED
  BY <1>1, WorkerMoves DEF BatchInv, BatchStates

LEMMA StartStep ==
    ASSUME BatchInv, NEW g \in Groups, Start(g)
    PROVE  BatchInv'
<1>1. CASE Active(budget)
  <2>1. /\ state' = [state EXCEPT ![g] = "ready"] /\ UNCHANGED <<budget, raised, request, metrics>>
        /\ state[g] = "submitted" /\ "ready" \in BatchStates
    BY <1>1 DEF Start, BatchStates
  <2>2. FailedIsCancelled'
    BY <2>1, BudgetKept, RequestFacts DEF BatchInv, request
  <2> QED
    BY <2>1, <2>2, WorkerMoves DEF BatchInv
<1>2. CASE ~Active(budget)
  BY <1>2, GiveUpStep, InactiveIsReason, RequestFacts DEF Start
<1> QED
  BY <1>1, <1>2

LEMMA StagesStayKnown ==
    ASSUME StagesKnown, [BatchNext]_batchVars
    PROVE  StagesKnown'
<1>1. ASSUME NEW g \in Groups, AnswerStep(g)
      PROVE  StagesKnown'
  <2>1. CASE EnvelopeMalformed(g)
    <3>1. stage[g] + 1 \in 1 .. 3 /\ stage' = [stage EXCEPT ![g] = stage[g] + 1]
      BY <2>1 DEF StagesKnown, EnvelopeMalformed, Again
    <3> QED
      BY <3>1 DEF StagesKnown
  <2> QED
    BY <1>1, <2>1 DEF AnswerStep, EnvelopeValid, GroupFailed, Paragraph, Finish, StagesKnown
<1>2. ASSUME NEW g \in Groups, WorkerStep(g)
      PROVE  StagesKnown'
  BY <1>2 DEF WorkerStep, Start, Call, QueueTimeout, Abort, Publish, GiveUp, workers, StagesKnown
<1>3. CASE RequestStep \/ Expire \/ UNCHANGED batchVars
  BY <1>3 DEF RequestStep, Lookup, Submit, Wait, Collect, AttachSink, PublishFlushed, WriteCache, Expire,
              workers, batchVars, StagesKnown
<1> QED
  BY <1>1, <1>2, <1>3 DEF BatchNext, Done

LEMMA CallCosts ==
    ASSUME StagesKnown, NEW g \in Groups
    PROVE  CallCost[g][stage[g]] \in Cost
BY BatchAssumption DEF StagesKnown

LEMMA CallStep ==
    ASSUME BatchInv, StagesKnown, NEW g \in Groups, Call(g)
    PROVE  BatchInv'
<1>0. /\ state[g] = "ready" /\ publishing[g] = Nothing /\ UNCHANGED <<request, metrics>>
      /\ budget \in Budget
  BY RequestFacts DEF Call
<1>1. CASE Refusal(budget, CallCost[g][stage[g]]) = "none"
  <2>1. /\ state' = [state EXCEPT ![g] = "calling"] /\ raised' = raised /\ outcome' = outcome
        /\ budget' = Reserved(budget, CallCost[g][stage[g]]) /\ "calling" \in BatchStates
    BY <1>0, <1>1 DEF Call, BatchStates, request
  <2>2. FailedIsCancelled'
    BY <1>0, <2>1, BudgetKept, ReservedStays, CallCosts, RequestFacts DEF BatchInv
  <2> QED
    BY <1>0, <2>1, <2>2, WorkerMoves DEF BatchInv
<1>2. CASE Refusal(budget, CallCost[g][stage[g]]) # "none"
  <2>1. GiveUp(g, Refusal(budget, CallCost[g][stage[g]]))
    BY <1>2 DEF Call
  <2> QED
    BY <1>0, <1>2, <2>1, GiveUpStep, RefusalIsReason
<1> QED
  BY <1>1, <1>2

LEMMA StopStep ==
    ASSUME BatchInv, NEW g \in Groups, QueueTimeout(g) \/ Abort(g)
    PROVE  BatchInv'
<1>1. CASE QueueTimeout(g)
  <2>1. (IF Active(budget) THEN "queue" ELSE Inactive(budget)) \in Reasons
    BY InactiveIsReason, RequestFacts DEF Reasons
  <2> QED
    BY <1>1, <2>1, GiveUpStep DEF QueueTimeout
<1>2. CASE Abort(g)
  BY <1>2, GiveUpStep, InactiveIsReason, RequestFacts DEF Abort
<1> QED
  BY <1>1, <1>2

\* An answer: the budget stays, the worker leaves the call.
LEMMA AnswerMoves ==
    ASSUME BatchInv, NEW g \in Groups, NEW l \in BatchStates, state[g] = "calling", l # "calling",
           state' = [state EXCEPT ![g] = l], UNCHANGED <<budget, raised, request>>,
           UNCHANGED metrics \/ \E name \in Metrics : Record(g, name)
    PROVE  BatchInv'
<1>1. FailedIsCancelled'
  BY BudgetKept, RequestFacts DEF BatchInv, request
<1>2. CASE UNCHANGED metrics
  BY <1>1, <1>2, WorkerMoves DEF BatchInv
<1>3. ASSUME NEW name \in Metrics, Record(g, name)
      PROVE  Tracker'
  <2>1. /\ main' = main /\ state'[g] # "calling"
        /\ \A h \in Groups \ {g} : state'[h] = "calling" => state[h] = "calling"
    BY RequestFacts DEF request
  <2> QED
    BY <1>3, <2>1, RecordKeeps DEF BatchInv
<1> QED
  BY <1>1, <1>2, <1>3 DEF BatchInv

LEMMA AnswerStepKeeps ==
    ASSUME BatchInv, NEW g \in Groups, AnswerStep(g)
    PROVE  BatchInv'
<1>0. {"finished", "ready"} \subseteq BatchStates
  BY DEF BatchStates
<1>1. ASSUME NEW p \in Eligible, EnvelopeValid(g, p)
      PROVE  BatchInv'
  <2>1. /\ state[g] = "calling" /\ state' = [state EXCEPT ![g] = "finished"]
        /\ UNCHANGED <<budget, raised, request>>
        /\ UNCHANGED metrics \/ \E name \in Metrics : Record(g, name)
    BY <1>1 DEF EnvelopeValid, Finish, Metrics
  <2> QED
    BY <1>0, <2>1, AnswerMoves
<1>2. CASE EnvelopeMalformed(g)
  <2>1. /\ state[g] = "calling" /\ state' = [state EXCEPT ![g] = "ready"]
        /\ UNCHANGED <<budget, raised, request>>
        /\ \E name \in Metrics : Record(g, name)
    BY <1>2 DEF EnvelopeMalformed, Again, Metrics
  <2> QED
    BY <1>0, <2>1, AnswerMoves
<1>3. CASE GroupFailed(g)
  <2>1. /\ state[g] = "calling" /\ state' = [state EXCEPT ![g] = "finished"]
        /\ UNCHANGED <<budget, raised, request>> /\ UNCHANGED metrics
    BY <1>3 DEF GroupFailed, Finish
  <2> QED
    BY <1>0, <2>1, AnswerMoves
<1>4. ASSUME NEW item \in ParagraphItems, Paragraph(g, item)
      PROVE  BatchInv'
  <2> DEFINE l == IF Len(Append(items[g], item)) = Size[g] THEN "finished" ELSE "ready"
  <2>1. /\ state[g] = "calling" /\ state' = [state EXCEPT ![g] = l]
        /\ UNCHANGED <<budget, raised, request>>
        /\ \E name \in Metrics : Record(g, name)
    BY <1>4 DEF Paragraph, Metrics
  <2>2. l \in BatchStates /\ l # "calling"
    BY <1>0
  <2> QED
    BY <2>1, <2>2, AnswerMoves
<1> QED
  BY <1>1, <1>2, <1>3, <1>4 DEF AnswerStep

LEMMA BatchExpire ==
    ASSUME BatchInv, Expire
    PROVE  BatchInv'
<1>1. /\ UNCHANGED <<request, metrics, raised, state>> /\ budget' = [budget EXCEPT !.expired = TRUE]
  BY DEF Expire, workers
<1>2. budget' \in Budget /\ (Active(budget') => Active(budget))
  BY <1>1, RequestFacts DEF Budget, Active, Inactive
<1>3. FailedIsCancelled'
  BY <1>1, <1>2, BudgetKept, RequestFacts DEF BatchInv, request
<1>4. Tracker'
  BY <1>1, TrackerKept DEF BatchInv, Tracker, Untouched, request, metrics
<1> QED
  BY <1>3, <1>4 DEF BatchInv

LEMMA BatchInitInv == BatchInit => BatchInv
<1> SUFFICES ASSUME BatchInit PROVE BatchInv
  OBVIOUS
<1>1. FailedIsCancelled
  BY DEF BatchInit, FailedIsCancelled, NewBudget, Budget, BatchStates
<1>2. Nothing \in [Metrics -> Nat] /\ Single(Nothing)
  BY DEF Nothing, Single
<1>3. TrackerTyped
  BY <1>2 DEF BatchInit, TrackerTyped
<1>4. \A x \in Groups \cup {0} : publishing[x] = Nothing
  BY DEF BatchInit
<1>5. PublishedOnce
  <2> SUFFICES ASSUME NEW n \in Metrics
               PROVE  published[n] + publishing[0][n] + Cardinality(Publishers(publishing, n)) = 0
    BY PublishedByName DEF BatchInit, BeforeSink
  <2>1. Cardinality(Publishers(publishing, n)) = 0
    BY <1>4, PublishersNone
  <2>2. published[n] = 0 /\ publishing[0][n] = 0
    BY <1>4 DEF BatchInit, Nothing
  <2> QED
    BY <2>1, <2>2
<1> QED
  BY <1>1, <1>3, <1>4, <1>5 DEF BatchInit, BatchInv, Tracker, BatchMains, BeforeSink

LEMMA BatchNextInv ==
    ASSUME BatchInv, StagesKnown, [BatchNext]_batchVars
    PROVE  BatchInv'
<1>1. CASE Lookup
  BY <1>1, LookupStep
<1>2. ASSUME NEW g \in Groups, Submit(g) PROVE BatchInv'
  BY <1>2, SubmitStep
<1>3. CASE Wait
  BY <1>3, WaitStep
<1>4. CASE AttachSink
  <2>1. FailedIsCancelled'
    BY <1>4, BudgetKept, RequestFacts DEF AttachSink, workers, BatchInv
  <2> QED
    BY <1>4, <2>1, AttachKeeps DEF BatchInv
<1>5. CASE PublishFlushed
  <2>1. FailedIsCancelled'
    BY <1>5, BudgetKept, RequestFacts DEF PublishFlushed, workers, BatchInv
  <2> QED
    BY <1>5, <2>1, FlushedKeeps DEF BatchInv
<1>6. CASE WriteCache
  BY <1>6, WriteStep
<1>7. ASSUME NEW g \in Groups, Collect(g) PROVE BatchInv'
  BY <1>7, CollectStep
<1>8. ASSUME NEW g \in Groups, WorkerStep(g) PROVE BatchInv'
  <2>1. CASE Publish(g)
    <3>1. FailedIsCancelled'
      BY <2>1, BudgetKept, RequestFacts DEF Publish, workers, request, BatchInv
    <3> QED
      BY <2>1, <3>1, PublishKeeps DEF BatchInv
  <2> QED
    BY <1>8, <2>1, StartStep, CallStep, StopStep DEF WorkerStep
<1>9. ASSUME NEW g \in Groups, AnswerStep(g) PROVE BatchInv'
  BY <1>9, AnswerStepKeeps
<1>10. CASE Expire
  BY <1>10, BatchExpire
<1>11. CASE UNCHANGED batchVars
  <2>1. UNCHANGED <<budget, state, raised, outcome, main, metrics>>
    BY <1>11 DEF batchVars, metrics
  <2>2. FailedIsCancelled'
    BY <2>1, BudgetKept, RequestFacts DEF BatchInv
  <2>3. Tracker'
    BY <2>1, TrackerKept DEF BatchInv, Tracker, Untouched, metrics
  <2> QED
    BY <2>2, <2>3 DEF BatchInv
<1> QED
  BY <1>1, <1>2, <1>3, <1>4, <1>5, <1>6, <1>7, <1>8, <1>9, <1>10, <1>11 DEF BatchNext, RequestStep, Done

LEMMA BatchInvariance == BatchSpec => []BatchInv
<1>1. BatchInit => BatchInv /\ StagesKnown
  BY BatchInitInv DEF BatchInit, StagesKnown
<1>2. BatchInv /\ StagesKnown /\ [BatchNext]_batchVars => (BatchInv /\ StagesKnown)'
  BY BatchNextInv, StagesStayKnown
<1> QED
  BY <1>1, <1>2, PTL DEF BatchSpec

\* attach_sink_and_flush and record, also by workers that outlive the request:
\* what the sink has received and is about to receive is what was counted.
THEOREM CountsArePublishedOnce == BatchSpec => []PublishedOnce
<1>1. BatchInv => PublishedOnce
  BY DEF BatchInv, Tracker
<1> QED
  BY <1>1, BatchInvariance, PTL

\* _do_group: once the request has failed, no worker reserves another call.
THEOREM FailureStopsTheWork == BatchSpec => NoWorkAfterFailure
<1>1. ASSUME BatchInv, [BatchNext]_batchVars, outcome \notin {"none", "ok"}
      PROVE  budget'.attempts = budget.attempts
  <2>1. ~Active(budget) /\ budget \in Budget
    BY <1>1 DEF BatchInv, FailedIsCancelled
  <2>2. ASSUME NEW g \in Groups, Call(g)
        PROVE  budget'.attempts = budget.attempts
    <3>1. GiveUp(g, Refusal(budget, CallCost[g][stage[g]]))
      BY <2>1, <2>2, RefusalIsReason DEF Call
    <3> QED
      BY <2>1, <3>1 DEF GiveUp, Cancel, Budget
  <2>3. ASSUME NEW g \in Groups, NEW r, GiveUp(g, r)
        PROVE  budget'.attempts = budget.attempts
    BY <2>1, <2>3 DEF GiveUp, Cancel, Budget
  <2>4. CASE RequestStep \/ UNCHANGED batchVars
    BY <2>4 DEF RequestStep, Lookup, Submit, Wait, AttachSink, PublishFlushed, WriteCache, Collect, batchVars
  <2>5. ASSUME NEW g \in Groups, WorkerStep(g)
        PROVE  budget'.attempts = budget.attempts
    BY <2>2, <2>3, <2>5 DEF WorkerStep, Start, QueueTimeout, Abort, Publish
  <2>6. ASSUME NEW g \in Groups, AnswerStep(g)
        PROVE  budget'.attempts = budget.attempts
    BY <2>6 DEF AnswerStep, EnvelopeValid, EnvelopeMalformed, GroupFailed, Paragraph, Finish, Again
  <2>7. CASE Expire
    BY <2>1, <2>7 DEF Expire, Budget
  <2> QED
    BY <1>1, <2>4, <2>5, <2>6, <2>7 DEF BatchNext, Done
<1>2. BatchInv /\ [BatchNext]_batchVars =>
        [outcome \notin {"none", "ok"} => budget'.attempts = budget.attempts]_batchVars
  BY <1>1
<1> QED
  BY <1>2, BatchInvariance, PTL DEF BatchSpec, NoWorkAfterFailure

\* Nobody cancels the budget without naming a limit.
LimitsNamed ==
    /\ budget.cancelReason # "cancelled"
    /\ \A g \in Groups : raised[g] # "cancelled"
    /\ outcome # "cancelled"

LEMMA NamedReasons ==
    ASSUME BatchInv, LimitsNamed, NEW c
    PROVE  Inactive(budget) # "cancelled" /\ Refusal(budget, c) # "cancelled"
BY DEF LimitsNamed, Inactive, Refusal

LEMMA GiveUpNames ==
    ASSUME BatchInv, LimitsNamed, NEW g \in Groups, NEW r, r # "cancelled", GiveUp(g, r),
           outcome' = outcome
    PROVE  LimitsNamed'
<1>1. budget'.cancelReason # "cancelled"
  BY RequestFacts DEF GiveUp, Cancel, Budget, LimitsNamed
<1>2. raised' = [raised EXCEPT ![g] = r] /\ raised \in [Groups -> Reasons \cup {"none"}]
  BY RequestFacts DEF GiveUp
<1> QED
  BY <1>1, <1>2 DEF LimitsNamed

\* The future that raises first need not be the one that failed first; the
\* reason that is reported is a limit of the request all the same.
THEOREM ReportedReasonIsALimit == BatchSpec => []ReasonIsReported
<1>1. BatchInit => LimitsNamed
  BY DEF BatchInit, LimitsNamed, NewBudget
<1>2. ASSUME BatchInv, LimitsNamed, [BatchNext]_batchVars
      PROVE  LimitsNamed'
  <2>1. CASE Lookup \/ (\E g \in Groups : Submit(g)) \/ Wait \/ AttachSink \/ PublishFlushed
            \/ WriteCache \/ UNCHANGED batchVars
    BY <1>2, <2>1
    DEF Lookup, Submit, Wait, AttachSink, PublishFlushed, WriteCache, batchVars, workers, LimitsNamed
  <2>2. ASSUME NEW g \in Groups, Collect(g)
        PROVE  LimitsNamed'
    <3>1. /\ UNCHANGED <<budget, raised>>
          /\ outcome' \in {"ok", "none", raised[g]}
      BY <2>2 DEF Collect
    <3> QED
      BY <1>2, <3>1 DEF LimitsNamed
  <2>3. ASSUME NEW g \in Groups, WorkerStep(g)
        PROVE  LimitsNamed'
    <3>1. CASE UNCHANGED <<budget, raised, outcome>>
      BY <1>2, <3>1 DEF LimitsNamed
    <3>2. ASSUME NEW r, r # "cancelled", GiveUp(g, r), outcome' = outcome
          PROVE  LimitsNamed'
      BY <1>2, <3>2, GiveUpNames
    <3>3. CASE Start(g)
      BY <1>2, <3>1, <3>2, <3>3, NamedReasons DEF Start, request
    <3>4. CASE Call(g)
      <4>1. CASE Refusal(budget, CallCost[g][stage[g]]) = "none"
        <5>1. budget'.cancelReason = budget.cancelReason /\ UNCHANGED <<raised, outcome>>
          BY <1>2, <3>4, <4>1, RequestFacts DEF Call, request, Reserved, Budget
        <5> QED
          BY <1>2, <5>1 DEF LimitsNamed
      <4>2. CASE Refusal(budget, CallCost[g][stage[g]]) # "none"
        BY <1>2, <3>2, <3>4, <4>2, NamedReasons DEF Call, request
      <4> QED
        BY <4>1, <4>2
    <3>5. CASE QueueTimeout(g)
      BY <1>2, <3>2, <3>5, NamedReasons DEF QueueTimeout, request
    <3>6. CASE Abort(g)
      BY <1>2, <3>2, <3>6, NamedReasons DEF Abort, request
    <3>7. CASE Publish(g)
      BY <3>1, <3>7 DEF Publish, request, workers
    <3> QED
      BY <2>3, <3>3, <3>4, <3>5, <3>6, <3>7 DEF WorkerStep
  <2>4. ASSUME NEW g \in Groups, AnswerStep(g)
        PROVE  LimitsNamed'
    <3>1. UNCHANGED <<budget, raised, outcome>>
      BY <2>4 DEF AnswerStep, EnvelopeValid, EnvelopeMalformed, GroupFailed, Paragraph, Finish, Again, request
    <3> QED
      BY <1>2, <3>1 DEF LimitsNamed
  <2>5. CASE Expire
    <3>1. budget'.cancelReason = budget.cancelReason /\ UNCHANGED <<raised, outcome>>
      BY <1>2, <2>5, RequestFacts DEF Expire, request, workers, Budget
    <3> QED
      BY <1>2, <3>1 DEF LimitsNamed
  <2> QED
    BY <1>2, <2>1, <2>2, <2>3, <2>4, <2>5 DEF BatchNext, RequestStep, Done
<1>3. LimitsNamed => ReasonIsReported
  BY DEF LimitsNamed, ReasonIsReported
<1> QED
  BY <1>1, <1>2, <1>3, BatchInvariance, PTL DEF BatchSpec

-----------------------------------------------------------------------------
(* What the workers and the response of a batch hold.                      *)

\* What a worker that returned can have for its group, by stage.
Answered(g) ==
    \/ stage[g] = 1 /\ \E p \in Eligible : items[g] = Uniform(g, Item("direct", p))
    \/ stage[g] = 2 /\ \E p \in Eligible : items[g] = Uniform(g, Item("envelope_retry", p))
    \/ stage[g] < 3 /\ items[g] = Uniform(g, Item("failed", ""))
    \/ stage[g] = 3 /\ items[g] \in Seq(ParagraphItems) /\ Len(items[g]) = Size[g]

\* A worker has nothing before an envelope is answered; paragraph by paragraph
\* it has those before the one it is at.
WorkersHold ==
    /\ stage \in [Groups -> 1 .. 3] /\ DOMAIN items = Groups
    /\ \A g \in Groups :
        /\ state[g] \in {"waiting", "submitted"} => items[g] = <<>> /\ stage[g] = 1
        /\ state[g] \in {"waiting", "submitted", "ready", "calling"} => raised[g] = "none"
        /\ state[g] \in {"ready", "calling"} =>
             IF stage[g] < 3 THEN items[g] = <<>>
                             ELSE items[g] \in Seq(ParagraphItems) /\ Len(items[g]) < Size[g]
        /\ state[g] \in {"finished", "collected"} /\ raised[g] = "none" => Answered(g)

\* What each counter of the tracker counts.
Segments(f, way) ==
    UNION {{<<g, i>> : i \in {j \in DOMAIN f[g] : f[g][j].path = way}} : g \in Groups}
Retried == {g \in Groups : stage[g] = 2 /\ items[g] # <<>> /\ items[g][1].path = "envelope_retry"}
Tally(n) ==
    CASE n = "envelope_retry_groups" -> {g \in Groups : stage[g] >= 2}
      [] n = "envelope_retry_recovered_groups" -> Retried
      [] n = "paragraph_fallback_groups" -> {g \in Groups : stage[g] = 3}
      [] n = "paragraph_fallback_recovered_segments" -> Segments(items, "paragraph_fallback")
      [] n = "paragraph_fallback_failed_segments" -> Segments(items, "paragraph_fallback_failed")
CountsExact ==
    \A n \in Metrics : IsFiniteSet(Tally(n)) /\ counts[n] = Cardinality(Tally(n))

\* Every group is cached, still to be submitted, with a worker, or in the
\* response as its worker left it; or the request has failed.
Covered(g) ==
    \/ outcome \notin {"none", "ok"}
    \/ state[g] = "waiting" /\ g \in toSubmit
    \/ state[g] = "waiting" /\ results[g] = Uniform(g, Item("cache", "cache"))
    \/ g \in InWindow
    \/ state[g] = "collected" /\ raised[g] = "none" /\ results[g] = items[g]
ResponseHolds ==
    /\ main \in {"lookup", "run", "collect"} => outcome = "none"
    /\ main = "write" => outcome = "ok"
    /\ main = "collect" => done \subseteq {g \in Groups : state[g] = "finished"}
    /\ toSubmit \subseteq {g \in Groups : state[g] = "waiting"} /\ DOMAIN results = Groups
    /\ main = "lookup" => toSubmit = {} /\ \A g \in Groups : state[g] = "waiting"
    /\ outcome = "ok" => toSubmit = {} /\ InWindow = {}
    /\ main # "lookup" => \A g \in Groups : Covered(g)

AnswerInv == WorkersHold /\ CountsExact /\ ResponseHolds

-----------------------------------------------------------------------------
(* The workers.                                                            *)

LEMMA UniformFacts ==
    ASSUME NEW g \in Groups, NEW it
    PROVE  /\ Size[g] \in Nat \ {0} /\ Positions(g) = 1 .. Size[g]
           /\ DOMAIN Uniform(g, it) = Positions(g) /\ Uniform(g, it) # <<>>
           /\ \A i \in Positions(g) : Uniform(g, it)[i] = it
<1>1. Size[g] \in Nat \ {0} /\ 1 \in Positions(g)
  BY BatchAssumption DEF Positions
<1>2. DOMAIN Uniform(g, it) = Positions(g) /\ \A i \in Positions(g) : Uniform(g, it)[i] = it
  BY DEF Uniform
<1>3. Uniform(g, it) # <<>>
  <2>1. DOMAIN <<>> = {}
    OBVIOUS
  <2> QED
    BY <1>1, <1>2, <2>1
<1> QED
  BY <1>1, <1>2, <1>3 DEF Positions

\* A worker moves on, or is cancelled, with what it has.
LEMMA WorkersMove ==
    ASSUME WorkersHold, UNCHANGED <<stage, items, raised>>,
           \A g \in Groups : \/ state'[g] \in {state[g], "cancelled"}
                             \/ <<state[g], state'[g]>> \in
                                  {<<"waiting", "submitted">>, <<"submitted", "ready">>,
                                   <<"ready", "calling">>, <<"finished", "collected">>}
    PROVE  WorkersHold'
<1>1. \A g \in Groups : Answered(g)' = Answered(g)
  BY DEF Answered
<1> QED
  BY <1>1 DEF WorkersHold

LEMMA WorkersGiveUp ==
    ASSUME BatchInv, WorkersHold, NEW g \in Groups, NEW r \in Reasons, GiveUp(g, r)
    PROVE  WorkersHold'
<1>1. /\ stage' = stage /\ items' = items /\ raised' = [raised EXCEPT ![g] = r]
      /\ state' = [state EXCEPT ![g] = "finished"]
  BY DEF GiveUp
<1>2. raised \in [Groups -> Reasons \cup {"none"}] /\ state \in [Groups -> BatchStates] /\ r # "none"
  BY RequestFacts DEF Reasons
<1>3. \A h \in Groups : Answered(h)' = Answered(h)
  BY <1>1 DEF Answered
<1> QED
  BY <1>1, <1>2, <1>3 DEF WorkersHold

\* A worker returns with an answer.
LEMMA WorkersFinish ==
    ASSUME BatchInv, WorkersHold, NEW g \in Groups, NEW its, UNCHANGED <<stage, raised>>,
           items' = [items EXCEPT ![g] = its], state' = [state EXCEPT ![g] = "finished"], Answered(g)'
    PROVE  WorkersHold'
<1>1. state \in [Groups -> BatchStates]
  BY RequestFacts
<1>2. \A h \in Groups \ {g} : Answered(h)' = Answered(h)
  BY DEF Answered, WorkersHold
<1>3. state'[g] = "finished" /\ \A h \in Groups \ {g} : state'[h] = state[h] /\ items'[h] = items[h]
  BY <1>1 DEF WorkersHold
<1> QED
  BY <1>2, <1>3 DEF WorkersHold

\* A worker asks again.
LEMMA WorkersAgain ==
    ASSUME BatchInv, WorkersHold, NEW g \in Groups, NEW its, NEW s \in 1 .. 3, state[g] = "calling",
           DOMAIN items' = Groups, items'[g] = its, \A h \in Groups \ {g} : items'[h] = items[h],
           state' = [state EXCEPT ![g] = "ready"],
           stage' = [stage EXCEPT ![g] = s], raised' = raised,
           s < 3 => its = <<>>, s = 3 => its \in Seq(ParagraphItems) /\ Len(its) < Size[g]
    PROVE  WorkersHold'
<1>1. state \in [Groups -> BatchStates]
  BY RequestFacts
<1>2. \A h \in Groups \ {g} : state'[h] = state[h] /\ items'[h] = items[h] /\ stage'[h] = stage[h]
  BY <1>1 DEF WorkersHold
<1>3. ASSUME NEW h \in Groups \ {g} PROVE Answered(h)' = Answered(h)
  <2>1. items'[h] = items[h] /\ stage'[h] = stage[h]
    BY <1>2
  <2> QED
    BY <2>1, Zenon DEF Answered
<1>4. state'[g] = "ready" /\ items'[g] = its /\ stage'[g] = s /\ raised[g] = "none"
  BY <1>1 DEF WorkersHold
<1>5. stage' \in [Groups -> 1 .. 3] /\ DOMAIN items' = Groups
  BY DEF WorkersHold
<1>6. /\ state'[g] \in {"waiting", "submitted"} => items'[g] = <<>> /\ stage'[g] = 1
      /\ state'[g] \in {"waiting", "submitted", "ready", "calling"} => raised'[g] = "none"
      /\ state'[g] \in {"ready", "calling"} =>
             IF stage'[g] < 3 THEN items'[g] = <<>>
                             ELSE items'[g] \in Seq(ParagraphItems) /\ Len(items'[g]) < Size[g]
      /\ ~(state'[g] \in {"finished", "collected"})
  BY <1>4
<1> QED
  BY <1>2, <1>3, <1>5, <1>6 DEF WorkersHold

-----------------------------------------------------------------------------
(* The counters.                                                           *)

LEMMA CountsKept ==
    ASSUME CountsExact, counts' = counts, \A n \in Metrics : Tally(n)' = Tally(n)
    PROVE  CountsExact'
BY DEF CountsExact

LEMMA SameTally ==
    ASSUME UNCHANGED <<stage, items>>
    PROVE  \A n \in Metrics : Tally(n)' = Tally(n)
<1> TAKE n \in Metrics
<1> QED
  BY DEF Tally, Segments, Retried

LEMMA CountOne ==
    ASSUME CountsExact, Tracker, NEW g \in Groups, NEW name \in Metrics, Record(g, name), NEW x,
           x \notin Tally(name), Tally(name)' = Tally(name) \cup {x},
           \A n \in Metrics \ {name} : Tally(n)' = Tally(n)
    PROVE  CountsExact'
<1>1. counts' = [counts EXCEPT ![name] = @ + 1] /\ counts \in [Metrics -> Nat]
  BY DEF Record, Tracker, TrackerTyped
<1>2. IsFiniteSet(Tally(name)) /\ counts[name] = Cardinality(Tally(name))
  BY DEF CountsExact
<1>3. IsFiniteSet(Tally(name) \cup {x}) /\ Cardinality(Tally(name) \cup {x}) = Cardinality(Tally(name)) + 1
  BY <1>2, FS_AddElement
<1>4. IsFiniteSet(Tally(name)') /\ counts'[name] = Cardinality(Tally(name)')
  BY <1>1, <1>2, <1>3
<1>5. \A n \in Metrics \ {name} : IsFiniteSet(Tally(n)') /\ counts'[n] = Cardinality(Tally(n)')
  BY <1>1 DEF CountsExact
<1> QED
  BY <1>4, <1>5 DEF CountsExact

\* The segments that came about in one way are those of every group.
LEMMA SegmentsAre ==
    ASSUME NEW f, NEW way
    PROVE  \A s : s \in Segments(f, way) <=>
               \E g \in Groups : \E i \in DOMAIN f[g] : s = <<g, i>> /\ f[g][i].path = way
<1>1. ASSUME NEW s \in Segments(f, way)
      PROVE  \E g \in Groups : \E i \in DOMAIN f[g] : s = <<g, i>> /\ f[g][i].path = way
  <2>1. PICK g \in Groups : s \in {<<g, i>> : i \in {j \in DOMAIN f[g] : f[g][j].path = way}}
    BY <1>1 DEF Segments
  <2> QED
    BY <2>1
<1>2. ASSUME NEW g \in Groups, NEW i \in DOMAIN f[g], f[g][i].path = way
      PROVE  <<g, i>> \in Segments(f, way)
  <2>1. <<g, i>> \in {<<g, j>> : j \in {l \in DOMAIN f[g] : f[g][l].path = way}}
    BY <1>2
  <2> QED
    BY <2>1 DEF Segments
<1> QED
  BY <1>1, <1>2

\* A group that had nothing gets items none of which is of this path.
Answers(f, f1, g, way) ==
    /\ \A h \in Groups \ {g} : f1[h] = f[h]
    /\ DOMAIN f[g] = {} /\ \A i \in DOMAIN f1[g] : f1[g][i].path # way

LEMMA SegmentsKept ==
    ASSUME NEW g \in Groups, NEW f, NEW f1, NEW way, Answers(f, f1, g, way)
    PROVE  Segments(f1, way) = Segments(f, way)
<1>1. ASSUME NEW s
      PROVE  (\E h \in Groups : \E i \in DOMAIN f1[h] : s = <<h, i>> /\ f1[h][i].path = way)
               <=> (\E h \in Groups : \E i \in DOMAIN f[h] : s = <<h, i>> /\ f[h][i].path = way)
  BY DEF Answers
<1>2. \A s : s \in Segments(f1, way) <=> s \in Segments(f, way)
  BY <1>1, SegmentsAre
<1> QED
  BY <1>2

\* A group gets one more item.
Grown(f, f1, g, k) ==
    /\ \A h \in Groups \ {g} : f1[h] = f[h]
    /\ k \notin DOMAIN f[g] /\ DOMAIN f1[g] = DOMAIN f[g] \cup {k}
    /\ \A i \in DOMAIN f[g] : f1[g][i] = f[g][i]

\* What that does to the segments of a path.
Grows(f, f1, g, k, way) ==
    /\ <<g, k>> \notin Segments(f, way)
    /\ f1[g][k].path = way => Segments(f1, way) = Segments(f, way) \cup {<<g, k>>}
    /\ f1[g][k].path # way => Segments(f1, way) = Segments(f, way)

LEMMA SegmentsGrow ==
    ASSUME NEW g \in Groups, NEW f, NEW f1, NEW way, NEW k, Grown(f, f1, g, k)
    PROVE  Grows(f, f1, g, k, way)
<1> DEFINE In(s) == \E h \in Groups : \E i \in DOMAIN f[h] : s = <<h, i>> /\ f[h][i].path = way
           In1(s) == \E h \in Groups : \E i \in DOMAIN f1[h] : s = <<h, i>> /\ f1[h][i].path = way
<1>0. /\ k \notin DOMAIN f[g] /\ DOMAIN f1[g] = DOMAIN f[g] \cup {k}
      /\ \A h \in Groups \ {g} : f1[h] = f[h]
      /\ \A i \in DOMAIN f[g] : f1[g][i] = f[g][i]
  BY DEF Grown
<1>1. \A s : (s \in Segments(f, way) <=> In(s)) /\ (s \in Segments(f1, way) <=> In1(s))
  BY SegmentsAre
<1>2. ~In(<<g, k>>)
  BY <1>0
<1>3. ASSUME NEW s, In(s) PROVE In1(s)
  BY <1>0, <1>3
<1>4. ASSUME NEW s, In1(s), s # <<g, k>> PROVE In(s)
  BY <1>0, <1>4
<1>5. In1(<<g, k>>) <=> f1[g][k].path = way
  BY <1>0
<1> DEFINE S == Segments(f, way)
           S1 == Segments(f1, way)
           e == <<g, k>>
<1> HIDE DEF In, In1
<1>6. (\A s : s \in S <=> In(s)) /\ (\A s : s \in S1 <=> In1(s))
  BY <1>1
<1> HIDE DEF S, S1, e
<1>7. e \notin S /\ (e \in S1 <=> f1[g][k].path = way)
  BY <1>2, <1>5, <1>6 DEF e
<1>8. \A s : s # e => (s \in S1 <=> s \in S)
  BY <1>3, <1>4, <1>6 DEF e
<1>9. f1[g][k].path = way => S1 = S \cup {e}
  BY <1>7, <1>8
<1>10. f1[g][k].path # way => S1 = S
  BY <1>7, <1>8
<1> QED
  BY <1>7, <1>9, <1>10 DEF S, S1, e, Grows

LEMMA TallyIs ==
    /\ Tally("envelope_retry_groups") = {g \in Groups : stage[g] >= 2}
    /\ Tally("envelope_retry_recovered_groups") = Retried
    /\ Tally("paragraph_fallback_groups") = {g \in Groups : stage[g] = 3}
    /\ Tally("paragraph_fallback_recovered_segments") = Segments(items, "paragraph_fallback")
    /\ Tally("paragraph_fallback_failed_segments") = Segments(items, "paragraph_fallback_failed")
BY DEF Tally

LEMMA TallyBecomes ==
    /\ Tally("envelope_retry_groups")' = {g \in Groups : stage'[g] >= 2}
    /\ Tally("envelope_retry_recovered_groups")' = Retried'
    /\ Tally("paragraph_fallback_groups")' = {g \in Groups : stage'[g] = 3}
    /\ Tally("paragraph_fallback_recovered_segments")' = Segments(items', "paragraph_fallback")
    /\ Tally("paragraph_fallback_failed_segments")' = Segments(items', "paragraph_fallback_failed")
BY DEF Tally, Segments

\* A worker inside a call, and its group.
LEMMA CallingHas ==
    ASSUME BatchInv, AnswerInv, NEW g \in Groups, state[g] = "calling"
    PROVE  /\ state \in [Groups -> BatchStates] /\ stage \in [Groups -> 1 .. 3] /\ DOMAIN items = Groups
           /\ stage[g] < 3 => items[g] = <<>> /\ DOMAIN items[g] = {}
           /\ stage[g] = 3 => items[g] \in Seq(ParagraphItems) /\ Len(items[g]) < Size[g]
           /\ raised[g] = "none" /\ Tracker /\ WorkersHold /\ CountsExact
<1>1. DOMAIN <<>> = {}
  OBVIOUS
<1> QED
  BY <1>1, RequestFacts DEF AnswerInv, WorkersHold, BatchInv

\* The envelope of a group is answered, or the group fails as a whole: no
\* paragraph was asked for on its own.
LEMMA WholeGroup ==
    ASSUME BatchInv, AnswerInv, NEW g \in Groups, NEW item, state[g] = "calling", stage[g] < 3,
           item.path \notin {"paragraph_fallback", "paragraph_fallback_failed"},
           items' = [items EXCEPT ![g] = Uniform(g, item)], stage' = stage
    PROVE  /\ \A n \in Metrics \ {"envelope_retry_recovered_groups"} : Tally(n)' = Tally(n)
           /\ g \notin Retried
           /\ Retried' = IF stage[g] = 2 /\ item.path = "envelope_retry" THEN Retried \cup {g} ELSE Retried
<1>1. items'[g] = Uniform(g, item) /\ \A h \in Groups \ {g} : items'[h] = items[h]
  BY CallingHas
<1>2. /\ DOMAIN items'[g] = Positions(g) /\ items'[g] # <<>> /\ 1 \in Positions(g)
      /\ \A i \in Positions(g) : items'[g][i] = item
  BY <1>1, UniformFacts
<1>3. \A way \in {"paragraph_fallback", "paragraph_fallback_failed"} :
          Segments(items', way) = Segments(items, way)
  <2> TAKE way \in {"paragraph_fallback", "paragraph_fallback_failed"}
  <2>1. \A i \in DOMAIN items'[g] : items'[g][i].path # way
    BY <1>2
  <2>2. Answers(items, items', g, way)
    BY <1>1, <2>1, CallingHas DEF Answers
  <2> QED
    BY <2>2, SegmentsKept
<1>4. \A n \in Metrics \ {"envelope_retry_recovered_groups"} : Tally(n)' = Tally(n)
  BY <1>3, TallyIs, TallyBecomes DEF Metrics
<1>5. g \notin Retried
  BY CallingHas DEF Retried
<1>6. \A h \in Groups \ {g} : h \in Retried' <=> h \in Retried
  BY <1>1 DEF Retried
<1>7. g \in Retried' <=> stage[g] = 2 /\ item.path = "envelope_retry"
  BY <1>2 DEF Retried
<1>8. Retried \subseteq Groups /\ Retried' \subseteq Groups
  BY DEF Retried
<1>9. \A h : h \in Retried' <=> h \in (IF stage[g] = 2 /\ item.path = "envelope_retry" THEN Retried \cup {g} ELSE Retried)
  BY <1>5, <1>6, <1>7, <1>8
<1> QED
  BY <1>4, <1>5, <1>9

LEMMA EnvelopeValidHolds ==
    ASSUME BatchInv, AnswerInv, NEW g \in Groups, NEW p \in Eligible, EnvelopeValid(g, p)
    PROVE  WorkersHold' /\ CountsExact'
<1> DEFINE item == Item(IF stage[g] = 1 THEN "direct" ELSE "envelope_retry", p)
<1>1. /\ state[g] = "calling" /\ stage[g] < 3 /\ items' = [items EXCEPT ![g] = Uniform(g, item)]
      /\ state' = [state EXCEPT ![g] = "finished"] /\ UNCHANGED <<stage, raised>>
  BY DEF EnvelopeValid, Finish
<1>2. /\ item.path = IF stage[g] = 1 THEN "direct" ELSE "envelope_retry"
      /\ item.path \notin {"paragraph_fallback", "paragraph_fallback_failed"}
  BY DEF Item
<1>3. stage[g] = 1 \/ stage[g] = 2
  BY <1>1, CallingHas
<1>4. WorkersHold'
  <2>1. items'[g] = Uniform(g, item) /\ stage'[g] = stage[g]
    BY <1>1, CallingHas
  <2>2. Answered(g)'
    BY <1>3, <2>1 DEF Answered
  <2> QED
    BY <1>1, <2>2, WorkersFinish, CallingHas
<1>5. /\ \A n \in Metrics \ {"envelope_retry_recovered_groups"} : Tally(n)' = Tally(n)
      /\ g \notin Retried
      /\ Retried' = IF stage[g] = 2 /\ item.path = "envelope_retry" THEN Retried \cup {g} ELSE Retried
  <2> HIDE DEF item
  <2> QED
    BY <1>1, <1>2, WholeGroup
<1> DEFINE name == "envelope_retry_recovered_groups"
<1>6. Tally(name) = Retried /\ Tally(name)' = Retried' /\ name \in Metrics
  BY TallyIs, TallyBecomes DEF Metrics
<1>7. CASE stage[g] = 2
  <2>1. Record(g, name) /\ Retried' = Retried \cup {g}
    BY <1>2, <1>5, <1>7 DEF EnvelopeValid
  <2> HIDE DEF name
  <2>2. CountsExact /\ Tracker
    BY <1>1, CallingHas
  <2> QED
    BY <1>4, <1>5, <1>6, <2>1, <2>2, CountOne DEF name
<1>8. CASE stage[g] = 1
  <2>1. counts' = counts /\ Retried' = Retried
    BY <1>5, <1>8 DEF EnvelopeValid, metrics
  <2>2. \A n \in Metrics : Tally(n)' = Tally(n)
    BY <1>5, <1>6, <2>1
  <2> QED
    BY <1>1, <1>4, <2>1, <2>2, CountsKept, CallingHas
<1> QED
  BY <1>3, <1>4, <1>7, <1>8

LEMMA GroupFailedHolds ==
    ASSUME BatchInv, AnswerInv, NEW g \in Groups, GroupFailed(g)
    PROVE  WorkersHold' /\ CountsExact'
<1> DEFINE item == Item("failed", "")
<1>1. /\ state[g] = "calling" /\ stage[g] < 3 /\ items' = [items EXCEPT ![g] = Uniform(g, item)]
      /\ state' = [state EXCEPT ![g] = "finished"] /\ UNCHANGED <<stage, raised>> /\ counts' = counts
  BY DEF GroupFailed, Finish, metrics
<1>2. item.path = "failed"
  BY DEF Item
<1>3. WorkersHold'
  <2>1. items'[g] = Uniform(g, item) /\ stage'[g] = stage[g]
    BY <1>1, CallingHas
  <2>2. Answered(g)'
    BY <1>1, <2>1 DEF Answered
  <2> QED
    BY <1>1, <2>2, WorkersFinish, CallingHas
<1>4. /\ \A n \in Metrics \ {"envelope_retry_recovered_groups"} : Tally(n)' = Tally(n)
      /\ Retried' = Retried
  <2> HIDE DEF item
  <2> QED
    BY <1>1, <1>2, WholeGroup
<1>5. \A n \in Metrics : Tally(n)' = Tally(n)
  BY <1>4, TallyIs, TallyBecomes
<1> QED
  BY <1>1, <1>3, <1>5, CountsKept, CallingHas

LEMMA EnvelopeMalformedHolds ==
    ASSUME BatchInv, AnswerInv, NEW g \in Groups, EnvelopeMalformed(g)
    PROVE  WorkersHold' /\ CountsExact'
<1>1. /\ state[g] = "calling" /\ stage[g] < 3
      /\ stage[g] = 1 => Record(g, "envelope_retry_groups")
      /\ stage[g] = 2 => Record(g, "paragraph_fallback_groups")
      /\ state' = [state EXCEPT ![g] = "ready"] /\ stage' = [stage EXCEPT ![g] = stage[g] + 1]
      /\ items' = items /\ raised' = raised
  BY DEF EnvelopeMalformed, Again
<1>2. /\ items[g] = <<>> /\ stage \in [Groups -> 1 .. 3] /\ (stage[g] = 1 \/ stage[g] = 2)
      /\ DOMAIN items = Groups /\ Size[g] > 0 /\ <<>> \in Seq(ParagraphItems) /\ Len(<<>>) = 0
  BY <1>1, CallingHas, UniformFacts
<1>3. WorkersHold'
  <2>1. DOMAIN items' = Groups /\ items'[g] = <<>> /\ \A h \in Groups \ {g} : items'[h] = items[h]
    BY <1>1, <1>2
  <2>2. <<>> \in Seq(ParagraphItems) /\ Len(<<>>) < Size[g]
    BY <1>2
  <2>3. stage[g] + 1 \in 1 .. 3
    BY <1>2
  <2> QED
    BY <1>1, <2>1, <2>2, <2>3, WorkersAgain, CallingHas
<1>4. /\ stage'[g] = stage[g] + 1 /\ \A h \in Groups \ {g} : stage'[h] = stage[h]
      /\ \A h \in Groups : stage[h] \in 1 .. 3
  BY <1>1, <1>2
<1>5. Retried' = Retried
  BY <1>1, <1>2, <1>4 DEF Retried
<1>6. Segments(items', "paragraph_fallback") = Segments(items, "paragraph_fallback")
      /\ Segments(items', "paragraph_fallback_failed") = Segments(items, "paragraph_fallback_failed")
  BY <1>1
<1> DEFINE two == {h \in Groups : stage[h] >= 2}
           three == {h \in Groups : stage[h] = 3}
           two1 == {h \in Groups : stage'[h] >= 2}
           three1 == {h \in Groups : stage'[h] = 3}
<1>7. CountsExact /\ Tracker
  BY <1>1, CallingHas
<1>8. CASE stage[g] = 1
  <2>1. g \notin two /\ two1 = two \cup {g} /\ three1 = three
    BY <1>4, <1>8
  <2> DEFINE name == "envelope_retry_groups"
  <2>3. g \notin Tally(name) /\ Tally(name)' = Tally(name) \cup {g} /\ name \in Metrics
    BY <2>1, TallyIs, TallyBecomes DEF Metrics
  <2>4. \A n \in Metrics \ {name} : Tally(n)' = Tally(n)
    BY <1>5, <1>6, <2>1, TallyIs, TallyBecomes DEF Metrics
  <2>5. Record(g, name)
    BY <1>1, <1>8
  <2> HIDE DEF name
  <2> QED
    BY <1>3, <1>7, <2>3, <2>4, <2>5, CountOne DEF name
<1>9. CASE stage[g] = 2
  <2>1. g \notin three /\ two1 = two /\ three1 = three \cup {g}
    BY <1>4, <1>9
  <2> DEFINE name == "paragraph_fallback_groups"
  <2>3. g \notin Tally(name) /\ Tally(name)' = Tally(name) \cup {g} /\ name \in Metrics
    BY <2>1, TallyIs, TallyBecomes DEF Metrics
  <2>4. \A n \in Metrics \ {name} : Tally(n)' = Tally(n)
    BY <1>5, <1>6, <2>1, TallyIs, TallyBecomes DEF Metrics
  <2>5. Record(g, name)
    BY <1>1, <1>9
  <2> HIDE DEF name
  <2> QED
    BY <1>3, <1>7, <2>3, <2>4, <2>5, CountOne DEF name
<1> QED
  BY <1>2, <1>3, <1>8, <1>9

\* One paragraph on its own.
LEMMA ParagraphHolds ==
    ASSUME BatchInv, AnswerInv, NEW g \in Groups, NEW item \in ParagraphItems, Paragraph(g, item)
    PROVE  WorkersHold' /\ CountsExact'
<1> DEFINE its == Append(items[g], item)
           n == Len(items[g])
<1>1. /\ state[g] = "calling" /\ stage[g] = 3 /\ items' = [items EXCEPT ![g] = its]
      /\ state' = [state EXCEPT ![g] = IF Len(its) = Size[g] THEN "finished" ELSE "ready"]
      /\ UNCHANGED <<stage, raised>>
      /\ item.provider = "" => Record(g, "paragraph_fallback_failed_segments")
      /\ item.provider # "" => Record(g, "paragraph_fallback_recovered_segments")
  BY DEF Paragraph
<1>2. /\ items[g] \in Seq(ParagraphItems) /\ n \in Nat /\ n < Size[g] /\ DOMAIN items[g] = 1 .. n
      /\ DOMAIN items = Groups /\ stage \in [Groups -> 1 .. 3] /\ Size[g] \in Nat
  <2>1. items[g] \in Seq(ParagraphItems) /\ Len(items[g]) < Size[g] /\ DOMAIN items = Groups /\ stage \in [Groups -> 1 .. 3]
    BY <1>1, CallingHas
  <2>2. Size[g] \in Nat
    BY UniformFacts
  <2> QED
    BY <2>1, <2>2
<1>3. /\ its \in Seq(ParagraphItems) /\ Len(its) = n + 1 /\ DOMAIN its = 1 .. n + 1
      /\ its[n + 1] = item /\ \A i \in 1 .. n : its[i] = items[g][i]
  BY <1>2
<1>4. items'[g] = its /\ stage'[g] = 3 /\ DOMAIN items' = Groups /\ \A h \in Groups \ {g} : items'[h] = items[h]
  BY <1>1, <1>2
<1> HIDE DEF its, n
<1>5. WorkersHold'
  <2>1. CASE n + 1 = Size[g]
    <3>1. Answered(g)'
      BY <1>3, <1>4, <2>1 DEF Answered
    <3>2. state' = [state EXCEPT ![g] = "finished"]
      BY <1>1, <1>3, <2>1
    <3> QED
      BY <1>1, <3>1, <3>2, WorkersFinish, CallingHas
  <2>2. CASE n + 1 # Size[g]
    <3>1. n + 1 < Size[g]
      BY <1>2, <2>2
    <3>2. state' = [state EXCEPT ![g] = "ready"] /\ stage' = [stage EXCEPT ![g] = 3]
      BY <1>1, <1>2, <1>3, <2>2
    <3>3. its \in Seq(ParagraphItems) /\ Len(its) < Size[g] /\ 3 \in 1 .. 3 /\ ~(3 < 3)
      BY <1>3, <3>1
    <3>4. WorkersHold /\ state[g] = "calling" /\ raised' = raised
      BY <1>1, CallingHas
    <3> QED
      BY <1>4, <3>2, <3>3, <3>4, WorkersAgain
  <2> QED
    BY <2>1, <2>2
<1>6. /\ item.provider = "" => item.path = "paragraph_fallback_failed"
      /\ item.provider # "" => item.path = "paragraph_fallback"
  <2>1. item = Item("paragraph_fallback_failed", "") \/ \E p \in Eligible : item = Item("paragraph_fallback", p)
    BY DEF ParagraphItems
  <2>2. CASE item = Item("paragraph_fallback_failed", "")
    BY <2>2 DEF Item
  <2>3. ASSUME NEW p \in Eligible, item = Item("paragraph_fallback", p)
        PROVE  item.provider # "" /\ item.path = "paragraph_fallback"
    BY <2>3, EligibleAssumption DEF Item
  <2> QED
    BY <2>1, <2>2, <2>3
<1>7. /\ <<g, n + 1>> \notin Segments(items, item.path)
      /\ Segments(items', item.path) = Segments(items, item.path) \cup {<<g, n + 1>>}
      /\ \A way : item.path # way => Segments(items', way) = Segments(items, way)
  <2> DEFINE k == n + 1
  <2>1. items'[g][k] = item /\ Grown(items, items', g, k)
    BY <1>2, <1>3, <1>4 DEF Grown
  <2> HIDE DEF k
  <2>2. \A way : Grows(items, items', g, k, way)
    BY <2>1, SegmentsGrow
  <2> QED
    BY <2>1, <2>2 DEF Grows, k
<1>8. Retried' = Retried
  <2>1. \A h \in Groups : h \in Retried' <=> h \in Retried
    <3>1. g \notin Retried /\ g \notin Retried'
      <4>1. stage[g] = 3 /\ stage'[g] = 3
        BY <1>1, <1>4
      <4> QED
        BY <4>1 DEF Retried
    <3>2. \A h \in Groups \ {g} : h \in Retried' <=> h \in Retried
      BY <1>1, <1>4 DEF Retried
    <3> QED
      BY <3>1, <3>2
  <2> QED
    BY <2>1 DEF Retried
<1>11. CountsExact /\ Tracker
  BY <1>1, CallingHas
<1> DEFINE x == <<g, n + 1>>
<1>9. CASE item.provider = ""
  <2> DEFINE m == "paragraph_fallback_failed_segments"
  <2>1. item.path = "paragraph_fallback_failed" /\ Record(g, m)
    BY <1>1, <1>6, <1>9
  <2>2. m \in Metrics /\ x \notin Tally(m) /\ Tally(m)' = Tally(m) \cup {x}
    BY <1>7, <2>1, TallyIs, TallyBecomes DEF Metrics
  <2>3. \A l \in Metrics \ {m} : Tally(l)' = Tally(l)
    BY <1>1, <1>7, <1>8, <2>1, TallyIs, TallyBecomes DEF Metrics
  <2> HIDE DEF x, m
  <2> QED
    BY <1>5, <1>11, <2>1, <2>2, <2>3, CountOne DEF m
<1>10. CASE item.provider # ""
  <2> DEFINE m == "paragraph_fallback_recovered_segments"
  <2>1. item.path = "paragraph_fallback" /\ Record(g, m)
    BY <1>1, <1>6, <1>10
  <2>2. m \in Metrics /\ x \notin Tally(m) /\ Tally(m)' = Tally(m) \cup {x}
    BY <1>7, <2>1, TallyIs, TallyBecomes DEF Metrics
  <2>3. \A l \in Metrics \ {m} : Tally(l)' = Tally(l)
    BY <1>1, <1>7, <1>8, <2>1, TallyIs, TallyBecomes DEF Metrics
  <2> HIDE DEF x, m
  <2> QED
    BY <1>5, <1>11, <2>1, <2>2, <2>3, CountOne DEF m
<1> QED
  BY <1>9, <1>10

-----------------------------------------------------------------------------
(* The response.                                                           *)

Working == {"submitted", "ready", "calling"}

\* Whatever a worker does, its group stays in the window.
LEMMA WorkerKeepsResponse ==
    ASSUME BatchInv, ResponseHolds, NEW g \in Groups, NEW l \in {"ready", "calling", "finished"},
           state[g] \in Working, state' = [state EXCEPT ![g] = l], UNCHANGED request,
           \A h \in Groups \ {g} : items'[h] = items[h] /\ raised'[h] = raised[h]
    PROVE  ResponseHolds'
<1>1. /\ UNCHANGED <<main, outcome, toSubmit, done, results>> /\ state \in [Groups -> BatchStates]
      /\ state'[g] = l /\ \A h \in Groups \ {g} : state'[h] = state[h]
  BY RequestFacts DEF request
<1>2. g \in InWindow /\ g \in InWindow' /\ outcome # "ok" /\ main # "lookup"
  BY <1>1 DEF InWindow, Working, ResponseHolds
<1>3. \A h \in Groups : Covered(h)'
  <2> TAKE h \in Groups
  <2>1. Covered(h)
    BY <1>2 DEF ResponseHolds
  <2>2. CASE h = g
    BY <1>2, <2>2 DEF Covered
  <2>3. CASE h # g
    <3>1. state'[h] = state[h] /\ items'[h] = items[h] /\ raised'[h] = raised[h] /\ (h \in InWindow <=> h \in InWindow')
      BY <1>1, <2>3 DEF InWindow
    <3> QED
      BY <1>1, <2>1, <3>1 DEF Covered
  <2> QED
    BY <2>2, <2>3
<1>4. main' = "collect" => done' \subseteq {h \in Groups : state'[h] = "finished"}
  <2>1. ASSUME main = "collect", NEW d \in done
        PROVE  d \in Groups /\ state'[d] = "finished"
    <3>1. d \in Groups /\ state[d] = "finished"
      BY <2>1 DEF ResponseHolds
    <3> QED
      BY <1>1, <3>1 DEF Working
  <2> QED
    BY <1>1, <2>1
<1>5. toSubmit' \subseteq {h \in Groups : state'[h] = "waiting"}
  <2>1. g \notin toSubmit
    BY DEF ResponseHolds, Working
  <2> QED
    BY <1>1, <2>1 DEF ResponseHolds
<1> QED
  BY <1>1, <1>2, <1>3, <1>4, <1>5 DEF ResponseHolds

\* The request thread and the workers stand where they stood.
LEMMA ResponseStays ==
    ASSUME ResponseHolds, UNCHANGED <<main, outcome, toSubmit, done, results, state, items, raised>>
    PROVE  ResponseHolds'
<1>1. InWindow' = InWindow
  BY DEF InWindow
<1>2. \A h \in Groups : Covered(h)' = Covered(h)
  BY <1>1 DEF Covered
<1> QED
  BY <1>1, <1>2 DEF ResponseHolds

LEMMA GiveUpHolds ==
    ASSUME BatchInv, AnswerInv, NEW g \in Groups, NEW r \in Reasons, GiveUp(g, r),
           UNCHANGED <<request, metrics>>, state[g] \in Working
    PROVE  AnswerInv'
<1>1. WorkersHold'
  BY WorkersGiveUp DEF AnswerInv
<1>2. CountsExact'
  <2>1. UNCHANGED <<stage, items>> /\ counts' = counts
    BY DEF GiveUp, metrics
  <2> QED
    BY <2>1, SameTally, CountsKept DEF AnswerInv
<1>3. ResponseHolds'
  <2>1. /\ state' = [state EXCEPT ![g] = "finished"] /\ items' = items /\ raised' = [raised EXCEPT ![g] = r]
        /\ raised \in [Groups -> Reasons \cup {"none"}]
    BY RequestFacts DEF GiveUp
  <2>2. \A h \in Groups \ {g} : items'[h] = items[h] /\ raised'[h] = raised[h]
    BY <2>1
  <2> QED
    BY <2>1, <2>2, WorkerKeepsResponse DEF AnswerInv
<1> QED
  BY <1>1, <1>2, <1>3 DEF AnswerInv

\* A worker goes on without an answer.
LEMMA WorkerGoesOn ==
    ASSUME BatchInv, AnswerInv, NEW g \in Groups, NEW l,
           <<state[g], l>> \in {<<"submitted", "ready">>, <<"ready", "calling">>},
           state' = [state EXCEPT ![g] = l], UNCHANGED <<stage, items, raised, request, metrics>>
    PROVE  AnswerInv'
<1>0. state[g] \in Working /\ l \in {"ready", "calling", "finished"} /\ state \in [Groups -> BatchStates]
  BY RequestFacts DEF Working
<1>1. WorkersHold'
  <2>1. \A h \in Groups : state'[h] = IF h = g THEN l ELSE state[h]
    BY <1>0
  <2>2. \A h \in Groups : \/ state'[h] \in {state[h], "cancelled"}
                          \/ <<state[h], state'[h]>> \in
                                  {<<"waiting", "submitted">>, <<"submitted", "ready">>,
                                   <<"ready", "calling">>, <<"finished", "collected">>}
    BY <2>1
  <2> QED
    BY <2>2, WorkersMove DEF AnswerInv
<1>2. CountsExact'
  BY SameTally, CountsKept DEF AnswerInv, metrics
<1>3. ResponseHolds'
  BY <1>0, WorkerKeepsResponse DEF AnswerInv
<1> QED
  BY <1>1, <1>2, <1>3 DEF AnswerInv

LEMMA StandsStill ==
    ASSUME AnswerInv, UNCHANGED <<stage, items, raised, state, counts, request>>
    PROVE  AnswerInv'
<1>1. WorkersHold'
  BY WorkersMove DEF AnswerInv
<1>2. CountsExact'
  BY SameTally, CountsKept DEF AnswerInv
<1>3. ResponseHolds'
  BY ResponseStays DEF AnswerInv, request
<1> QED
  BY <1>1, <1>2, <1>3 DEF AnswerInv

LEMMA WorkerHolds ==
    ASSUME BatchInv, AnswerInv, NEW g \in Groups, WorkerStep(g)
    PROVE  AnswerInv'
<1>0. budget \in Budget
  BY RequestFacts
<1>1. CASE Start(g)
  <2>1. state[g] = "submitted" /\ UNCHANGED <<request, metrics>>
    BY <1>1 DEF Start
  <2>2. CASE Active(budget)
    BY <1>1, <2>1, <2>2, WorkerGoesOn DEF Start
  <2>3. CASE ~Active(budget)
    BY <1>0, <1>1, <2>1, <2>3, GiveUpHolds, InactiveIsReason DEF Start, Working
  <2> QED
    BY <2>2, <2>3
<1>2. CASE Call(g)
  <2>1. state[g] = "ready" /\ UNCHANGED <<request, metrics>>
    BY <1>2 DEF Call
  <2>2. CASE Refusal(budget, CallCost[g][stage[g]]) = "none"
    BY <1>2, <2>1, <2>2, WorkerGoesOn DEF Call
  <2>3. CASE Refusal(budget, CallCost[g][stage[g]]) # "none"
    BY <1>0, <1>2, <2>1, <2>3, GiveUpHolds, RefusalIsReason DEF Call, Working
  <2> QED
    BY <2>2, <2>3
<1>3. CASE QueueTimeout(g)
  <2>1. (IF Active(budget) THEN "queue" ELSE Inactive(budget)) \in Reasons
    BY <1>0, InactiveIsReason DEF Reasons
  <2> QED
    BY <1>3, <2>1, GiveUpHolds DEF QueueTimeout, Working
<1>4. CASE Abort(g)
  BY <1>0, <1>4, GiveUpHolds, InactiveIsReason DEF Abort, Working
<1>5. CASE Publish(g)
  BY <1>5, StandsStill DEF Publish, workers
<1> QED
  BY <1>1, <1>2, <1>3, <1>4, <1>5 DEF WorkerStep

LEMMA AnswerHolds ==
    ASSUME BatchInv, AnswerInv, NEW g \in Groups, AnswerStep(g)
    PROVE  AnswerInv'
<1>1. WorkersHold' /\ CountsExact'
  BY EnvelopeValidHolds, EnvelopeMalformedHolds, GroupFailedHolds, ParagraphHolds DEF AnswerStep
<1>2. /\ state[g] \in Working /\ UNCHANGED request /\ raised' = raised
      /\ \E l \in {"ready", "calling", "finished"} : state' = [state EXCEPT ![g] = l]
  BY DEF AnswerStep, EnvelopeValid, EnvelopeMalformed, GroupFailed, Paragraph, Finish, Again, Working
<1>3. \A h \in Groups \ {g} : items'[h] = items[h]
  <2>1. DOMAIN items = Groups /\ (items' = items \/ \E its : items' = [items EXCEPT ![g] = its])
    BY DEF AnswerStep, EnvelopeValid, EnvelopeMalformed, GroupFailed, Paragraph, Finish, Again, AnswerInv, WorkersHold
  <2> QED
    BY <2>1
<1>4. ResponseHolds'
  BY <1>2, <1>3, WorkerKeepsResponse DEF AnswerInv
<1> QED
  BY <1>1, <1>4 DEF AnswerInv

\* The request thread leaves the workers what they have.
LEMMA RequestLeaves ==
    ASSUME AnswerInv, UNCHANGED <<stage, items, raised, counts>>,
           \A g \in Groups : \/ state'[g] \in {state[g], "cancelled"}
                             \/ <<state[g], state'[g]>> \in
                                  {<<"waiting", "submitted">>, <<"finished", "collected">>}
    PROVE  WorkersHold' /\ CountsExact'
<1>1. WorkersHold'
  BY WorkersMove DEF AnswerInv
<1>2. CountsExact'
  BY SameTally, CountsKept DEF AnswerInv
<1> QED
  BY <1>1, <1>2

LEMMA LookupHolds ==
    ASSUME BatchInv, AnswerInv, Lookup
    PROVE  AnswerInv'
<1>1. /\ UNCHANGED <<state, stage, items, raised, counts, done>> /\ main = "lookup" /\ outcome = "none"
      /\ \A g \in Groups : state[g] = "waiting"
  BY DEF Lookup, workers, metrics, AnswerInv, ResponseHolds
<1> DEFINE missing == {g \in Groups : ~Hit(g)}
<1>2. /\ toSubmit' = missing
      /\ results' = [g \in Groups |-> IF g \in missing THEN <<>> ELSE Uniform(g, Item("cache", "cache"))]
      /\ IF missing = {} THEN main' = "done" /\ outcome' = "ok" ELSE main' = "run" /\ outcome' = outcome
  BY DEF Lookup
<1>3. missing \subseteq Groups
  OBVIOUS
<1> HIDE DEF missing
<1>4. InWindow' = {}
  BY <1>1 DEF InWindow
<1>5. \A g \in Groups : Covered(g)'
  <2> TAKE g \in Groups
  <2>1. CASE g \in missing
    BY <1>1, <1>2, <2>1 DEF Covered
  <2>2. CASE g \notin missing
    BY <1>1, <1>2, <2>2 DEF Covered
  <2> QED
    BY <2>1, <2>2
<1>6. ResponseHolds'
  BY <1>1, <1>2, <1>3, <1>4, <1>5 DEF ResponseHolds
<1> QED
  BY <1>1, <1>6, RequestLeaves DEF AnswerInv

LEMMA SubmitHolds ==
    ASSUME BatchInv, AnswerInv, NEW g \in Groups, Submit(g)
    PROVE  AnswerInv'
<1>1. /\ UNCHANGED <<stage, items, raised, counts, done, results, main, outcome>> /\ main = "run"
      /\ g \in toSubmit /\ toSubmit' = toSubmit \ {g} /\ state' = [state EXCEPT ![g] = "submitted"]
      /\ state \in [Groups -> BatchStates] /\ outcome = "none"
  BY RequestFacts DEF Submit, metrics, AnswerInv, ResponseHolds
<1>2. state'[g] = "submitted" /\ \A h \in Groups \ {g} : state'[h] = state[h]
  BY <1>1
<1>3. state[g] = "waiting" /\ g \in InWindow'
  BY <1>1, <1>2 DEF AnswerInv, ResponseHolds, InWindow
<1>4. \A h \in Groups : Covered(h)'
  <2> TAKE h \in Groups
  <2>1. CASE h = g
    BY <1>3, <2>1 DEF Covered
  <2>2. CASE h # g
    <3>1. Covered(h) /\ state'[h] = state[h] /\ (h \in toSubmit' <=> h \in toSubmit)
      BY <1>1, <1>2, <2>2 DEF AnswerInv, ResponseHolds
    <3>2. h \in InWindow' <=> h \in InWindow
      BY <3>1 DEF InWindow
    <3> QED
      BY <1>1, <3>1, <3>2 DEF Covered
  <2> QED
    BY <2>1, <2>2
<1>5. toSubmit' \subseteq {h \in Groups : state'[h] = "waiting"} /\ DOMAIN results' = Groups
  BY <1>1, <1>2 DEF AnswerInv, ResponseHolds
<1>6. ResponseHolds'
  BY <1>1, <1>4, <1>5 DEF ResponseHolds
<1>7. WorkersHold' /\ CountsExact'
  <2>1. \A h \in Groups : \/ state'[h] \in {state[h], "cancelled"}
                          \/ <<state[h], state'[h]>> \in
                                  {<<"waiting", "submitted">>, <<"finished", "collected">>}
    BY <1>2, <1>3
  <2> QED
    BY <1>1, <2>1, RequestLeaves
<1> QED
  BY <1>6, <1>7 DEF AnswerInv

LEMMA WaitHolds ==
    ASSUME BatchInv, AnswerInv, Wait
    PROVE  AnswerInv'
<1>1. /\ UNCHANGED <<state, stage, items, raised, counts, results, outcome, toSubmit>> /\ main = "run"
      /\ main' = "collect" /\ done' = {g \in Groups : state[g] = "finished"}
  BY DEF Wait, workers, metrics
<1>2. InWindow' = InWindow
  BY <1>1 DEF InWindow
<1>3. \A g \in Groups : Covered(g)'
  BY <1>1, <1>2 DEF AnswerInv, ResponseHolds, Covered
<1>4. ResponseHolds'
  BY <1>1, <1>2, <1>3 DEF AnswerInv, ResponseHolds
<1> QED
  BY <1>1, <1>4, RequestLeaves DEF AnswerInv

LEMMA CollectHolds ==
    ASSUME BatchInv, AnswerInv, NEW g \in Groups, Collect(g)
    PROVE  AnswerInv'
<1>0. /\ UNCHANGED <<stage, items, raised, counts, toSubmit>> /\ main = "collect" /\ outcome = "none"
      /\ g \in done /\ done' = done \ {g} /\ done \subseteq {h \in Groups : state[h] = "finished"}
      /\ state \in [Groups -> BatchStates] /\ state[g] = "finished"
      /\ toSubmit \subseteq {h \in Groups : state[h] = "waiting"} /\ DOMAIN results = Groups
      /\ raised \in [Groups -> Reasons \cup {"none"}]
  BY RequestFacts DEF Collect, metrics, AnswerInv, ResponseHolds
<1>1. CASE raised[g] = "none"
  <2> DEFINE last == toSubmit = {} /\ InWindow = {g}
  <2>1. /\ results' = [results EXCEPT ![g] = items[g]] /\ state' = [state EXCEPT ![g] = "collected"]
        /\ main' = IF last THEN "flush" ELSE IF done' = {} THEN "run" ELSE main
        /\ outcome' = IF last THEN "ok" ELSE "none"
    BY <1>1 DEF Collect
  <2>2. /\ state'[g] = "collected" /\ results'[g] = items[g] /\ DOMAIN results' = Groups
        /\ \A h \in Groups \ {g} : state'[h] = state[h] /\ results'[h] = results[h]
    BY <1>0, <2>1
  <2>3. InWindow' = InWindow \ {g}
    BY <2>2 DEF InWindow
  <2>4. \A h \in Groups : Covered(h)'
    <3> TAKE h \in Groups
    <3>1. CASE h = g
      BY <1>0, <1>1, <2>2, <3>1 DEF Covered
    <3>2. CASE h # g
      <4>1. Covered(h)
        BY <1>0 DEF AnswerInv, ResponseHolds
      <4> QED
        BY <1>0, <2>2, <2>3, <3>2, <4>1 DEF Covered
    <3> QED
      BY <3>1, <3>2
  <2>5. toSubmit' \subseteq {h \in Groups : state'[h] = "waiting"}
        /\ done' \subseteq {h \in Groups : state'[h] = "finished"}
    BY <1>0, <2>2
  <2>6. ResponseHolds'
    <3>1. main' \in {"run", "collect", "flush"} /\ (main' \in {"run", "collect"} => ~last)
      BY <1>0, <2>1
    <3>2. last => toSubmit' = {} /\ InWindow' = {}
      BY <1>0, <2>3
    <3> HIDE DEF last
    <3> QED
      BY <2>1, <2>2, <2>4, <2>5, <3>1, <3>2 DEF ResponseHolds
  <2>7. \A h \in Groups : \/ state'[h] \in {state[h], "cancelled"}
                          \/ <<state[h], state'[h]>> \in
                                  {<<"waiting", "submitted">>, <<"finished", "collected">>}
    BY <1>0, <2>2
  <2> QED
    BY <1>0, <2>6, <2>7, RequestLeaves DEF AnswerInv
<1>2. CASE raised[g] # "none"
  <2>1. /\ main' = "flush" /\ outcome' = raised[g] /\ results' = results
        /\ state' = [h \in Groups |-> IF h = g THEN "collected"
                                     ELSE IF state[h] = "submitted" THEN "cancelled" ELSE state[h]]
    BY <1>2 DEF Collect
  <2>2. outcome' \notin {"none", "ok"}
    BY <1>0, <1>2, <2>1 DEF Reasons
  <2>3. \A h \in Groups : Covered(h)'
    BY <2>2 DEF Covered
  <2>4. toSubmit' \subseteq {h \in Groups : state'[h] = "waiting"}
    BY <1>0, <2>1
  <2>5. ResponseHolds'
    BY <1>0, <2>1, <2>2, <2>3, <2>4 DEF ResponseHolds
  <2>6. \A h \in Groups : \/ state'[h] \in {state[h], "cancelled"}
                          \/ <<state[h], state'[h]>> \in
                                  {<<"waiting", "submitted">>, <<"finished", "collected">>}
    BY <1>0, <2>1
  <2> QED
    BY <1>0, <2>5, <2>6, RequestLeaves DEF AnswerInv
<1> QED
  BY <1>1, <1>2

\* The request thread after the workers.
LEMMA EndHolds ==
    ASSUME BatchInv, AnswerInv, AttachSink \/ PublishFlushed \/ WriteCache
    PROVE  AnswerInv'
<1>1. /\ UNCHANGED <<state, stage, items, raised, counts, results, outcome, toSubmit, done>>
      /\ main \in {"flush", "publish", "write"} /\ main' \in {"publish", "write", "done"}
      /\ main' = "write" => outcome = "ok"
  BY DEF AttachSink, PublishFlushed, WriteCache, workers, metrics
<1>2. InWindow' = InWindow
  BY <1>1 DEF InWindow
<1>3. \A g \in Groups : Covered(g)'
  BY <1>1, <1>2 DEF AnswerInv, ResponseHolds, Covered
<1>4. ResponseHolds'
  BY <1>1, <1>2, <1>3 DEF AnswerInv, ResponseHolds
<1> QED
  BY <1>1, <1>4, RequestLeaves DEF AnswerInv

-----------------------------------------------------------------------------
(* Invariance, and what it says of a request that answered.                *)

LEMMA AnswerInit == BatchInit => AnswerInv
<1> SUFFICES ASSUME BatchInit PROVE AnswerInv
  OBVIOUS
<1>1. WorkersHold /\ ResponseHolds
  BY DEF BatchInit, WorkersHold, ResponseHolds, InWindow
<1>2. \A n \in Metrics : Tally(n) = {}
  <2>1. \A g \in Groups : items[g] = <<>> /\ DOMAIN items[g] = {} /\ stage[g] = 1
    BY DEF BatchInit
  <2>2. \A way : Segments(items, way) = {}
    BY <2>1, SegmentsAre
  <2>3. Retried = {} /\ {g \in Groups : stage[g] >= 2} = {} /\ {g \in Groups : stage[g] = 3} = {}
    BY <2>1 DEF Retried
  <2> QED
    BY <2>2, <2>3, TallyIs DEF Metrics
<1>3. \A n \in Metrics : counts[n] = 0
  BY DEF BatchInit, Nothing
<1>4. CountsExact
  BY <1>2, <1>3, FS_EmptySet DEF CountsExact
<1> QED
  BY <1>1, <1>4 DEF AnswerInv

LEMMA AnswerNext ==
    ASSUME BatchInv, AnswerInv, [BatchNext]_batchVars
    PROVE  AnswerInv'
<1>1. CASE RequestStep
  BY <1>1, LookupHolds, SubmitHolds, WaitHolds, CollectHolds, EndHolds DEF RequestStep
<1>2. ASSUME NEW g \in Groups, WorkerStep(g) \/ AnswerStep(g) PROVE AnswerInv'
  BY <1>2, WorkerHolds, AnswerHolds
<1>3. CASE Expire
  BY <1>3, StandsStill DEF Expire, workers, metrics
<1>4. CASE UNCHANGED batchVars
  BY <1>4, StandsStill DEF batchVars, request
<1> QED
  BY <1>1, <1>2, <1>3, <1>4 DEF BatchNext, Done

LEMMA AnswerInvariance == BatchSpec => [](BatchInv /\ AnswerInv)
<1>1. BatchInit => BatchInv /\ AnswerInv
  BY BatchInitInv, AnswerInit
<1>2. (BatchInv /\ AnswerInv) /\ [BatchNext]_batchVars => (BatchInv /\ AnswerInv)'
  BY BatchNextInv, AnswerNext DEF AnswerInv, WorkersHold, StagesKnown
<1> QED
  BY <1>1, <1>2, PTL DEF BatchSpec

\* A group of a request that answered came from the cache or from a worker.
LEMMA AnsweredGroups ==
    ASSUME BatchInv, AnswerInv, outcome = "ok", NEW g \in Groups
    PROVE  \/ state[g] = "waiting" /\ items[g] = <<>> /\ results[g] = Uniform(g, Item("cache", "cache"))
           \/ state[g] = "collected" /\ Answered(g) /\ results[g] = items[g]
<1>1. main # "lookup" /\ toSubmit = {} /\ g \notin InWindow
  BY DEF AnswerInv, ResponseHolds
<1>2. Covered(g)
  BY <1>1 DEF AnswerInv, ResponseHolds
<1> QED
  BY <1>1, <1>2 DEF Covered, AnswerInv, WorkersHold

LEMMA AnsweredWhole ==
    ASSUME NEW g \in Groups, Answered(g)
    PROVE  DOMAIN items[g] = Positions(g)
<1>1. ASSUME NEW item, items[g] = Uniform(g, item)
      PROVE  DOMAIN items[g] = Positions(g)
  BY <1>1, UniformFacts
<1>2. CASE items[g] \in Seq(ParagraphItems) /\ Len(items[g]) = Size[g]
  BY <1>2 DEF Positions
<1> QED
  BY <1>1, <1>2 DEF Answered

\* Of what a worker can have, only the items of an envelope may be cached.
LEMMA OnlyEnvelopes ==
    ASSUME NEW g \in Groups, Answered(g), NEW i \in DOMAIN items[g], Cacheable(items[g][i])
    PROVE  stage[g] < 3 /\ \E p \in Eligible : \E way : items[g] = Uniform(g, Item(way, p))
<1>1. ASSUME items[g] = Uniform(g, Item("failed", "")) PROVE FALSE
  <2>1. i \in Positions(g)
    BY <1>1, AnsweredWhole
  <2> DEFINE item == Item("failed", "")
  <2>2. item.path = "failed"
    BY DEF Item
  <2> HIDE DEF item
  <2>3. items[g][i] = item
    <3>1. Uniform(g, item)[i] = item
      BY <2>1, UniformFacts
    <3>2. items[g] = Uniform(g, item)
      BY <1>1 DEF item
    <3> QED
      BY <3>1, <3>2
  <2> QED
    BY <2>2, <2>3 DEF Cacheable
<1>2. ASSUME items[g] \in Seq(ParagraphItems) PROVE FALSE
  <2>1. items[g][i] \in ParagraphItems
    BY <1>2
  <2>2. PICK p : items[g][i] = Item("paragraph_fallback", p) \/ items[g][i] = Item("paragraph_fallback_failed", p)
    BY <2>1 DEF ParagraphItems
  <2>3. items[g][i].path = "paragraph_fallback" \/ items[g][i].path = "paragraph_fallback_failed"
    <3>1. CASE items[g][i] = Item("paragraph_fallback", p)
      BY <3>1 DEF Item
    <3>2. CASE items[g][i] = Item("paragraph_fallback_failed", p)
      BY <3>2 DEF Item
    <3> QED
      BY <2>2, <3>1, <3>2
  <2> QED
    BY <2>3 DEF Cacheable
<1>3. CASE stage[g] = 1 /\ \E p \in Eligible : items[g] = Uniform(g, Item("direct", p))
  <2>1. stage[g] < 3
    BY <1>3
  <2> QED
    BY <1>3, <2>1
<1>4. CASE stage[g] = 2 /\ \E p \in Eligible : items[g] = Uniform(g, Item("envelope_retry", p))
  <2>1. stage[g] < 3
    BY <1>4
  <2> QED
    BY <1>4, <2>1
<1> QED
  BY <1>1, <1>2, <1>3, <1>4 DEF Answered

\* translate_batch_detailed: a request that answered has one item for every
\* paragraph, in its place, for every number and size of groups.
THEOREM ParagraphsAreAnswered == BatchSpec => []EveryParagraphAnswered
<1>1. BatchInv /\ AnswerInv => EveryParagraphAnswered
  <2> SUFFICES ASSUME BatchInv, AnswerInv, outcome = "ok", NEW g \in Groups
               PROVE  DOMAIN results[g] = Positions(g)
    BY DEF EveryParagraphAnswered
  <2> QED
    BY AnsweredGroups, AnsweredWhole, UniformFacts
<1> QED
  BY <1>1, AnswerInvariance, PTL

LEMMA DisjointCount ==
    ASSUME NEW A, NEW B, NEW C, IsFiniteSet(A), IsFiniteSet(B), IsFiniteSet(C),
           A \cup B \subseteq C, A \cap B = {}
    PROVE  Cardinality(A) + Cardinality(B) <= Cardinality(C)
<1> DEFINE a == Cardinality(A)
           b == Cardinality(B)
           u == Cardinality(A \cup B)
<1>1. a \in Nat /\ b \in Nat /\ Cardinality(C) \in Nat
  BY FS_CardinalityType
<1>2. u = a + b - Cardinality(A \cap B)
  BY FS_Union
<1>3. Cardinality(A \cap B) = 0
  BY FS_EmptySet
<1>4. u <= Cardinality(C)
  BY FS_Subset
<1> HIDE DEF a, b, u
<1>5. u = a + b
  BY <1>1, <1>2, <1>3
<1> QED
  BY <1>4, <1>5 DEF a, b

\* BatchRecoveryTracker: the counters of a request that answered agree with the
\* items of its response.
THEOREM RecoveryIsCounted == BatchSpec => []RecoveryMatchesItems
<1>1. ASSUME BatchInv, AnswerInv, outcome = "ok"
      PROVE  RecoveryMatchesItems
  <2>1. \A way \in {"paragraph_fallback", "paragraph_fallback_failed"} :
            Segments(results, way) = Segments(items, way)
    <3> TAKE way \in {"paragraph_fallback", "paragraph_fallback_failed"}
    <3>1. \A g \in Groups : \A i : (i \in DOMAIN results[g] /\ results[g][i].path = way)
                                  <=> (i \in DOMAIN items[g] /\ items[g][i].path = way)
      <4> TAKE g \in Groups
      <4> TAKE i
      <4>1. CASE results[g] = items[g]
        BY <4>1
      <4>2. CASE items[g] = <<>> /\ results[g] = Uniform(g, Item("cache", "cache"))
        <5>1. \A j \in DOMAIN results[g] : results[g][j] = Item("cache", "cache")
          BY <4>2, UniformFacts
        <5>2. Item("cache", "cache").path # way
          BY DEF Item
        <5>3. DOMAIN items[g] = {}
          BY <4>2
        <5> QED
          BY <5>1, <5>2, <5>3
      <4> QED
        BY <1>1, <4>1, <4>2, AnsweredGroups
    <3>2. \A s : s \in Segments(results, way) <=> s \in Segments(items, way)
      <4>1. \A s : s \in Segments(results, way) <=>
               \E g \in Groups : \E i \in DOMAIN results[g] : s = <<g, i>> /\ results[g][i].path = way
        BY SegmentsAre
      <4>2. \A s : s \in Segments(items, way) <=>
               \E g \in Groups : \E i \in DOMAIN items[g] : s = <<g, i>> /\ items[g][i].path = way
        BY SegmentsAre
      <4> QED
        BY <3>1, <4>1, <4>2
    <3> QED
      BY <3>2
  <2>2. /\ counts["paragraph_fallback_recovered_segments"] = Cardinality(Segments(items, "paragraph_fallback"))
        /\ counts["paragraph_fallback_failed_segments"] = Cardinality(Segments(items, "paragraph_fallback_failed"))
    BY <1>1, TallyIs DEF AnswerInv, CountsExact, Metrics
  <2> DEFINE two == {g \in Groups : stage[g] >= 2}
             three == {g \in Groups : stage[g] = 3}
  <2>3. /\ IsFiniteSet(two) /\ counts["envelope_retry_groups"] = Cardinality(two)
        /\ IsFiniteSet(three) /\ counts["paragraph_fallback_groups"] = Cardinality(three)
        /\ IsFiniteSet(Retried) /\ counts["envelope_retry_recovered_groups"] = Cardinality(Retried)
    BY <1>1, TallyIs DEF AnswerInv, CountsExact, Metrics
  <2>4. Retried \cup three \subseteq two /\ Retried \cap three = {}
    BY <1>1 DEF AnswerInv, WorkersHold, Retried
  <2>5. Cardinality(Retried) + Cardinality(three) <= Cardinality(two)
    <3> HIDE DEF two, three
    <3> QED
      BY <2>3, <2>4, DisjointCount
  <2>6. counts["envelope_retry_groups"] >=
                 counts["envelope_retry_recovered_groups"] + counts["paragraph_fallback_groups"]
    <3>1. Cardinality(Retried) \in Nat /\ Cardinality(three) \in Nat /\ Cardinality(two) \in Nat
      BY <2>3, FS_CardinalityType
    <3> HIDE DEF two, three
    <3> QED
      BY <2>3, <2>5, <3>1
  <2> QED
    BY <2>1, <2>2, <2>6 DEF RecoveryMatchesItems, Segments
<1>2. BatchInv /\ AnswerInv => RecoveryMatchesItems
  BY <1>1 DEF RecoveryMatchesItems
<1> QED
  BY <1>2, AnswerInvariance, PTL

\* _translate_paragraphs: what a request writes is whole groups that one provider
\* answered with an envelope, never paragraphs that were asked for on their own.
THEOREM WholeGroupsAreWritten == BatchSpec => WrittenGroupsWhole
<1>1. ASSUME BatchInv, AnswerInv, [BatchNext]_batchVars, NEW g \in Groups,
             {row \in cache' \ cache : row.group = g} # {}
      PROVE  /\ \E p \in Eligible : {CacheRow(g, i, "batch", p) : i \in Positions(g)} \subseteq cache'
             /\ stage[g] < 3
  <2> DEFINE written == UNION {{CacheRow(h, i, "batch", results[h][i].provider) :
                               i \in {j \in DOMAIN results[h] : Cacheable(results[h][j])}} :
                            h \in {k \in Groups : state[k] = "collected"}}
  <2>1. main = "write" /\ cache' = cache \cup written
    <3>1. CASE WriteCache
      BY <1>1, <3>1 DEF WriteCache
    <3>2. CASE ~WriteCache
      <4>1. cache' = cache
        BY <1>1, <3>2 DEF BatchNext, RequestStep, WorkerStep, AnswerStep, Done, batchVars, request, Lookup, Submit,
           Wait, Collect, AttachSink, PublishFlushed, Start, Call, QueueTimeout, Abort, Publish, EnvelopeValid,
           EnvelopeMalformed, GroupFailed, Paragraph, Expire
      <4> QED
        BY <1>1, <4>1
    <3> QED
      BY <3>1, <3>2
  <2>2. PICK row \in written : row.group = g
    BY <1>1, <2>1
  <2>3. PICK h \in Groups : /\ state[h] = "collected"
                            /\ row \in {CacheRow(h, i, "batch", results[h][i].provider) :
                                         i \in {j \in DOMAIN results[h] : Cacheable(results[h][j])}}
    OBVIOUS
  <2>4. PICK i \in DOMAIN results[h] : Cacheable(results[h][i])
                                     /\ row = CacheRow(h, i, "batch", results[h][i].provider)
    BY <2>3
  <2>5. h = g
    BY <2>2, <2>4 DEF CacheRow
  <2>6. outcome = "ok"
    BY <1>1, <2>1 DEF AnswerInv, ResponseHolds
  <2>7. Answered(g) /\ results[g] = items[g] /\ state[g] = "collected"
    BY <1>1, <2>3, <2>5, <2>6, AnsweredGroups
  <2>8. Cacheable(items[g][i]) /\ i \in DOMAIN items[g]
    BY <2>4, <2>5, <2>7
  <2>9. stage[g] < 3 /\ \E p \in Eligible : \E way : items[g] = Uniform(g, Item(way, p))
    BY <2>7, <2>8, OnlyEnvelopes
  <2>10. PICK p \in Eligible : \E way : items[g] = Uniform(g, Item(way, p))
    BY <2>9
  <2>11. PICK way : items[g] = Uniform(g, Item(way, p))
    BY <2>10
  <2>12. \A j \in Positions(g) : CacheRow(g, j, "batch", p) \in written
    <3> TAKE j \in Positions(g)
    <3>1. j \in DOMAIN results[g] /\ results[g][j] = Item(way, p) /\ DOMAIN results[g] = Positions(g)
      BY <2>7, <2>11, UniformFacts
    <3>2. i \in Positions(g) /\ results[g][i] = Item(way, p)
      BY <2>7, <2>8, <2>11, <3>1, UniformFacts
    <3>3. Cacheable(results[g][j]) /\ results[g][j].provider = p
      BY <2>7, <2>8, <3>1, <3>2 DEF Item
    <3>4. CacheRow(g, j, "batch", p)
            \in {CacheRow(g, k, "batch", results[g][k].provider) :
                  k \in {l \in DOMAIN results[g] : Cacheable(results[g][l])}}
      BY <3>1, <3>3
    <3> QED
      BY <2>7, <3>4
  <2> HIDE DEF written
  <2> QED
    BY <2>1, <2>9, <2>12
<1>2. (BatchInv /\ AnswerInv) /\ [BatchNext]_batchVars =>
        [\A g \in Groups :
          LET new == {row \in cache' \ cache : row.group = g}
          IN  new # {} =>
                /\ \E p \in Eligible :
                     {CacheRow(g, i, "batch", p) : i \in Positions(g)} \subseteq cache'
                /\ stage[g] < 3 ]_batchVars
  BY <1>1
<1> QED
  BY <1>2, AnswerInvariance, PTL DEF BatchSpec, WrittenGroupsWhole
=============================================================================
