-------------------------- MODULE TranslationCache --------------------------
(***************************************************************************)
(* CacheStore of cache.py: the SQLite table of translations, the hit       *)
(* counters that are collected in memory and flushed in batches, and the   *)
(* retention rules (time to live, row cap) that run on a write watermark.  *)
(*                                                                         *)
(* SQLite serialises writers, and readers see committed rows only, so a    *)
(* write transaction is one step that commits or rolls back.  A call that  *)
(* uses several statements or locks is several steps.  Keys are the hashes *)
(* that compute_key makes of scope and text.                               *)
(***************************************************************************)
EXTENDS Integers, FiniteSets

CONSTANTS Threads,         \* server threads that use the store
          Keys,            \* cache keys
          TTL,             \* ttl_days, in clock ticks
          MaxEntries,      \* max_entries
          FlushThreshold,  \* hit_flush_threshold
          CleanupDays,     \* the retention periods cleanup() is called with
          NoThread,        \* nobody
          MaxTime,         \* bound: last tick of the clock
          MaxCalls         \* bound: calls of the store in a behaviour

ASSUME ThreadsAssumption == IsFiniteSet(Threads) /\ IsFiniteSet(Keys) /\ NoThread \notin Threads
ASSUME StoreAssumption ==
    /\ TTL \in Nat \ {0}
    /\ MaxEntries \in Nat \ {0}
    /\ FlushThreshold \in Nat \ {0}
    /\ CleanupDays \subseteq Nat \ {0}
    /\ MaxTime \in Nat
    /\ MaxCalls \in Nat

VARIABLES clock,            \* _utc_now()
          rows,             \* translations_v2: function on the keys present
          pending,          \* _pending_hits
          pendingTotal,     \* _pending_hits_total
          writes,           \* _writes_since_prune
          flusher,          \* holder of _flush_lock
          taken,            \* per thread, the counter its flush swapped out
          pc, loc,          \* where a thread stands, and its locals
          calls,            \* calls made so far
          recorded, lost,   \* ghosts, per key: hits queued, hits given up
          pruneFailed       \* ghost: the last due prune was rolled back

store == <<rows, pending, pendingTotal, writes, flusher, taken>>
ghosts == <<recorded, lost, pruneFailed>>
vars == <<clock, store, pc, loc, calls, ghosts>>

PruneThreshold == IF MaxEntries < 1000 THEN MaxEntries ELSE 1000
Retentions == CleanupDays \cup {TTL}

Row == [created : Nat, accessed : Nat, hits : Nat]
NoHits == [k \in Keys |-> 0]
\* A thread's locals: the keys of the call, the instant it read the clock, the
\* retention period, and (a ghost) the hits queued when it was called.
Idle == [keys |-> {}, stamp |-> 0, days |-> TTL, seen |-> NoHits]
Keep(table, ks) == [k \in ks |-> table[k]]
Present == DOMAIN rows
AddHits(a, b) == [k \in Keys |-> a[k] + b[k]]
\* The sum of a counter: how many single hits there are in it.
SumHits(counter) == Cardinality(UNION { {x} \X (1 .. counter[x]) : x \in DOMAIN counter })

\* DELETE ... WHERE created_at < cutoff.
DeleteExpired(table, cutoff) ==
    Keep(table, {k \in DOMAIN table : table[k].created >= cutoff})

\* _enforce_cap: the tables it may leave.  Rows are ordered by last access,
\* then creation; the order of the key hashes decides the rest and is open.
Newer(a, b) ==
    \/ a.accessed > b.accessed
    \/ a.accessed = b.accessed /\ a.created >= b.created
EnforceCapLoose(table) == {table}             \* mutant: no cap
EnforceCap(table) ==
    LET n == Cardinality(DOMAIN table)
    IN  {Keep(table, ks) : ks \in
            {s \in SUBSET DOMAIN table :
               /\ Cardinality(s) = IF n > MaxEntries THEN MaxEntries ELSE n
               /\ \A k \in s, j \in DOMAIN table \ s : Newer(table[k], table[j])}}

\* What retention may leave of a table.
Prune(table, cutoff) == EnforceCap(DeleteExpired(table, cutoff))

\* INSERT ... ON CONFLICT DO UPDATE: a rewritten row keeps its hit count.
Upsert(ks, stamp) ==
    [k \in Present \cup ks |->
       IF k \in ks
       THEN [created |-> stamp, accessed |-> stamp,
             hits |-> IF k \in Present THEN rows[k].hits ELSE 0]
       ELSE rows[k]]

\* Ghost: the hits of the rows that a step deletes are given up with them.
Dropped(before, after) ==
    [k \in Keys |-> IF k \in DOMAIN before \ DOMAIN after
                    THEN before[k].hits ELSE 0]

Goto(t, label) == pc' = [pc EXCEPT ![t] = label]
Return(t) == Goto(t, "idle") /\ loc' = [loc EXCEPT ![t] = Idle]

Init ==
    /\ clock = 0
    /\ rows = [k \in {} |-> 0]
    /\ pending = NoHits /\ pendingTotal = 0
    /\ writes = 0
    /\ flusher = NoThread
    /\ taken = [t \in Threads |-> NoHits]
    /\ pc = [t \in Threads |-> "idle"]
    /\ loc = [t \in Threads |-> Idle]
    /\ calls = 0
    /\ recorded = NoHits /\ lost = NoHits
    /\ pruneFailed = FALSE

Enter(t, label, ks, days) ==
    /\ pc[t] = "idle"
    /\ calls < MaxCalls
    /\ calls' = calls + 1
    /\ Goto(t, label)
    /\ loc' = [loc EXCEPT ![t] = [keys |-> ks, stamp |-> clock,
                                  days |-> days, seen |-> recorded]]
    /\ UNCHANGED <<clock, store, ghosts>>

-----------------------------------------------------------------------------
(* put_many                                                                *)

\* The rows are stamped before the transaction starts.
Put(t, ks) == Enter(t, "put", ks, TTL)

\* The transaction: upsert, count the writes, and retention when the
\* watermark is reached.
PutCommit(t) ==
    LET written == Upsert(loc[t].keys, loc[t].stamp)
        count == writes + Cardinality(loc[t].keys)
        due == count >= PruneThreshold
    IN  /\ pc[t] = "put"
        /\ IF due THEN rows' \in Prune(written, clock - TTL) ELSE rows' = written
        /\ writes' = IF due THEN 0 ELSE count
        /\ pruneFailed' = (pruneFailed /\ ~due)
        /\ lost' = AddHits(lost, Dropped(written, rows'))
        /\ Return(t)
        /\ UNCHANGED <<clock, pending, pendingTotal, flusher, taken, calls, recorded>>

\* The transaction rolls back: at the INSERT, or after the watermark moved,
\* which no rollback restores.
PutRollback(t) ==
    LET count == writes + Cardinality(loc[t].keys)
        due == count >= PruneThreshold
    IN  /\ pc[t] = "put"
        /\ \/ UNCHANGED <<writes, pruneFailed>>
           \/ /\ writes' = IF due THEN 0 ELSE count
              /\ pruneFailed' = (pruneFailed \/ due)
        /\ Return(t)
        /\ UNCHANGED <<clock, rows, pending, pendingTotal, flusher, taken,
                       calls, recorded, lost>>

-----------------------------------------------------------------------------
(* get and record_hit                                                      *)

\* The cutoff is read before the row is.
Get(t, k) == Enter(t, "select", {k}, TTL)

KeyOf(t) == CHOOSE k \in loc[t].keys : TRUE
Cutoff(t) == loc[t].stamp - loc[t].days

\* SELECT: no row; an expired row, whose created_at is remembered in order to
\* delete it; or a row to serve.
Select(t) ==
    LET k == KeyOf(t)
    IN  /\ pc[t] = "select"
        /\ \/ k \notin Present /\ Return(t)
           \/ /\ k \in Present
              /\ rows[k].created < Cutoff(t)
              /\ Goto(t, "evict")
              /\ loc' = [loc EXCEPT ![t].stamp = rows[k].created]
           \/ /\ k \in Present
              /\ rows[k].created >= Cutoff(t)
              /\ Goto(t, "served")
              /\ UNCHANGED loc
        /\ UNCHANGED <<clock, store, calls, ghosts>>

\* DELETE ... WHERE cache_key = ? AND created_at = ?
EvictByKey(t) ==                              \* mutant: deletes by key alone
    /\ pc[t] = "evict"
    /\ rows' = Keep(rows, Present \ loc[t].keys)
    /\ lost' = AddHits(lost, Dropped(rows, rows'))
    /\ Return(t)
    /\ UNCHANGED <<clock, pending, pendingTotal, writes, flusher, taken, calls,
                   recorded, pruneFailed>>
Evict(t) ==
    /\ pc[t] = "evict"
    /\ rows' = Keep(rows, {k \in Present : ~ (k \in loc[t].keys
                                              /\ rows[k].created = loc[t].stamp)})
    /\ lost' = AddHits(lost, Dropped(rows, rows'))
    /\ Return(t)
    /\ UNCHANGED <<clock, pending, pendingTotal, writes, flusher, taken, calls,
                   recorded, pruneFailed>>

EvictRollback(t) ==
    /\ pc[t] = "evict"
    /\ Return(t)
    /\ UNCHANGED <<clock, store, calls, ghosts>>

\* _queue_hit, by get itself or by a caller that accepts the row later; the
\* hit that reaches the threshold flushes.
QueueHit(t) ==
    LET k == KeyOf(t)
    IN  /\ pc[t] = "served"
        /\ pending' = [pending EXCEPT ![k] = @ + 1]
        /\ pendingTotal' = pendingTotal + 1
        /\ recorded' = [recorded EXCEPT ![k] = @ + 1]
        /\ IF pendingTotal' >= FlushThreshold
           THEN Goto(t, "flush") /\ UNCHANGED loc
           ELSE Return(t)
        /\ UNCHANGED <<clock, rows, writes, flusher, taken, calls, lost,
                       pruneFailed>>

\* record_hit = False and the caller rejects the group the row belongs to.
IgnoreRow(t) ==
    /\ pc[t] = "served"
    /\ Return(t)
    /\ UNCHANGED <<clock, store, calls, ghosts>>

-----------------------------------------------------------------------------
(* flush_hits, cleanup, stats and checkpoint                               *)

\* stats (days = TTL) and cleanup(days) flush first, then apply retention.
Maintain(t, days) == Enter(t, "flushFirst", {}, days)
\* checkpoint only flushes.
Checkpoint(t) == Enter(t, "flush", {}, TTL)

AtFlush(t) == pc[t] \in {"flush", "flushFirst"}
AfterFlush(t, label) ==
    IF label = "flush" THEN Return(t)
    ELSE Goto(t, "retain") /\ loc' = [loc EXCEPT ![t].stamp = clock]

\* Under _flush_lock and _pending_lock: nothing pending, or swap it out.
FlushSwapFree(t) ==                           \* mutant: no _flush_lock
    /\ AtFlush(t)
    /\ IF pending = NoHits
       THEN AfterFlush(t, pc[t]) /\ UNCHANGED <<pending, pendingTotal, flusher, taken>>
       ELSE /\ taken' = [taken EXCEPT ![t] = pending]
            /\ pending' = NoHits /\ pendingTotal' = 0
            /\ Goto(t, IF pc[t] = "flush" THEN "swapped" ELSE "swappedFirst")
            /\ loc' = [loc EXCEPT ![t].stamp = clock]
            /\ UNCHANGED flusher
    /\ UNCHANGED <<clock, rows, writes, calls, ghosts>>
FlushSwap(t) ==
    /\ AtFlush(t)
    /\ flusher = NoThread
    /\ IF pending = NoHits
       THEN AfterFlush(t, pc[t]) /\ UNCHANGED <<pending, pendingTotal, flusher, taken>>
       ELSE /\ flusher' = t
            /\ taken' = [taken EXCEPT ![t] = pending]
            /\ pending' = NoHits /\ pendingTotal' = 0
            /\ Goto(t, IF pc[t] = "flush" THEN "swapped" ELSE "swappedFirst")
            /\ loc' = [loc EXCEPT ![t].stamp = clock]
    /\ UNCHANGED <<clock, rows, writes, calls, ghosts>>

Swapped(t) == pc[t] \in {"swapped", "swappedFirst"}

\* UPDATE the rows that still exist; the other hits go nowhere.
FlushCommit(t) ==
    /\ Swapped(t)
    /\ rows' = [k \in Present |->
                  IF taken[t][k] = 0 THEN rows[k]
                  ELSE [rows[k] EXCEPT !.hits = @ + taken[t][k],
                                       !.accessed = loc[t].stamp]]
    /\ lost' = AddHits(lost, [k \in Keys |-> IF k \in Present THEN 0 ELSE taken[t][k]])
    /\ taken' = [taken EXCEPT ![t] = NoHits]
    /\ flusher' = NoThread
    /\ AfterFlush(t, IF pc[t] = "swapped" THEN "flush" ELSE "flushFirst")
    /\ UNCHANGED <<clock, pending, pendingTotal, writes, calls, recorded, pruneFailed>>

\* The update rolls back: the hits return to the counter, the error goes up.
FlushFailDrops(t) ==                          \* mutant: the hits are not put back
    /\ Swapped(t)
    /\ taken' = [taken EXCEPT ![t] = NoHits]
    /\ flusher' = NoThread
    /\ Return(t)
    /\ UNCHANGED <<clock, rows, pending, pendingTotal, writes, calls, ghosts>>
FlushFail(t) ==
    /\ Swapped(t)
    /\ pending' = AddHits(pending, taken[t])
    /\ pendingTotal' = pendingTotal + SumHits(taken[t])
    /\ taken' = [taken EXCEPT ![t] = NoHits]
    /\ flusher' = NoThread
    /\ Return(t)
    /\ UNCHANGED <<clock, rows, writes, calls, ghosts>>

\* The retention transaction of cleanup and stats.
Retain(t) ==
    /\ pc[t] = "retain"
    /\ rows' \in Prune(rows, Cutoff(t))
    /\ lost' = AddHits(lost, Dropped(rows, rows'))
    /\ pruneFailed' = FALSE
    /\ Return(t)
    /\ UNCHANGED <<clock, pending, pendingTotal, writes, flusher, taken, calls, recorded>>

RetainRollback(t) ==
    /\ pc[t] = "retain"
    /\ Return(t)
    /\ UNCHANGED <<clock, store, calls, ghosts>>

-----------------------------------------------------------------------------
\* The process stops and a new CacheStore opens the file: what was in memory
\* is gone, and init applies retention.
Restart ==
    /\ calls < MaxCalls
    /\ calls' = calls + 1
    /\ rows' \in Prune(rows, clock - TTL)
    /\ lost' = [k \in Keys |-> lost[k] + pending[k] + Dropped(rows, rows')[k]
                               + SumHits([t \in Threads |-> taken[t][k]])]
    /\ pending' = NoHits /\ pendingTotal' = 0
    /\ writes' = 0
    /\ flusher' = NoThread
    /\ taken' = [t \in Threads |-> NoHits]
    /\ pc' = [t \in Threads |-> "idle"]
    /\ loc' = [t \in Threads |-> Idle]
    /\ pruneFailed' = FALSE
    /\ UNCHANGED <<clock, recorded>>

Tick ==
    /\ clock < MaxTime
    /\ clock' = clock + 1
    /\ UNCHANGED <<store, pc, loc, calls, ghosts>>

Finished ==
    /\ clock = MaxTime /\ calls = MaxCalls
    /\ \A t \in Threads : pc[t] = "idle"
    /\ UNCHANGED vars

Step(t) ==
    \/ \E ks \in SUBSET Keys \ {{}} : Put(t, ks)
    \/ PutCommit(t) \/ PutRollback(t)
    \/ \E k \in Keys : Get(t, k)
    \/ Select(t) \/ Evict(t) \/ EvictRollback(t)
    \/ QueueHit(t) \/ IgnoreRow(t)
    \/ \E days \in Retentions : Maintain(t, days)
    \/ Checkpoint(t)
    \/ FlushSwap(t) \/ FlushCommit(t) \/ FlushFail(t)
    \/ Retain(t) \/ RetainRollback(t)

Next == (\E t \in Threads : Step(t)) \/ Restart \/ Tick \/ Finished

Spec == Init /\ [][Next]_vars

-----------------------------------------------------------------------------
(* Properties                                                              *)

Labels == {"idle", "put", "select", "evict", "served", "flush", "flushFirst",
           "swapped", "swappedFirst", "retain"}

Local == [keys : SUBSET Keys, stamp : Nat, days : Retentions, seen : [Keys -> Nat]]

\* Every variable of the store and of the threads has its type, and no row is
\* stamped in the future.
TypeOK ==
    /\ clock \in 0 .. MaxTime
    /\ Present \subseteq Keys
    /\ \A k \in Present : rows[k] \in Row /\ rows[k].created <= clock
    /\ pending \in [Keys -> Nat]
    /\ pendingTotal \in Nat
    /\ writes \in Nat
    /\ taken \in [Threads -> [Keys -> Nat]]
    /\ pc \in [Threads -> Labels]
    /\ loc \in [Threads -> Local]
    /\ flusher \in Threads \cup {NoThread}
    /\ calls \in 0 .. MaxCalls
    /\ recorded \in [Keys -> Nat] /\ lost \in [Keys -> Nat]
    /\ pruneFailed \in BOOLEAN

\* flush_hits, _queue_hit: every hit that was queued is in the row, in the
\* counter, in the counter a flush holds, or was given up with its row or the
\* process.  None is counted twice, none disappears when a flush fails.
HitAccounting ==
    \A k \in Keys :
        recorded[k] = (IF k \in Present THEN rows[k].hits ELSE 0) + pending[k]
                      + SumHits([t \in Threads |-> taken[t][k]]) + lost[k]

\* _pending_hits_total is the size of the counter it stands for, through
\* swaps and failed flushes.
TotalMatchesCounter == pendingTotal = SumHits(pending)

\* cleanup, stats: when retention starts, every hit that was queued before
\* the call was made has left memory; what is unflushed came later.  It holds
\* although another thread's flush may have been under way, and have failed.
FlushBarrier ==
    \A t \in Threads : pc[t] = "retain" =>
        \A k \in Keys :
            pending[k] + SumHits([u \in Threads |-> taken[u][k]])
                <= recorded[k] - loc[t].seen[k]

\* put_many: between two prunes the table exceeds the cap by no more than the
\* writes the watermark counted, unless a due prune was rolled back.
CapPlusWatermark ==
    ~pruneFailed => /\ Cardinality(Present) <= MaxEntries + writes
                    /\ writes < PruneThreshold

\* get, cleanup, stats, init: a row disappears because it is older than a
\* retention period, because the cap had to be enforced, or because a write
\* that outlived the time to live replaced it with its own expired stamp.  A
\* row written again while a reader was about to delete the old one survives.
FreshRowsSurvive ==
    [][ \A k \in Present \ DOMAIN rows' :
          \/ \E days \in Retentions : rows[k].created < clock - days
          \/ Cardinality(DOMAIN rows') = MaxEntries
          \/ \E t \in Threads : /\ pc[t] = "put" /\ k \in loc[t].keys
                                /\ loc[t].stamp < clock - TTL ]_vars

\* docs/reference/configuration.md: "Mandatory row cap."
HardCap == Cardinality(Present) <= MaxEntries
=============================================================================
