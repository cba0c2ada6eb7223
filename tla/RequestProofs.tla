---------------------------- MODULE RequestProofs ----------------------------
(***************************************************************************)
(* Proofs about the two ends of a request: Admission, where the API lets   *)
(* it in, and ReaderClient, where the page makes it.  The two share the    *)
(* lemmas about lists.                                                     *)
(*                                                                         *)
(* Admission, for all threads, browsers, addresses, limits, lifetimes and  *)
(* delays:                                                                 *)
(* The counter of an address is exact because a request is under           *)
(* authentication from the step that counts it to the step that releases   *)
(* it.  A window holds because a bucket always vouches for the admissions  *)
(* that still matter, whatever was pruned (Vouched).  A decision is fresh  *)
(* because an entry expires in time and every reading of the clock is      *)
(* bounded by the delays (Clocks, Tables).                                 *)
(*                                                                         *)
(* ReaderClient, for all chapters, pages, languages, limits and answers:   *)
(* A handler is a chain of functions on the record client.  Each keeps     *)
(* Good: an item of the present generation is in the present language, and *)
(* so is the body of its request (Fits, Posted), which makes the stale-    *)
(* response guard enough for the texts.  What a function carries within a  *)
(* generation (Carries) and what newGeneration does (GenerationRenewed)    *)
(* give what a whole step does (Moves).                                    *)
(***************************************************************************)
EXTENDS Admission, ReaderClient, FiniteSetTheorems, SequenceTheorems, TLAPS

-----------------------------------------------------------------------------
(* Lists.                                                                   *)

LEMMA Matching ==
    ASSUME NEW S, NEW T, NEW f \in [S -> T]
    PROVE  /\ (\A a, b \in S : f[a] = f[b] => a = b) <=> f \in Injection(S, T)
           /\ (\A t \in T : \E a \in S : f[a] = t) <=> f \in Surjection(S, T)
BY DEF Injection, IsInjective, Surjection

Rank(keep, p) == Cardinality({q \in keep : q < p})

\* The positions of a finite set of numbers are counted off one by one.
LEMMA Ranks ==
    ASSUME NEW n \in Nat, NEW keep \in SUBSET (1 .. n)
    PROVE  /\ IsFiniteSet(keep) /\ Cardinality(keep) \in Nat
           /\ \A p \in keep : Rank(keep, p) \in 0 .. Cardinality(keep) - 1
           /\ \A p, q \in keep : Rank(keep, p) = Rank(keep, q) => p = q
           /\ \A i \in 0 .. Cardinality(keep) - 1 : \E p \in keep : Rank(keep, p) = i
<1>0. IsFiniteSet(1 .. n)
  <2>1. 1 \in Int /\ n \in Int
    OBVIOUS
  <2> QED
    BY <2>1, FS_Interval
<1>1. IsFiniteSet(keep) /\ Cardinality(keep) \in Nat /\ \A p \in keep : p \in Int
  <2>1. IsFiniteSet(keep)
    BY <1>0, FS_Subset
  <2>2. Cardinality(keep) \in Nat
    BY <2>1, FS_CardinalityType
  <2>3. \A p \in keep : p \in Int
    OBVIOUS
  <2> QED
    BY <2>1, <2>2, <2>3
<1>2. ASSUME NEW p \in keep
      PROVE  /\ IsFiniteSet({q \in keep : q < p}) /\ Rank(keep, p) \in Nat
             /\ Rank(keep, p) < Cardinality(keep)
  <2>1. {q \in keep : q < p} \in SUBSET (keep \ {p})
    OBVIOUS
  <2>2. IsFiniteSet(keep \ {p}) /\ Cardinality(keep \ {p}) = Cardinality(keep) - 1
    BY <1>1, FS_RemoveElement
  <2>3. /\ IsFiniteSet({q \in keep : q < p})
        /\ Cardinality({q \in keep : q < p}) <= Cardinality(keep) - 1
    BY <2>1, <2>2, FS_Subset
  <2>4. Cardinality({q \in keep : q < p}) \in Nat
    BY <2>3, FS_CardinalityType
  <2> QED
    BY <1>1, <2>3, <2>4 DEF Rank
<1>3. ASSUME NEW p \in keep, NEW q \in keep, p < q
      PROVE  Rank(keep, p) < Rank(keep, q)
  <2>1. {r \in keep : r < p} \cup {p} \in SUBSET {r \in keep : r < q}
    <3>1. p \in Int /\ q \in Int /\ \A r \in keep : r \in Int
      BY <1>1
    <3>2. \A r \in keep : r < p => r < q
      BY <1>3, <3>1
    <3> QED
      BY <1>3, <3>2
  <2>2. /\ IsFiniteSet({r \in keep : r < p} \cup {p})
        /\ Cardinality({r \in keep : r < p} \cup {p}) = Cardinality({r \in keep : r < p}) + 1
    <3>1. p \notin {r \in keep : r < p} /\ IsFiniteSet({r \in keep : r < p})
      BY <1>1, <1>2
    <3> QED
      BY <3>1, FS_AddElement
  <2>3. Cardinality({r \in keep : r < p} \cup {p}) <= Cardinality({r \in keep : r < q})
    <3>1. IsFiniteSet({r \in keep : r < q})
      BY <1>2
    <3> QED
      BY <2>1, <3>1, FS_Subset
  <2>4. /\ Cardinality({r \in keep : r < p}) \in Nat /\ Cardinality({r \in keep : r < q}) \in Nat
        /\ Rank(keep, p) = Cardinality({r \in keep : r < p})
        /\ Rank(keep, q) = Cardinality({r \in keep : r < q})
    BY <1>2 DEF Rank
  <2> QED
    BY <2>2, <2>3, <2>4
<1>4. \A p, q \in keep : Rank(keep, p) = Rank(keep, q) => p = q
  <2> SUFFICES ASSUME NEW p \in keep, NEW q \in keep, Rank(keep, p) = Rank(keep, q), p # q
               PROVE  FALSE
    OBVIOUS
  <2>1. p < q \/ q < p
    BY <1>1
  <2>2. Rank(keep, p) \in Nat /\ Rank(keep, q) \in Nat
    BY <1>2
  <2> QED
    BY <1>3, <2>1, <2>2
<1>5. \A p \in keep : Rank(keep, p) \in 0 .. Cardinality(keep) - 1
  <2> SUFFICES ASSUME NEW p \in keep PROVE Rank(keep, p) \in 0 .. Cardinality(keep) - 1
    OBVIOUS
  <2>1. Rank(keep, p) \in Nat /\ Rank(keep, p) < Cardinality(keep) /\ Cardinality(keep) \in Nat
    BY <1>1, <1>2
  <2> QED
    BY <2>1
<1> DEFINE f == [p \in keep |-> Rank(keep, p)]
           T == 0 .. Cardinality(keep) - 1
<1>6. f \in Injection(keep, T)
  <2>1. f \in [keep -> T]
    BY <1>5
  <2>2. \A p, q \in keep : f[p] = f[q] => p = q
    BY <1>4
  <2> HIDE DEF f, T
  <2> QED
    BY <2>1, <2>2, Matching
<1>7. IsFiniteSet(T) /\ Cardinality(T) = Cardinality(keep)
  <2>1. /\ IsFiniteSet(T)
        /\ Cardinality(T) = IF 0 > Cardinality(keep) - 1 THEN 0 ELSE (Cardinality(keep) - 1) - 0 + 1
    BY <1>1, FS_Interval
  <2> QED
    BY <1>1, <2>1
<1>8. f \in Surjection(keep, T)
  <2> HIDE DEF f, T
  <2> QED
    BY <1>6, <1>7, FS_Injection
<1>9. \A i \in T : \E p \in keep : Rank(keep, p) = i
  BY <1>8 DEF Surjection
<1> QED
  BY <1>1, <1>4, <1>5, <1>9

\* Picked takes the elements at the positions of keep, each once.
LEMMA PickedFrom ==
    ASSUME NEW S, NEW list \in Seq(S), NEW keep \in SUBSET DOMAIN list
    PROVE  /\ Cardinality(keep) \in Nat
           /\ \E f \in [1 .. Cardinality(keep) -> keep] :
                /\ \A i, j \in 1 .. Cardinality(keep) : f[i] = f[j] => i = j
                /\ \A p \in keep : \E i \in 1 .. Cardinality(keep) : f[i] = p
                /\ Picked(list, keep) = [i \in 1 .. Cardinality(keep) |-> list[f[i]]]
<1> DEFINE n == Cardinality(keep)
           f == [i \in 1 .. n |-> CHOOSE p \in keep : Rank(keep, p) = i - 1]
<1>1. Len(list) \in Nat /\ keep \in SUBSET (1 .. Len(list))
  OBVIOUS
<1>2. /\ IsFiniteSet(keep) /\ n \in Nat
      /\ \A p \in keep : Rank(keep, p) \in 0 .. n - 1
      /\ \A p, q \in keep : Rank(keep, p) = Rank(keep, q) => p = q
      /\ \A i \in 0 .. n - 1 : \E p \in keep : Rank(keep, p) = i
  BY <1>1, Ranks
<1>3. ASSUME NEW i \in 1 .. n
      PROVE  f[i] \in keep /\ Rank(keep, f[i]) = i - 1
  <2>1. i - 1 \in 0 .. n - 1
    BY <1>2
  <2>2. \E p \in keep : Rank(keep, p) = i - 1
    BY <1>2, <2>1
  <2> QED
    BY <2>2
<1>4. f \in [1 .. n -> keep] /\ \A i, j \in 1 .. n : f[i] = f[j] => i = j
  <2>1. f \in [1 .. n -> keep]
    BY <1>3
  <2>2. \A i, j \in 1 .. n : f[i] = f[j] => i = j
    <3> SUFFICES ASSUME NEW i \in 1 .. n, NEW j \in 1 .. n, f[i] = f[j] PROVE i = j
      OBVIOUS
    <3>1. i - 1 = j - 1
      <4> HIDE DEF f
      <4> QED
        BY <1>3
    <3> QED
      BY <1>2, <3>1
  <2> QED
    BY <2>1, <2>2
<1>5. \A p \in keep : \E i \in 1 .. n : f[i] = p
  <2>1. ASSUME NEW p \in keep PROVE \E i \in 1 .. n : f[i] = p
    <3>1. Rank(keep, p) + 1 \in 1 .. n
      BY <1>2
    <3>2. Rank(keep, f[Rank(keep, p) + 1]) = Rank(keep, p) /\ f[Rank(keep, p) + 1] \in keep
      <4>1. Rank(keep, f[Rank(keep, p) + 1]) = (Rank(keep, p) + 1) - 1 /\ f[Rank(keep, p) + 1] \in keep
        <5> HIDE DEF f
        <5> QED
          BY <1>3, <3>1
      <4>2. (Rank(keep, p) + 1) - 1 = Rank(keep, p)
        BY <1>2
      <4> QED
        BY <4>1, <4>2
    <3>3. f[Rank(keep, p) + 1] = p
      BY <1>2, <3>2
    <3> QED
      BY <3>1, <3>3
  <2> QED
    BY <2>1
<1>7. Picked(list, keep) = [i \in 1 .. n |-> list[f[i]]]
  BY DEF Picked, Rank
<1> QED
  BY <1>2, <1>4, <1>5, <1>7

LEMMA PickedIsSeq ==
    ASSUME NEW S, NEW list \in Seq(S), NEW keep \in SUBSET DOMAIN list
    PROVE  /\ Picked(list, keep) \in Seq(S) /\ Len(Picked(list, keep)) = Cardinality(keep)
           /\ DOMAIN Picked(list, keep) = 1 .. Cardinality(keep)
           /\ \A i \in DOMAIN Picked(list, keep) : \E p \in keep : Picked(list, keep)[i] = list[p]
<1>1. Cardinality(keep) \in Nat
  BY PickedFrom
<1>2. PICK f \in [1 .. Cardinality(keep) -> keep] :
        Picked(list, keep) = [i \in 1 .. Cardinality(keep) |-> list[f[i]]]
  BY PickedFrom
<1>4. \A p \in keep : list[p] \in S
  OBVIOUS
<1>5. [i \in 1 .. Cardinality(keep) |-> list[f[i]]] \in Seq(S)
  BY <1>1, <1>4
<1> QED
  BY <1>1, <1>2, <1>5

\* The elements that satisfy a condition are as many in the list picked as
\* among the positions it was picked from.
AsMany(list, keep) ==
    \A good : Cardinality({i \in DOMAIN Picked(list, keep) : Picked(list, keep)[i] \in good})
                = Cardinality({p \in keep : list[p] \in good})

LEMMA PickedCounts ==
    ASSUME NEW S, NEW list \in Seq(S), NEW keep \in SUBSET DOMAIN list
    PROVE  AsMany(list, keep)
<1> SUFFICES ASSUME NEW good
             PROVE  Cardinality({i \in DOMAIN Picked(list, keep) : Picked(list, keep)[i] \in good})
                      = Cardinality({p \in keep : list[p] \in good})
  BY DEF AsMany
<1> DEFINE n == Cardinality(keep)
           A == {i \in 1 .. n : Picked(list, keep)[i] \in good}
           B == {p \in keep : list[p] \in good}
<1>1. n \in Nat /\ DOMAIN Picked(list, keep) = 1 .. n
  BY PickedFrom, PickedIsSeq
<1>2. PICK f \in [1 .. n -> keep] : /\ \A a, b \in 1 .. n : f[a] = f[b] => a = b
                                   /\ \A p \in keep : \E i \in 1 .. n : f[i] = p
                                   /\ Picked(list, keep) = [j \in 1 .. n |-> list[f[j]]]
  BY PickedFrom
<1>3. \A i \in 1 .. n : Picked(list, keep)[i] = list[f[i]] /\ f[i] \in keep
  BY <1>2
<1>4. \A i \in 1 .. n : i \in A <=> f[i] \in B
  BY <1>3
<1> DEFINE g == [i \in A |-> f[i]]
<1>5. g \in Bijection(A, B)
  <2>1. g \in [A -> B]
    BY <1>4
  <2>2. \A i, j \in A : g[i] = g[j] => i = j
    BY <1>2
  <2>3. ASSUME NEW p \in B PROVE \E i \in A : g[i] = p
    <3>1. PICK i \in 1 .. n : f[i] = p
      BY <1>2
    <3> QED
      BY <1>4, <3>1
  <2> HIDE DEF g, A, B
  <2> QED
    BY <2>1, <2>2, <2>3, Matching DEF Bijection
<1>6. IsFiniteSet(A)
  <2>1. 1 \in Int /\ n \in Int
    BY <1>1
  <2>2. IsFiniteSet(1 .. n)
    BY <2>1, FS_Interval
  <2> QED
    BY <2>2, FS_Subset
<1>7. Cardinality(B) = Cardinality(A)
  <2> HIDE DEF g, A, B
  <2> QED
    BY <1>5, <1>6, FS_Bijection DEF ExistsBijection
<1> QED
  BY <1>1, <1>7
-----------------------------------------------------------------------------
(* The invariant.                                                           *)

\* The clock a thread has read is late by no more than its patience.
Clocks == \A t \in Threads : ~At(t, "idle") =>
    th[t].now = th[t].since /\ th[t].since <= clock /\ clock <= th[t].since + Patience(t)

\* What the reader said is as old as the last reading of the clock.
Answered == \A t \in Threads :
    /\ At(t, "mint") => th[t].asked = th[t].since
    /\ At(t, "put") => th[t].asked = th[t].since /\ th[t].valid \in BOOLEAN

\* No entry outlives the answer it stands for.
FreshEntry == {e \in Entry : e.expires <= e.asked + TTL}
FreshVerdict == {e \in Verdict : e.expires <= e.asked + TTL + Stall}
Tables == sessions \in Seq(FreshEntry) /\ decisions \in Seq(FreshVerdict)

\* Admissions are told apart.
Stamped == \A s \in Stores, k \in Keys :
    /\ IsFiniteSet(admitted[s][k]) /\ admitted[s][k] \subseteq (0 .. clock) \X Nat
    /\ \A e \in admitted[s][k] : e[2] < Cardinality({x \in admitted[s][k] : x[1] = e[1]})

\* A bucket has an entry for every admission that may still count.
Bucket(store, k) == IF k \in DOMAIN store THEN store[k] ELSE << >>
Since(list, c) == Cardinality({i \in DOMAIN list : list[i] \in {x \in Nat : x + Stall >= c}})
Counts(c) == c \in Nat /\ c + Window > clock + Stall
Vouched == \A s \in Stores, k \in Keys, c \in Nat : Counts(c) =>
    Cardinality({x \in admitted[s][k] : x[1] >= c}) <= Since(Bucket(window[s], k), c)

WindowTypes ==
    /\ DOMAIN window = Stores /\ \A s \in Stores : DOMAIN window[s] \subseteq Keys
    /\ \A s \in Stores : \A k \in DOMAIN window[s] : window[s][k] \in Seq(Nat)
AdmittedTypes == admitted \in [Stores -> [Keys -> SUBSET (Nat \X Nat)]]
Windows == WindowTypes /\ AdmittedTypes /\ Stamped /\ Vouched /\ WindowRespected

\* The counter of an address, and the requests it counts.
Counter == /\ DOMAIN inflight \subseteq Addrs /\ \A a \in DOMAIN inflight : inflight[a] \in Nat \ {0}
           /\ InflightExact

Named == \A t \in Threads : ~At(t, "idle") => th[t].browser \in Browsers /\ th[t].addr \in Addrs
Threaded == th \in [Threads -> Request] /\ Named /\ Clocks /\ Answered

Base == /\ mode \in {"reader_session", "cwa_session"}
        /\ clock \in 0 .. MaxTime /\ requests \in 0 .. MaxRequests /\ lastToken \in Nat
        /\ flights \subseteq Browsers \X Addrs /\ login \subseteq Browsers
        /\ jar \in [Browsers -> Nat]

IInv == Base /\ Threaded /\ Counter /\ Tables /\ Windows

LEMMA Constants ==
    /\ AuthLimit \in Nat \ {0} /\ ApiLimit \in Nat \ {0} /\ Window \in Nat \ {0}
    /\ MaxClients \in Nat \ {0} /\ MaxInflight \in Nat \ {0} /\ TTL \in Nat \ {0}
    /\ MaxEntries \in Nat \ {0} /\ MaxFlights \in Nat \ {0} /\ Timeout \in Nat \ {0}
    /\ Stall \in Nat /\ Stall < Window /\ MaxRequests \in Nat /\ MaxTime \in Nat
    /\ \A s \in Stores : Limit(s) \in Nat
BY LimitsAssumption, BoundsAssumption DEF Limit, Stores

-----------------------------------------------------------------------------
(* The windows.                                                             *)

\* Dropping the times that have left the window loses nothing that counts.
LEMMA LiveCounts ==
    ASSUME NEW list \in Seq(Nat), NEW n \in Nat, clock \in Nat, n <= clock
    PROVE  /\ Live(list, n) \in Seq(Nat) /\ Len(Live(list, n)) \in Nat
           /\ \A c : Counts(c) => Since(Live(list, n), c) = Since(list, c)
           /\ \A c : Since(list, c) \in Nat /\ Since(list, c) <= Len(list)
<1> DEFINE keep == {i \in DOMAIN list : list[i] + Window > n}
<1>1. keep \in SUBSET DOMAIN list /\ Live(list, n) = Picked(list, keep)
  BY DEF Live
<1>2. Live(list, n) \in Seq(Nat) /\ Len(Live(list, n)) \in Nat
  BY <1>1, PickedIsSeq
<1>3. ASSUME NEW c, Counts(c) PROVE Since(Live(list, n), c) = Since(list, c)
  <2> DEFINE good == {x \in Nat : x + Stall >= c}
  <2>1. Cardinality({i \in DOMAIN Picked(list, keep) : Picked(list, keep)[i] \in good})
          = Cardinality({p \in keep : list[p] \in good})
    <3> HIDE DEF keep, good
    <3>1. AsMany(list, keep)
      BY <1>1, PickedCounts
    <3> QED
      BY <3>1 DEF AsMany
  <2>2. \A p \in DOMAIN list : list[p] \in good => p \in keep
    BY <1>3, Constants DEF Counts
  <2>3. {p \in keep : list[p] \in good} = {p \in DOMAIN list : list[p] \in good}
    BY <2>2
  <2> QED
    BY <1>1, <2>1, <2>3 DEF Since
<1>4. ASSUME NEW c PROVE Since(list, c) \in Nat /\ Since(list, c) <= Len(list)
  <2>1. Len(list) \in Nat /\ DOMAIN list = 1 .. Len(list)
    OBVIOUS
  <2>2. 1 \in Int /\ Len(list) \in Int
    BY <2>1
  <2>3. IsFiniteSet(1 .. Len(list)) /\ Cardinality(1 .. Len(list)) = Len(list)
    <3>1. /\ IsFiniteSet(1 .. Len(list))
          /\ Cardinality(1 .. Len(list)) = IF 1 > Len(list) THEN 0 ELSE Len(list) - 1 + 1
      BY <2>2, FS_Interval
    <3> QED
      BY <2>1, <3>1
  <2> DEFINE mine == {i \in DOMAIN list : list[i] \in {x \in Nat : x + Stall >= c}}
  <2>4. mine \in SUBSET (1 .. Len(list))
    BY <2>1
  <2>5. IsFiniteSet(mine) /\ Cardinality(mine) <= Cardinality(1 .. Len(list))
    <3> HIDE DEF mine
    <3> QED
      BY <2>3, <2>4, FS_Subset
  <2>6. Cardinality(mine) \in Nat
    <3> HIDE DEF mine
    <3> QED
      BY <2>5, FS_CardinalityType
  <2> QED
    BY <2>3, <2>5, <2>6 DEF Since
<1> QED
  BY <1>2, <1>3, <1>4

\* An entry more is counted.
LEMMA AppendCounts ==
    ASSUME NEW list \in Seq(Nat), NEW n \in Nat, NEW c
    PROVE  /\ Append(list, n) \in Seq(Nat) /\ Len(Append(list, n)) = Len(list) + 1
           /\ Since(Append(list, n), c) =
                IF n \in {x \in Nat : x + Stall >= c} THEN Since(list, c) + 1 ELSE Since(list, c)
<1> DEFINE good == {x \in Nat : x + Stall >= c}
           m == Len(list) + 1
           A == {i \in DOMAIN list : list[i] \in good}
           B == {i \in DOMAIN Append(list, n) : Append(list, n)[i] \in good}
<1>1. /\ Append(list, n) \in Seq(Nat) /\ Len(Append(list, n)) = m /\ m \in Nat
      /\ DOMAIN Append(list, n) = 1 .. m /\ DOMAIN list = 1 .. Len(list) /\ Len(list) \in Nat
      /\ \A i \in 1 .. Len(list) : Append(list, n)[i] = list[i]
      /\ Append(list, n)[m] = n
  OBVIOUS
<1>2. 1 .. m = (1 .. Len(list)) \cup {m} /\ m \notin 1 .. Len(list)
  BY <1>1
<1>3. B = IF n \in good THEN A \cup {m} ELSE A
  <2> HIDE DEF good, m
  <2> QED
    BY <1>1, <1>2
<1>4. IsFiniteSet(A) /\ m \notin A
  <2>1. 1 \in Int /\ Len(list) \in Int
    BY <1>1
  <2>2. IsFiniteSet(1 .. Len(list))
    BY <2>1, FS_Interval
  <2>3. A \in SUBSET (1 .. Len(list))
    BY <1>1
  <2> QED
    BY <1>2, <2>2, <2>3, FS_Subset
<1>5. Cardinality(A \cup {m}) = Cardinality(A) + 1
  BY <1>4, FS_AddElement
<1> QED
  BY <1>1, <1>3, <1>5 DEF Since

LEMMA NoneCount ==
    ASSUME NEW c PROVE Since(<< >>, c) = 0
<1>1. {i \in DOMAIN << >> : << >>[i] \in {x \in Nat : x + Stall >= c}} = {}
  OBVIOUS
<1> QED
  BY <1>1, FS_EmptySet DEF Since

\* What _check_window_rate_limit leaves in the store.
LEMMA CheckedFacts ==
    ASSUME NEW store, NEW k, NEW n, NEW limit
    PROVE  LET c == Checked(store, k, n, limit)
               mine == Live(Bucket(store, k), n)
           IN  /\ c.ok \in BOOLEAN
               /\ DOMAIN c.store \subseteq DOMAIN store \cup {k}
               /\ \A x \in DOMAIN c.store \ {k} : x \in DOMAIN store /\ c.store[x] = store[x]
               /\ \A x \in DOMAIN store \ {k} : x \in DOMAIN c.store \/ Live(store[x], n) = << >>
               /\ c.ok => k \in DOMAIN c.store /\ c.store[k] = Append(mine, n) /\ ~(Len(mine) >= limit)
               /\ ~c.ok => IF k \in DOMAIN c.store THEN c.store[k] = mine ELSE k \notin DOMAIN store
<1> DEFINE room == k \in DOMAIN store \/ Cardinality(DOMAIN store) < MaxClients
           base == IF room THEN store ELSE Reclaimed(store, n)
           full == k \notin DOMAIN base /\ Cardinality(DOMAIN base) >= MaxClients
           mine == Live(Bucket(base, k), n)
           put(times) == [x \in DOMAIN base \cup {k} |-> IF x = k THEN times ELSE base[x]]
           c == Checked(store, k, n, limit)
<1>1. c = CASE full                        -> [store |-> base, ok |-> FALSE]
            [] ~full /\ Len(mine) >= limit -> [store |-> put(mine), ok |-> FALSE]
            [] OTHER                       -> [store |-> put(Append(mine, n)), ok |-> TRUE]
  BY DEF Checked, Bucket
<1>2. /\ \A x \in DOMAIN base : x \in DOMAIN store /\ base[x] = store[x]
      /\ \A x \in DOMAIN store : x \in DOMAIN base \/ Live(store[x], n) = << >>
      /\ k \in DOMAIN base <=> k \in DOMAIN store
  BY DEF Reclaimed
<1>3. Bucket(base, k) = Bucket(store, k)
  BY <1>2 DEF Bucket
<1> HIDE DEF base
<1>4. CASE full
  <2>1. c = [store |-> base, ok |-> FALSE]
    BY <1>1, <1>4
  <2> QED
    BY <1>2, <1>4, <2>1
<1>5. CASE ~full /\ Len(mine) >= limit
  <2>1. c = [store |-> put(mine), ok |-> FALSE]
    BY <1>1, <1>5
  <2>2. c.store = put(mine) /\ c.ok = FALSE
    BY <2>1
  <2> QED
    BY <1>2, <1>3, <2>2
<1>6. CASE ~full /\ ~(Len(mine) >= limit)
  <2>1. c = [store |-> put(Append(mine, n)), ok |-> TRUE]
    BY <1>1, <1>6
  <2>2. c.store = put(Append(mine, n)) /\ c.ok = TRUE
    BY <2>1
  <2> QED
    BY <1>2, <1>3, <1>6, <2>2
<1> QED
  BY <1>4, <1>5, <1>6

\* Tables and histories that nobody touches stay right.
LEMMA WindowsStay ==
    ASSUME Windows, UNCHANGED <<window, admitted, clock>>
    PROVE  Windows'
<1>1. WindowTypes'
  BY DEF Windows, WindowTypes
<1>2. AdmittedTypes'
  BY DEF Windows, AdmittedTypes
<1>3. Stamped'
  BY DEF Windows, Stamped
<1>4. Vouched'
  <2>1. \A c : Counts(c)' <=> Counts(c)
    BY DEF Counts
  <2> QED
    BY <2>1, Zenon DEF Windows, Vouched
<1>5. WindowRespected'
  BY Zenon DEF Windows, WindowRespected
<1> QED
  BY <1>1, <1>2, <1>3, <1>4, <1>5 DEF Windows

\* One check of a client, whose reading of the clock is late by at most Stall.
Checks(s, k, n) ==
    LET c == Checked(window[s], k, n, Limit(s))
    IN  /\ window' = [window EXCEPT ![s] = c.store]
        /\ IF c.ok THEN admitted' = [admitted EXCEPT ![s][k] = @ \cup {Stamp(@)}]
                   ELSE UNCHANGED admitted
        /\ UNCHANGED clock

\* What a check does to every bucket that counts.
LEMMA BucketsKept ==
    ASSUME Windows, NEW s \in Stores, NEW k \in Keys, NEW n \in Nat, clock \in Nat,
           n <= clock, Checks(s, k, n)
    PROVE  LET c == Checked(window[s], k, n, Limit(s))
               mine == Live(Bucket(window[s], k), n)
           IN  /\ WindowTypes'
               /\ \A s2 \in Stores, k2 \in Keys : \A e :
                     Counts(e) /\ (s2 # s \/ k2 # k \/ ~c.ok) =>
                         Since(Bucket(window'[s2], k2), e) = Since(Bucket(window[s2], k2), e)
               /\ c.ok => /\ Bucket(window'[s], k) = Append(mine, n)
                          /\ mine \in Seq(Nat) /\ Len(mine) < Limit(s)
<1> DEFINE store == window[s]
           c == Checked(store, k, n, Limit(s))
           mine == Live(Bucket(store, k), n)
<1>1. /\ DOMAIN window = Stores /\ DOMAIN store \subseteq Keys
      /\ \A x \in DOMAIN store : store[x] \in Seq(Nat)
      /\ window' = [window EXCEPT ![s] = c.store]
  BY DEF Windows, WindowTypes, Checks
<1>2. window'[s] = c.store /\ \A s2 \in Stores \ {s} : window'[s2] = window[s2]
  BY <1>1
<1>3. \A x \in Keys : Bucket(store, x) \in Seq(Nat)
  BY <1>1 DEF Bucket
<1>4. /\ mine \in Seq(Nat) /\ Len(mine) \in Nat
      /\ \A e : Counts(e) => Since(mine, e) = Since(Bucket(store, k), e)
  BY <1>3, LiveCounts
<1>5. /\ c.ok \in BOOLEAN
      /\ DOMAIN c.store \subseteq DOMAIN store \cup {k}
      /\ \A x \in DOMAIN c.store \ {k} : x \in DOMAIN store /\ c.store[x] = store[x]
      /\ \A x \in DOMAIN store \ {k} : x \in DOMAIN c.store \/ Live(store[x], n) = << >>
      /\ c.ok => k \in DOMAIN c.store /\ c.store[k] = Append(mine, n) /\ ~(Len(mine) >= Limit(s))
      /\ ~c.ok => IF k \in DOMAIN c.store THEN c.store[k] = mine ELSE k \notin DOMAIN store
  BY CheckedFacts
<1>6. Append(mine, n) \in Seq(Nat)
  BY <1>4, AppendCounts
<1> HIDE DEF c, mine, store
<1>7. WindowTypes'
  <2>1. DOMAIN window' = Stores
    BY <1>1
  <2>2. DOMAIN c.store \subseteq Keys
    BY <1>1, <1>5
  <2>3. \A x \in DOMAIN c.store : c.store[x] \in Seq(Nat)
    <3>1. k \in DOMAIN c.store => c.store[k] \in Seq(Nat)
      BY <1>4, <1>5, <1>6
    <3>2. \A x \in DOMAIN c.store \ {k} : c.store[x] \in Seq(Nat)
      BY <1>1, <1>5
    <3> QED
      BY <3>1, <3>2
  <2>4. \A s2 \in Stores : DOMAIN window'[s2] \subseteq Keys
    <3>1. \A s2 \in Stores : DOMAIN window[s2] \subseteq Keys
      BY DEF Windows, WindowTypes
    <3> QED
      BY <1>2, <2>2, <3>1
  <2>5. \A s2 \in Stores : \A x \in DOMAIN window'[s2] : window'[s2][x] \in Seq(Nat)
    <3>1. \A s2 \in Stores : \A x \in DOMAIN window[s2] : window[s2][x] \in Seq(Nat)
      BY DEF Windows, WindowTypes
    <3> QED
      BY <1>2, <2>3, <3>1
  <2> QED
    BY <2>1, <2>4, <2>5 DEF WindowTypes
<1>8. ASSUME NEW s2 \in Stores, NEW k2 \in Keys, NEW e, Counts(e), s2 # s \/ k2 # k \/ ~c.ok
      PROVE  Since(Bucket(window'[s2], k2), e) = Since(Bucket(window[s2], k2), e)
  <2>1. CASE s2 # s
    BY <1>2, <2>1
  <2>2. CASE s2 = s /\ k2 # k
    <3>1. CASE k2 \in DOMAIN c.store
      BY <1>2, <1>5, <2>2, <3>1 DEF Bucket, store
    <3>2. CASE k2 \notin DOMAIN c.store /\ k2 \in DOMAIN store
      <4>1. Live(store[k2], n) = << >> /\ store[k2] \in Seq(Nat)
        BY <1>1, <1>5, <2>2, <3>2
      <4>2. Since(Live(store[k2], n), e) = Since(store[k2], e)
        BY <1>8, <4>1, LiveCounts
      <4>3. Bucket(window'[s2], k2) = << >> /\ Bucket(window[s2], k2) = store[k2]
        BY <1>2, <2>2, <3>2 DEF Bucket, store
      <4> QED
        BY <4>1, <4>2, <4>3
    <3>3. CASE k2 \notin DOMAIN c.store /\ k2 \notin DOMAIN store
      BY <1>2, <2>2, <3>3 DEF Bucket, store
    <3> QED
      BY <3>1, <3>2, <3>3
  <2>3. CASE s2 = s /\ k2 = k /\ ~c.ok
    <3>1. CASE k \in DOMAIN c.store
      <4>1. Bucket(window'[s], k) = mine
        BY <1>2, <1>5, <2>3, <3>1 DEF Bucket
      <4> QED
        BY <1>4, <1>8, <2>3, <4>1 DEF store
    <3>2. CASE k \notin DOMAIN c.store
      BY <1>2, <1>5, <2>3, <3>2 DEF Bucket, store
    <3> QED
      BY <3>1, <3>2
  <2> QED
    BY <1>8, <2>1, <2>2, <2>3
<1>9. c.ok => /\ Bucket(window'[s], k) = Append(mine, n)
              /\ mine \in Seq(Nat) /\ Len(mine) < Limit(s)
  <2>1. Limit(s) \in Nat
    BY Constants
  <2> QED
    BY <1>2, <1>4, <1>5, <2>1 DEF Bucket
<1> QED
  BY <1>7, <1>8, <1>9 DEF c, mine, store

\* An admission more: who is told apart, and how many count from c on.
LEMMA StampFacts ==
    ASSUME Windows, NEW s \in Stores, NEW k \in Keys, clock \in Nat
    PROVE  LET A == admitted[s][k]
               z == Stamp(A)
           IN  /\ IsFiniteSet(A) /\ A \subseteq (0 .. clock) \X Nat
               /\ z \in (0 .. clock) \X Nat /\ z[1] = clock /\ z \notin A
               /\ z[2] = Cardinality({x \in A : x[1] = clock}) /\ z[2] \in Nat
<1> DEFINE A == admitted[s][k]
           now == {x \in A : x[1] = clock}
           z == Stamp(A)
<1>1. /\ IsFiniteSet(A) /\ A \subseteq (0 .. clock) \X Nat
      /\ \A e \in A : e[2] < Cardinality({x \in A : x[1] = e[1]})
  BY DEF Windows, Stamped
<1>2. Cardinality(now) \in Nat
  <2>1. IsFiniteSet(now)
    BY <1>1, FS_Subset
  <2> QED
    BY <2>1, FS_CardinalityType
<1>3. z = <<clock, Cardinality(now)>>
  BY DEF Stamp
<1>4. z \in (0 .. clock) \X Nat /\ z[1] = clock /\ z[2] = Cardinality(now)
  BY <1>2, <1>3
<1>5. z \notin A
  <2>1. z \in A => z[2] < Cardinality({x \in A : x[1] = z[1]})
    BY <1>1
  <2>2. z \in A => z[2] < Cardinality(now)
    BY <1>4, <2>1
  <2> QED
    BY <1>2, <1>4, <2>2
<1> QED
  BY <1>1, <1>2, <1>4, <1>5
\* A bucket lets nobody in beyond the limit, whoever pruned it before.
LEMMA ChecksKeepWindows ==
    ASSUME Windows, NEW s \in Stores, NEW k \in Keys, NEW n \in Nat, clock \in Nat,
           n <= clock, clock <= n + Stall, Checks(s, k, n)
    PROVE  Windows'
<1> DEFINE c == Checked(window[s], k, n, Limit(s))
           mine == Live(Bucket(window[s], k), n)
           A == admitted[s][k]
           z == Stamp(A)
<1>1. /\ WindowTypes'
      /\ \A s2 \in Stores, k2 \in Keys : \A e :
           Counts(e) /\ (s2 # s \/ k2 # k \/ ~c.ok) =>
               Since(Bucket(window'[s2], k2), e) = Since(Bucket(window[s2], k2), e)
      /\ c.ok => /\ Bucket(window'[s], k) = Append(mine, n)
                 /\ mine \in Seq(Nat) /\ Len(mine) < Limit(s)
  BY BucketsKept
<1>2. clock' = clock /\ IF c.ok THEN admitted' = [admitted EXCEPT ![s][k] = A \cup {z}]
                               ELSE admitted' = admitted
  BY DEF Checks
<1>3. /\ IsFiniteSet(A) /\ A \subseteq (0 .. clock) \X Nat
      /\ z \in (0 .. clock) \X Nat /\ z[1] = clock /\ z \notin A
      /\ z[2] = Cardinality({x \in A : x[1] = clock}) /\ z[2] \in Nat
  BY StampFacts
<1>4. /\ AdmittedTypes /\ Stamped /\ Vouched /\ WindowRespected
  BY DEF Windows
<1> HIDE DEF c, mine, A, z
<1>5. CASE ~c.ok
  <2>1. admitted' = admitted
    BY <1>2, <1>5
  <2>2. AdmittedTypes' /\ Stamped' /\ WindowRespected'
    BY <1>2, <1>4, <2>1 DEF AdmittedTypes, Stamped, WindowRespected
  <2>3. \A e : Counts(e)' <=> Counts(e)
    BY <1>2 DEF Counts
  <2>4. Vouched'
    BY <1>1, <1>4, <1>5, <2>1, <2>3 DEF Vouched
  <2> QED
    BY <1>1, <2>2, <2>4 DEF Windows
<1>6. CASE c.ok
  <2> DEFINE B == A \cup {z}
  <2>1. /\ admitted'[s][k] = B
        /\ \A s2 \in Stores, k2 \in Keys : s2 # s \/ k2 # k => admitted'[s2][k2] = admitted[s2][k2]
        /\ DOMAIN admitted' = Stores /\ \A s2 \in Stores : DOMAIN admitted'[s2] = Keys
    BY <1>2, <1>4, <1>6 DEF AdmittedTypes
  <2>2. AdmittedTypes'
    <3>1. B \in SUBSET (Nat \X Nat)
      BY <1>3
    <3> HIDE DEF B
    <3> QED
      BY <1>2, <1>4, <1>6, <3>1 DEF AdmittedTypes, B
  <2>3. IsFiniteSet(B) /\ B \subseteq (0 .. clock) \X Nat
    BY <1>3, FS_AddElement
  <2>4. ASSUME NEW T, NEW T2, T = {x \in A : x \in T2}
        PROVE  /\ IsFiniteSet(T) /\ Cardinality(T) \in Nat
               /\ Cardinality({x \in B : x \in T2}) = Cardinality(T) + (IF z \in T2 THEN 1 ELSE 0)
    <3>1. IsFiniteSet(T)
      BY <1>3, <2>4, FS_Subset
    <3>2. Cardinality(T) \in Nat
      BY <3>1, FS_CardinalityType
    <3>3. CASE z \in T2
      <4>1. {x \in B : x \in T2} = T \cup {z} /\ z \notin T
        BY <1>3, <2>4, <3>3
      <4> QED
        BY <3>1, <3>2, <3>3, <4>1, FS_AddElement
    <3>4. CASE z \notin T2
      <4>1. {x \in B : x \in T2} = T
        BY <2>4, <3>4
      <4> QED
        BY <3>1, <3>2, <3>4, <4>1
    <3> QED
      BY <3>1, <3>2, <3>3, <3>4
  <2>5. Stamped'
    <3>1. ASSUME NEW e \in B PROVE e[2] < Cardinality({x \in B : x[1] = e[1]})
      <4> DEFINE same == {x \in B : x[1] = e[1]}
                 T == {x \in A : x \in same}
      <4>1. /\ Cardinality(T) \in Nat
            /\ Cardinality({x \in B : x \in same}) = Cardinality(T) + (IF z \in same THEN 1 ELSE 0)
        <5> HIDE DEF B, same
        <5> QED
          BY <2>4
      <4>2. {x \in B : x \in same} = same /\ T = {x \in A : x[1] = e[1]}
        OBVIOUS
      <4>3. Cardinality(same) = Cardinality(T) + (IF z \in same THEN 1 ELSE 0)
        <5> HIDE DEF B, same, T
        <5> QED
          BY <4>1, <4>2
      <4>4. CASE e \in A
        <5>1. \A y \in A : y[2] < Cardinality({x \in A : x[1] = y[1]})
          BY <1>4 DEF Stamped, A
        <5>2. e[2] < Cardinality(T) /\ e[2] \in Nat
          <6>1. e[2] < Cardinality(T)
            BY <4>2, <4>4, <5>1
          <6>2. e[2] \in Nat
            BY <1>3, <4>4
          <6> QED
            BY <6>1, <6>2
        <5>3. e[2] < Cardinality(same)
          <6> HIDE DEF B, same, T
          <6> QED
            BY <4>1, <4>3, <5>2
        <5> QED
          BY <5>3
      <4>5. CASE e = z
        <5>1. z \in same /\ Cardinality(T) = z[2]
          BY <1>3, <4>2, <4>5
        <5>2. e[2] < Cardinality(same)
          <6> HIDE DEF B, same, T
          <6> QED
            BY <1>3, <4>1, <4>3, <4>5, <5>1
        <5> QED
          BY <5>2
      <4> QED
        BY <4>4, <4>5
    <3>2. ASSUME NEW s2 \in Stores, NEW k2 \in Keys
          PROVE  /\ IsFiniteSet(admitted'[s2][k2]) /\ admitted'[s2][k2] \subseteq (0 .. clock) \X Nat
                 /\ \A e \in admitted'[s2][k2] :
                      e[2] < Cardinality({x \in admitted'[s2][k2] : x[1] = e[1]})
      <4>1. CASE s2 # s \/ k2 # k
        <5>1. admitted'[s2][k2] = admitted[s2][k2]
          BY <2>1, <4>1
        <5> QED
          BY <1>4, <5>1 DEF Stamped
      <4>2. CASE s2 = s /\ k2 = k
        <5>1. admitted'[s2][k2] = B
          BY <2>1, <4>2
        <5> QED
          BY <2>3, <3>1, <5>1
      <4> QED
        BY <4>1, <4>2
    <3> QED
      BY <1>2, <3>2 DEF Stamped
  <2>6. Vouched'
    <3>1. ASSUME NEW e \in Nat, Counts(e)
          PROVE  Cardinality({x \in B : x[1] >= e}) <= Since(Append(mine, n), e)
      <4> DEFINE late == {x \in B : x[1] >= e}
                 T == {x \in A : x \in late}
      <4>1. /\ Cardinality(T) \in Nat
            /\ Cardinality({x \in B : x \in late}) = Cardinality(T) + (IF z \in late THEN 1 ELSE 0)
        <5> HIDE DEF B, late
        <5> QED
          BY <2>4
      <4>2. {x \in B : x \in late} = late /\ T = {x \in A : x[1] >= e}
        OBVIOUS
      <4>3. Cardinality(T) <= Since(Bucket(window[s], k), e)
        BY <1>4, <3>1, <4>2 DEF Vouched, A
      <4>4. /\ Bucket(window[s], k) \in Seq(Nat)
            /\ Since(mine, e) = Since(Bucket(window[s], k), e)
            /\ Since(mine, e) \in Nat
        <5>1. Bucket(window[s], k) \in Seq(Nat)
          BY DEF Windows, WindowTypes, Bucket
        <5>2. Since(mine, e) = Since(Bucket(window[s], k), e)
          BY <3>1, <5>1, LiveCounts DEF mine
        <5>3. Since(Bucket(window[s], k), e) \in Nat
          BY <5>1, LiveCounts
        <5> QED
          BY <5>1, <5>2, <5>3
      <4>5. mine \in Seq(Nat)
        BY <1>1, <1>6
      <4>6. Since(Append(mine, n), e) =
              IF n \in {x \in Nat : x + Stall >= e} THEN Since(mine, e) + 1 ELSE Since(mine, e)
        BY <4>5, AppendCounts
      <4>7. z \in late => n + Stall >= e
        <5>1. z \in late => clock >= e
          BY <1>3
        <5> QED
          BY <5>1, Constants
      <4>8. Cardinality(late) = Cardinality(T) + (IF z \in late THEN 1 ELSE 0)
        <5> HIDE DEF B, late, T
        <5> QED
          BY <4>1, <4>2
      <4>9. z \in late => n \in {x \in Nat : x + Stall >= e}
        BY <4>7
      <4>10. Cardinality(T) <= Since(mine, e)
        BY <4>3, <4>4
      <4>11. Cardinality(late) <= Since(Append(mine, n), e)
        <5> HIDE DEF B, late, T
        <5>1. Cardinality(T) \in Nat /\ Since(mine, e) \in Nat
          BY <4>1, <4>4
        <5>2. CASE z \in late
          BY <4>6, <4>8, <4>9, <4>10, <5>1, <5>2
        <5>3. CASE z \notin late
          <6>1. Cardinality(late) = Cardinality(T)
            BY <4>8, <5>1, <5>3
          <6>2. Since(Append(mine, n), e) = Since(mine, e) \/ Since(Append(mine, n), e) = Since(mine, e) + 1
            BY <4>6
          <6> QED
            BY <4>10, <5>1, <6>1, <6>2
        <5> QED
          BY <5>2, <5>3
      <4> QED
        BY <4>11
    <3>2. \A e : Counts(e)' <=> Counts(e)
      BY <1>2 DEF Counts
    <3>3. ASSUME NEW s2 \in Stores, NEW k2 \in Keys, NEW e \in Nat, Counts(e)
          PROVE  Cardinality({x \in admitted'[s2][k2] : x[1] >= e}) <= Since(Bucket(window'[s2], k2), e)
      <4>1. CASE s2 # s \/ k2 # k
        <5>1. admitted'[s2][k2] = admitted[s2][k2]
          BY <2>1, <4>1
        <5>2. Cardinality({x \in admitted[s2][k2] : x[1] >= e}) <= Since(Bucket(window[s2], k2), e)
          BY <1>4, <3>3 DEF Vouched
        <5> QED
          BY <1>1, <3>3, <4>1, <5>1, <5>2
      <4>2. CASE s2 = s /\ k2 = k
        <5>1. admitted'[s2][k2] = B /\ Bucket(window'[s2], k2) = Append(mine, n)
          BY <1>1, <1>6, <2>1, <4>2
        <5> QED
          BY <3>1, <3>3, <5>1
      <4> QED
        BY <4>1, <4>2
    <3> QED
      BY <3>2, <3>3 DEF Vouched
  <2>7. WindowRespected'
    <3>1. ASSUME NEW e \in B
          PROVE  Cardinality({x \in B : x[1] <= e[1] /\ x[1] + Window > e[1] + Stall}) <= Limit(s)
      <4> DEFINE span == {x \in B : x[1] <= e[1] /\ x[1] + Window > e[1] + Stall}
                 T == {x \in A : x \in span}
      <4>1. /\ Cardinality(T) \in Nat
            /\ Cardinality({x \in B : x \in span}) = Cardinality(T) + (IF z \in span THEN 1 ELSE 0)
        <5> HIDE DEF B, span
        <5> QED
          BY <2>4
      <4>2. /\ {x \in B : x \in span} = span
            /\ T = {x \in A : x[1] <= e[1] /\ x[1] + Window > e[1] + Stall}
        OBVIOUS
      <4>3. Limit(s) \in Nat /\ Stall \in Nat /\ Window \in Nat
        BY Constants
      <4>4. e[1] \in 0 .. clock
        BY <2>3
      <4>5. CASE e[1] < clock
        <5>1. e \in A
          BY <1>3, <4>5
        <5>2. z \notin span
          BY <1>3, <4>4, <4>5
        <5>3. Cardinality(T) <= Limit(s)
          BY <1>4, <4>2, <5>1 DEF WindowRespected, A
        <5> HIDE DEF T, span
        <5> QED
          BY <4>1, <4>2, <5>2, <5>3 DEF span
      <4>6. CASE e[1] = clock
        <5> DEFINE c0 == IF clock + Stall + 1 >= Window THEN (clock + Stall + 1) - Window ELSE 0
        <5>1. c0 \in Nat /\ Counts(c0)
          BY <4>3 DEF Counts
        <5>2. \A x \in A : x[1] \in Nat /\ (x \in span => x[1] >= c0)
          BY <1>3, <4>3, <4>6
        <5>3. T \in SUBSET {x \in A : x[1] >= c0}
          BY <5>2
        <5> HIDE DEF c0, T, span
        <5>4. Cardinality({x \in A : x[1] >= c0}) <= Since(Bucket(window[s], k), c0)
          BY <1>4, <5>1 DEF Vouched, A
        <5>5. /\ IsFiniteSet({x \in A : x[1] >= c0})
              /\ Cardinality(T) <= Cardinality({x \in A : x[1] >= c0})
              /\ Cardinality({x \in A : x[1] >= c0}) \in Nat
          <6>1. IsFiniteSet({x \in A : x[1] >= c0})
            BY <1>3, FS_Subset
          <6>2. Cardinality({x \in A : x[1] >= c0}) \in Nat
            BY <6>1, FS_CardinalityType
          <6> QED
            BY <5>3, <6>1, <6>2, FS_Subset
        <5>6. /\ Bucket(window[s], k) \in Seq(Nat) /\ n \in Nat /\ n <= clock
          BY DEF Windows, WindowTypes, Bucket
        <5>7. Since(mine, c0) = Since(Bucket(window[s], k), c0)
          BY <5>1, <5>6, LiveCounts DEF mine
        <5>8. mine \in Seq(Nat) /\ Len(mine) < Limit(s) /\ Len(mine) \in Nat
          BY <1>1, <1>6
        <5>9. Since(mine, c0) <= Len(mine) /\ Since(mine, c0) \in Nat
          BY <5>6, <5>8, LiveCounts
        <5>10. Cardinality(T) < Limit(s)
          BY <4>1, <4>3, <5>4, <5>5, <5>7, <5>8, <5>9
        <5>11. Cardinality(span) <= Limit(s)
          <6> HIDE DEF B
          <6>1. Cardinality(span) = Cardinality(T) + (IF z \in span THEN 1 ELSE 0)
            BY <4>1, <4>2
          <6> QED
            BY <4>1, <4>3, <5>10, <6>1
        <5> QED
          BY <5>11 DEF span
      <4> QED
        BY <4>4, <4>5, <4>6
    <3>2. ASSUME NEW s2 \in Stores, NEW k2 \in Keys
          PROVE  \A e \in admitted'[s2][k2] :
                   Cardinality({x \in admitted'[s2][k2] : x[1] <= e[1] /\ x[1] + Window > e[1] + Stall})
                     <= Limit(s2)
      <4>1. CASE s2 # s \/ k2 # k
        <5>1. admitted'[s2][k2] = admitted[s2][k2]
          BY <2>1, <4>1
        <5> QED
          BY <1>4, <5>1 DEF WindowRespected
      <4>2. CASE s2 = s /\ k2 = k
        <5>1. admitted'[s2][k2] = B /\ s2 = s
          BY <2>1, <4>2
        <5> QED
          BY <3>1, <5>1
      <4> QED
        BY <4>1, <4>2
    <3> QED
      BY <3>2 DEF WindowRespected
  <2> QED
    BY <1>1, <2>2, <2>5, <2>6, <2>7 DEF Windows
<1>7. c.ok \in BOOLEAN
  BY CheckedFacts DEF c
<1> QED
  BY <1>5, <1>6, <1>7

\* The hourly sweep drops only what no longer counts.
LEMMA SweepKeepsWindows ==
    ASSUME Windows, clock \in Nat, Sweep
    PROVE  Windows'
<1>1. /\ UNCHANGED <<clock, admitted>>
      /\ window' = [s \in Stores |->
                      LET kept == Reclaimed(window[s], clock)
                      IN  [k \in DOMAIN kept |-> Live(kept[k], clock)]]
  BY DEF Sweep
<1>2. WindowTypes
  BY DEF Windows
<1>3. ASSUME NEW s \in Stores
      PROVE  /\ DOMAIN window'[s] = {k \in DOMAIN window[s] : Live(window[s][k], clock) # << >>}
             /\ \A k \in DOMAIN window'[s] : window'[s][k] = Live(window[s][k], clock)
  BY <1>1 DEF Reclaimed
<1>4. \A s \in Stores : \A k \in DOMAIN window[s] :
        /\ window[s][k] \in Seq(Nat) /\ Live(window[s][k], clock) \in Seq(Nat)
        /\ \A e : Counts(e) => Since(Live(window[s][k], clock), e) = Since(window[s][k], e)
  BY <1>2, LiveCounts DEF WindowTypes
<1>5. WindowTypes'
  <2>1. DOMAIN window' = Stores
    BY <1>1
  <2>2. \A s \in Stores : DOMAIN window'[s] \subseteq DOMAIN window[s]
    BY <1>3
  <2>3. \A s \in Stores : \A k \in DOMAIN window'[s] : window'[s][k] \in Seq(Nat)
    BY <1>3, <1>4, <2>2
  <2> QED
    BY <1>2, <2>1, <2>2, <2>3 DEF WindowTypes
<1>6. ASSUME NEW s \in Stores, NEW k \in Keys, NEW e, Counts(e)
      PROVE  Since(Bucket(window'[s], k), e) = Since(Bucket(window[s], k), e)
  <2>1. CASE k \in DOMAIN window'[s]
    <3>1. k \in DOMAIN window[s] /\ window'[s][k] = Live(window[s][k], clock)
      BY <1>3, <2>1
    <3> QED
      BY <1>4, <1>6, <2>1, <3>1 DEF Bucket
  <2>2. CASE k \notin DOMAIN window'[s] /\ k \in DOMAIN window[s]
    <3>1. Live(window[s][k], clock) = << >>
      BY <1>3, <2>2
    <3> QED
      BY <1>4, <1>6, <2>2, <3>1 DEF Bucket
  <2>3. CASE k \notin DOMAIN window'[s] /\ k \notin DOMAIN window[s]
    BY <2>3 DEF Bucket
  <2> QED
    BY <2>1, <2>2, <2>3
<1>7. \A e : Counts(e)' <=> Counts(e)
  BY <1>1 DEF Counts
<1>8. Vouched'
  BY <1>1, <1>6, <1>7 DEF Windows, Vouched
<1>9. AdmittedTypes' /\ Stamped' /\ WindowRespected'
  BY <1>1 DEF Windows, AdmittedTypes, Stamped, WindowRespected
<1> QED
  BY <1>5, <1>8, <1>9 DEF Windows

\* What time leaves of a set of admissions.
LEMMA Forgotten ==
    ASSUME NEW A, NEW n \in Nat, IsFiniteSet(A), A \subseteq (0 .. n) \X Nat,
           NEW B, B = {x \in A : x[1] + Window > n + 1}
    PROVE  /\ IsFiniteSet(B) /\ B \in SUBSET A /\ B \subseteq (0 .. n + 1) \X Nat
           /\ \A e \in B : {x \in B : x[1] = e[1]} = {x \in A : x[1] = e[1]}
<1>1. B \in SUBSET A
  OBVIOUS
<1>2. IsFiniteSet(B)
  BY <1>1, FS_Subset
<1>3. B \subseteq (0 .. n + 1) \X Nat
  BY <1>1
<1>4. \A e \in B : {x \in B : x[1] = e[1]} = {x \in A : x[1] = e[1]}
  OBVIOUS
<1> QED
  BY <1>1, <1>2, <1>3, <1>4

LEMMA FewerCount ==
    ASSUME NEW A, IsFiniteSet(A), NEW B \in SUBSET A, NEW good
    PROVE  /\ Cardinality({x \in B : x \in good}) <= Cardinality({x \in A : x \in good})
           /\ Cardinality({x \in B : x \in good}) \in Nat
           /\ Cardinality({x \in A : x \in good}) \in Nat
<1>1. {x \in B : x \in good} \in SUBSET {x \in A : x \in good}
  OBVIOUS
<1>2. {x \in A : x \in good} \in SUBSET A /\ {x \in B : x \in good} \in SUBSET A
  OBVIOUS
<1>3. IsFiniteSet({x \in A : x \in good}) /\ IsFiniteSet({x \in B : x \in good})
  BY <1>2, FS_Subset
<1> QED
  BY <1>1, <1>3, FS_Subset, FS_CardinalityType

\* Time passes: what has left the window is forgotten.
LEMMA TickKeepsWindows ==
    ASSUME Windows, clock \in Nat, Tick
    PROVE  Windows'
<1>1. /\ clock' = clock + 1 /\ window' = window
      /\ admitted' = [s \in Stores |-> [k \in Keys |-> {x \in admitted[s][k] : x[1] + Window > clock + 1}]]
  BY DEF Tick
<1>2. WindowTypes'
  BY <1>1 DEF Windows, WindowTypes
<1>3. Stall \in Nat /\ Window \in Nat /\ \A s \in Stores : Limit(s) \in Nat
  BY Constants
<1>4. ASSUME NEW s \in Stores, NEW k \in Keys
      PROVE  LET A == admitted[s][k]
                 B == admitted'[s][k]
             IN  /\ IsFiniteSet(A) /\ A \subseteq (0 .. clock) \X Nat
                 /\ \A e \in A : e[2] < Cardinality({x \in A : x[1] = e[1]})
                 /\ B = {x \in A : x[1] + Window > clock + 1}
                 /\ IsFiniteSet(B) /\ B \in SUBSET A /\ B \subseteq (0 .. clock + 1) \X Nat
                 /\ \A e \in B : {x \in B : x[1] = e[1]} = {x \in A : x[1] = e[1]}
  <2> DEFINE A == admitted[s][k]
             B == admitted'[s][k]
  <2>1. IsFiniteSet(A) /\ A \subseteq (0 .. clock) \X Nat
    BY DEF Windows, Stamped
  <2>2. \A e \in A : e[2] < Cardinality({x \in A : x[1] = e[1]})
    BY DEF Windows, Stamped
  <2>3. B = {x \in A : x[1] + Window > clock + 1}
    BY <1>1
  <2> HIDE DEF A, B
  <2>4. /\ IsFiniteSet(B) /\ B \in SUBSET A /\ B \subseteq (0 .. clock + 1) \X Nat
        /\ \A e \in B : {x \in B : x[1] = e[1]} = {x \in A : x[1] = e[1]}
    BY <2>1, <2>3, Forgotten
  <2> QED
    BY <2>1, <2>2, <2>3, <2>4 DEF A, B
<1>5. AdmittedTypes'
  <2>1. ASSUME NEW s \in Stores, NEW k \in Keys PROVE admitted'[s][k] \in SUBSET (Nat \X Nat)
    <3>1. admitted'[s][k] \subseteq (0 .. clock + 1) \X Nat
      BY <1>4
    <3> QED
      BY <3>1
  <2> QED
    BY <1>1, <2>1 DEF AdmittedTypes
<1>6. Stamped'
  <2>1. ASSUME NEW s \in Stores, NEW k \in Keys
        PROVE  /\ IsFiniteSet(admitted'[s][k]) /\ admitted'[s][k] \subseteq (0 .. clock') \X Nat
               /\ \A e \in admitted'[s][k] :
                    e[2] < Cardinality({x \in admitted'[s][k] : x[1] = e[1]})
    <3> DEFINE A == admitted[s][k]
               B == admitted'[s][k]
    <3>2. /\ \A e \in A : e[2] < Cardinality({x \in A : x[1] = e[1]})
          /\ IsFiniteSet(B) /\ B \in SUBSET A /\ B \subseteq (0 .. clock + 1) \X Nat
          /\ \A e \in B : {x \in B : x[1] = e[1]} = {x \in A : x[1] = e[1]}
      BY <1>4
    <3> HIDE DEF A, B
    <3>3. ASSUME NEW e \in B PROVE e[2] < Cardinality({x \in B : x[1] = e[1]})
      <4>1. {x \in B : x[1] = e[1]} = {x \in A : x[1] = e[1]} /\ e \in A
        BY <3>2
      <4>2. e[2] < Cardinality({x \in A : x[1] = e[1]})
        BY <3>2, <4>1
      <4> QED
        BY <4>1, <4>2
    <3> QED
      BY <1>1, <3>2, <3>3 DEF A, B
  <2> QED
    BY <2>1 DEF Stamped
<1>7. ASSUME NEW s \in Stores, NEW k \in Keys, NEW good
      PROVE  LET late(set) == Cardinality({x \in set : x \in good})
             IN  /\ late(admitted'[s][k]) <= late(admitted[s][k])
                 /\ late(admitted'[s][k]) \in Nat /\ late(admitted[s][k]) \in Nat
  <2> DEFINE A == admitted[s][k]
             B == admitted'[s][k]
  <2>2. IsFiniteSet(A) /\ B \in SUBSET A
    BY <1>4
  <2> HIDE DEF A, B
  <2>3. /\ Cardinality({x \in B : x \in good}) <= Cardinality({x \in A : x \in good})
        /\ Cardinality({x \in B : x \in good}) \in Nat /\ Cardinality({x \in A : x \in good}) \in Nat
    BY <2>2, FewerCount
  <2> QED
    BY <2>3 DEF A, B
<1>8. Vouched'
  <2>1. ASSUME NEW s \in Stores, NEW k \in Keys, NEW c \in Nat, Counts(c)'
        PROVE  Cardinality({x \in admitted'[s][k] : x[1] >= c}) <= Since(Bucket(window'[s], k), c)
    <3>1. Counts(c)
      BY <1>1, <1>3, <2>1 DEF Counts
    <3> DEFINE A == admitted[s][k]
               B == admitted'[s][k]
               late == {x \in A : x[1] >= c}
    <3>2. Cardinality({x \in A : x[1] >= c}) <= Since(Bucket(window[s], k), c)
      BY <3>1 DEF Windows, Vouched
    <3>3. B \in SUBSET A
      BY <1>4
    <3>4. {x \in A : x \in late} = {x \in A : x[1] >= c} /\ {x \in B : x \in late} = {x \in B : x[1] >= c}
      BY <3>3
    <3>5. /\ Cardinality({x \in B : x \in late}) <= Cardinality({x \in A : x \in late})
          /\ Cardinality({x \in B : x \in late}) \in Nat /\ Cardinality({x \in A : x \in late}) \in Nat
      <4> HIDE DEF late
      <4> QED
        BY <1>7
    <3>6. Since(Bucket(window[s], k), c) \in Nat
      <4>1. Bucket(window[s], k) \in Seq(Nat)
        BY DEF Windows, WindowTypes, Bucket
      <4>2. 0 \in Nat /\ 0 <= clock
        OBVIOUS
      <4> QED
        BY <4>1, <4>2, LiveCounts
    <3>7. Cardinality({x \in B : x[1] >= c}) <= Since(Bucket(window[s], k), c)
      <4>1. \A i, j, l \in Nat : i <= j /\ j <= l => i <= l
        OBVIOUS
      <4> HIDE DEF A, B, late
      <4>2. /\ Cardinality({x \in B : x[1] >= c}) <= Cardinality({x \in A : x[1] >= c})
            /\ Cardinality({x \in B : x[1] >= c}) \in Nat /\ Cardinality({x \in A : x[1] >= c}) \in Nat
        BY <3>4, <3>5, Zenon
      <4> QED
        BY <3>2, <3>6, <4>1, <4>2, Zenon
    <3> QED
      BY <1>1, <3>7
  <2> QED
    BY <2>1 DEF Vouched
<1>9. WindowRespected'
  <2>1. ASSUME NEW s \in Stores, NEW k \in Keys, NEW e \in admitted'[s][k]
        PROVE  Cardinality({x \in admitted'[s][k] : x[1] <= e[1] /\ x[1] + Window > e[1] + Stall}) <= Limit(s)
    <3> DEFINE A == admitted[s][k]
               B == admitted'[s][k]
               span == {x \in A : x[1] <= e[1] /\ x[1] + Window > e[1] + Stall}
    <3>1. B \in SUBSET A
      BY <1>4
    <3>2. Cardinality(span) <= Limit(s)
      BY <2>1, <3>1 DEF Windows, WindowRespected
    <3>3. /\ {x \in A : x \in span} = span
          /\ {x \in B : x \in span} = {x \in B : x[1] <= e[1] /\ x[1] + Window > e[1] + Stall}
      BY <3>1
    <3>4. /\ Cardinality({x \in B : x \in span}) <= Cardinality({x \in A : x \in span})
          /\ Cardinality({x \in B : x \in span}) \in Nat /\ Cardinality({x \in A : x \in span}) \in Nat
      <4> HIDE DEF span
      <4> QED
        BY <1>7
    <3>5. Cardinality({x \in B : x[1] <= e[1] /\ x[1] + Window > e[1] + Stall}) <= Limit(s)
      <4>1. \A i, j, l \in Nat : i <= j /\ j <= l => i <= l
        OBVIOUS
      <4> HIDE DEF A, B, span
      <4>2. /\ Cardinality({x \in B : x[1] <= e[1] /\ x[1] + Window > e[1] + Stall}) <= Cardinality(span)
            /\ Cardinality({x \in B : x[1] <= e[1] /\ x[1] + Window > e[1] + Stall}) \in Nat
            /\ Cardinality(span) \in Nat
        BY <3>3, <3>4, Zenon
      <4>3. Limit(s) \in Nat
        BY <1>3
      <4> QED
        BY <3>2, <4>1, <4>2, <4>3, Zenon
    <3> QED
      BY <3>5
  <2> QED
    BY <2>1 DEF WindowRespected
<1> QED
  BY <1>2, <1>5, <1>6, <1>8, <1>9 DEF Windows

-----------------------------------------------------------------------------
(* The requests.                                                            *)

Pcs == Waits \cup {"idle"}

LEMMA Fields ==
    ASSUME NEW r \in Request
    PROVE  /\ r.pc \in Pcs /\ r.kind \in Kinds /\ r.browser \in Browsers \cup {None}
           /\ r.addr \in Addrs \cup {None} /\ r.cookie \in Nat /\ r.now \in Nat /\ r.since \in Nat
           /\ r.ok \in BOOLEAN /\ r.asked \in Nat /\ r.valid \in BOOLEAN \cup {None}
BY DEF Request, Pcs

LEMMA IdleIsRequest == Idle \in Request
BY DEF Idle, Request, Waits, Kinds

\* A thread that goes on with rec has just read the clock.
LEMMA Walked ==
    ASSUME Threaded, clock \in Nat, NEW t \in Threads, NEW rec \in Request, NEW pc \in Waits,
           GoAs(t, rec, pc), UNCHANGED clock, rec.browser \in Browsers, rec.addr \in Addrs,
           pc = "mint" => rec.asked = clock, pc # "put"
    PROVE  /\ Threaded' /\ th'[t].pc = pc
           /\ th'[t].addr = rec.addr /\ th'[t].ok = rec.ok /\ th'[t].asked = rec.asked
           /\ \A u \in Threads \ {t} : th'[u] = th[u]
<1> DEFINE r == [rec EXCEPT !.pc = pc, !.now = clock, !.since = clock]
<1>1. /\ r \in Request /\ r.pc = pc /\ r.now = clock /\ r.since = clock /\ r.browser = rec.browser
      /\ r.addr = rec.addr /\ r.ok = rec.ok /\ r.asked = rec.asked
  BY DEF Request
<1>2. th \in [Threads -> Request] /\ th' = [th EXCEPT ![t] = r]
  BY DEF Threaded, GoAs
<1> HIDE DEF r
<1>3. th'[t] = r /\ \A u \in Threads \ {t} : th'[u] = th[u]
  BY <1>2
<1>4. th' \in [Threads -> Request]
  BY <1>1, <1>2
<1>5. Named'
  <2>1. \A u \in Threads : th'[u].pc # "idle" => th'[u].browser \in Browsers /\ th'[u].addr \in Addrs
    BY <1>1, <1>3 DEF Threaded, Named, At
  <2> QED
    BY <2>1 DEF Named, At
<1>6. Clocks'
  <2>1. \A u \in Threads \ {t} : th[u].pc # "idle" =>
          th[u].now = th[u].since /\ th[u].since <= clock /\ clock <= th[u].since + Patience(u)
    BY DEF Threaded, Clocks, At
  <2>2. \A u \in Threads \ {t} : Patience(u)' = Patience(u)
    BY <1>3 DEF Patience
  <2>3. Patience(t)' \in Nat
    BY Constants DEF Patience
  <2>4. clock <= r.since + Patience(t)'
    BY <1>1, <2>3
  <2>5. \A u \in Threads : th'[u].pc # "idle" =>
          th'[u].now = th'[u].since /\ th'[u].since <= clock' /\ clock' <= th'[u].since + Patience(u)'
    BY <1>1, <1>3, <2>1, <2>2, <2>4
  <2> QED
    BY <2>5 DEF Clocks, At
<1>7. Answered'
  <2>1. \A u \in Threads : /\ th'[u].pc = "mint" => th'[u].asked = th'[u].since
                           /\ th'[u].pc = "put" => th'[u].asked = th'[u].since /\ th'[u].valid \in BOOLEAN
    BY <1>1, <1>3 DEF Threaded, Answered, At
  <2> QED
    BY <2>1 DEF Answered, At
<1> QED
  BY <1>1, <1>3, <1>4, <1>5, <1>6, <1>7 DEF Threaded

\* Most steps go on with the request as it is.
LEMMA GoIsGoAs ==
    ASSUME Threaded, NEW t \in Threads, NEW pc, Go(t, pc)
    PROVE  GoAs(t, th[t], pc)
BY DEF Go, GoAs, Threaded

LEMMA Ended ==
    ASSUME Threaded, NEW t \in Threads, End(t), UNCHANGED clock
    PROVE  /\ Threaded' /\ th'[t].pc = "idle" /\ th'[t].ok = FALSE
           /\ \A u \in Threads \ {t} : th'[u] = th[u]
<1>1. th \in [Threads -> Request] /\ th' = [th EXCEPT ![t] = Idle]
  BY DEF Threaded, End
<1>2. th'[t] = Idle /\ \A u \in Threads \ {t} : th'[u] = th[u]
  BY <1>1
<1>3. th' \in [Threads -> Request]
  BY <1>1, IdleIsRequest
<1>4. Idle.pc = "idle" /\ Idle.ok = FALSE
  BY DEF Idle
<1>5. Named'
  <2>1. \A u \in Threads : th'[u].pc # "idle" => th'[u].browser \in Browsers /\ th'[u].addr \in Addrs
    BY <1>2, <1>4 DEF Threaded, Named, At
  <2> QED
    BY <2>1 DEF Named, At
<1>6. Clocks'
  <2>1. \A u \in Threads \ {t} : th[u].pc # "idle" =>
          th[u].now = th[u].since /\ th[u].since <= clock /\ clock <= th[u].since + Patience(u)
    BY DEF Threaded, Clocks, At
  <2>2. \A u \in Threads \ {t} : Patience(u)' = Patience(u)
    BY <1>2 DEF Patience
  <2>3. \A u \in Threads : th'[u].pc # "idle" =>
          th'[u].now = th'[u].since /\ th'[u].since <= clock' /\ clock' <= th'[u].since + Patience(u)'
    BY <1>2, <1>4, <2>1, <2>2
  <2> QED
    BY <2>3 DEF Clocks, At
<1>7. Answered'
  <2>1. \A u \in Threads : /\ th'[u].pc = "mint" => th'[u].asked = th'[u].since
                           /\ th'[u].pc = "put" => th'[u].asked = th'[u].since /\ th'[u].valid \in BOOLEAN
    BY <1>2, <1>4 DEF Threaded, Answered, At
  <2> QED
    BY <2>1 DEF Answered, At
<1> QED
  BY <1>2, <1>3, <1>4, <1>5, <1>6, <1>7 DEF Threaded

\* The clock a thread has read before its step.
LEMMA Reading ==
    ASSUME Threaded, clock \in Nat, NEW t \in Threads, th[t].pc # "idle"
    PROVE  /\ th[t] \in Request /\ th[t].browser \in Browsers /\ th[t].addr \in Addrs
           /\ th[t].now = th[t].since /\ th[t].now \in Nat /\ th[t].asked \in Nat /\ th[t].now <= clock
           /\ th[t].pc \notin {"probe", "wait"} => clock <= th[t].now + Stall
<1>1. th[t] \in Request
  BY DEF Threaded
<1>2. /\ th[t].now = th[t].since /\ th[t].since <= clock /\ clock <= th[t].since + Patience(t)
      /\ th[t].browser \in Browsers /\ th[t].addr \in Addrs
  BY DEF Threaded, Clocks, Named, At
<1>3. th[t].now \in Nat /\ th[t].asked \in Nat
  BY <1>1, Fields
<1> QED
  BY <1>1, <1>2, <1>3 DEF Patience

-----------------------------------------------------------------------------
(* The counters.                                                            *)

Trying == {"authenticate", "probe", "mint", "fly", "wait", "put", "release"}
Tries(a) == {u \in Threads : th[u].pc \in Trying /\ th[u].addr = a}

LEMMA TriesFacts ==
    /\ \A a : IsFiniteSet(Tries(a)) /\ Cardinality(Tries(a)) \in Nat
    /\ Counter <=> /\ DOMAIN inflight \subseteq Addrs
                   /\ \A a \in DOMAIN inflight : inflight[a] \in Nat \ {0}
                   /\ \A a \in Addrs : Held(a) = Cardinality(Tries(a))
<1>1. ASSUME NEW a PROVE IsFiniteSet(Tries(a)) /\ Cardinality(Tries(a)) \in Nat
  <2>1. Tries(a) \in SUBSET Threads
    BY DEF Tries
  <2>2. IsFiniteSet(Tries(a))
    BY <2>1, ThreadsAssumption, FS_Subset
  <2> QED
    BY <2>2, FS_CardinalityType
<1>2. \A a : Tries(a) = {u \in Threads : Attempting(u) /\ th[u].addr = a}
  BY DEF Tries, Trying, Attempting
<1> QED
  BY <1>1, <1>2 DEF Counter, InflightExact

\* A step that nobody begins or ends an attempt with counts the same.
LEMMA CounterStays ==
    ASSUME Counter, UNCHANGED inflight,
           \A u \in Threads : /\ th'[u].pc \in Trying <=> th[u].pc \in Trying
                              /\ th[u].pc \in Trying => th'[u].addr = th[u].addr
    PROVE  Counter'
<1>1. \A a : {u \in Threads : th'[u].pc \in Trying /\ th'[u].addr = a} = Tries(a)
  BY DEF Tries
<1>2. \A a : {u \in Threads : Attempting(u) /\ th[u].addr = a}' = Tries(a)
  BY <1>1 DEF Attempting, Trying
<1>3. \A a : {u \in Threads : Attempting(u) /\ th[u].addr = a} = Tries(a)
  BY DEF Attempting, Trying, Tries
<1>4. \A a : Held(a)' = Held(a)
  BY DEF Held
<1> QED
  BY <1>2, <1>3, <1>4 DEF Counter, InflightExact
\* The step that counts an attempt, and the one that releases it.
LEMMA CounterMoves ==
    ASSUME Counter, NEW t \in Threads, NEW a \in Addrs, th[t].addr = a,
           \A u \in Threads \ {t} : th'[u] = th[u],
           \/ /\ th[t].pc \notin Trying /\ th'[t].pc \in Trying /\ th'[t].addr = a
              /\ inflight' = [x \in DOMAIN inflight \cup {a} |->
                                IF x = a THEN Held(a) + 1 ELSE inflight[x]]
           \/ /\ th[t].pc \in Trying /\ th'[t].pc \notin Trying
              /\ inflight' = Released(a)
    PROVE  Counter'
<1> DEFINE Later(b) == {u \in Threads : th'[u].pc \in Trying /\ th'[u].addr = b}
<1>0. \A b : {u \in Threads : Attempting(u) /\ th[u].addr = b}' = Later(b)
  BY DEF Attempting, Trying
<1>1. /\ DOMAIN inflight \subseteq Addrs
      /\ \A b \in DOMAIN inflight : inflight[b] \in Nat \ {0}
      /\ \A b \in Addrs : Held(b) = Cardinality(Tries(b))
      /\ \A b : IsFiniteSet(Tries(b)) /\ Cardinality(Tries(b)) \in Nat
  BY TriesFacts
<1>2. SUFFICES /\ DOMAIN inflight' \subseteq Addrs
               /\ \A b \in DOMAIN inflight' : inflight'[b] \in Nat \ {0}
               /\ \A b \in Addrs : Held(b)' = Cardinality(Later(b))
  BY <1>0 DEF Counter, InflightExact
<1>3. \A b : b # a => Later(b) = Tries(b)
  BY DEF Tries
<1>4. Held(a) \in Nat
  BY <1>1
<1>5. CASE /\ th[t].pc \notin Trying /\ th'[t].pc \in Trying /\ th'[t].addr = a
           /\ inflight' = [x \in DOMAIN inflight \cup {a} |->
                             IF x = a THEN Held(a) + 1 ELSE inflight[x]]
  <2>1. t \notin Tries(a) /\ Later(a) = Tries(a) \cup {t}
    <3>1. t \notin Tries(a) /\ t \in Later(a)
      BY <1>5 DEF Tries
    <3>2. \A u \in Threads \ {t} : u \in Later(a) <=> u \in Tries(a)
      BY DEF Tries
    <3>3. Later(a) \subseteq Threads /\ Tries(a) \subseteq Threads
      BY DEF Tries
    <3> HIDE DEF Later
    <3> QED
      BY <3>1, <3>2, <3>3
  <2>2. Cardinality(Later(a)) = Cardinality(Tries(a)) + 1
    <3> DEFINE T == Tries(a)
    <3>1. IsFiniteSet(T) /\ t \notin T
      BY <1>1, <2>1
    <3> HIDE DEF T
    <3>2. Cardinality(T \cup {t}) = Cardinality(T) + 1
      BY <3>1, FS_AddElement
    <3> QED
      BY <2>1, <3>2 DEF T
  <2>3. DOMAIN inflight' = DOMAIN inflight \cup {a} /\ inflight'[a] = Held(a) + 1
    BY <1>5
  <2>4. \A b \in DOMAIN inflight \ {a} : inflight'[b] = inflight[b]
    BY <1>5
  <2>5. Held(a)' = Cardinality(Later(a))
    <3>1. Held(a)' = Held(a) + 1
      BY <2>3 DEF Held
    <3> QED
      BY <1>1, <2>2, <3>1
  <2>6. \A b \in Addrs \ {a} : Held(b)' = Held(b)
    BY <2>3, <2>4 DEF Held
  <2>7. \A b \in Addrs : Held(b)' = Cardinality(Later(b))
    BY <1>1, <1>3, <2>5, <2>6
  <2>8. \A b \in DOMAIN inflight' : inflight'[b] \in Nat \ {0}
    BY <1>1, <1>4, <2>3, <2>4
  <2> QED
    BY <1>1, <2>3, <2>7, <2>8
<1>6. CASE /\ th[t].pc \in Trying /\ th'[t].pc \notin Trying
           /\ inflight' = Released(a)
  <2>1. t \in Tries(a) /\ Later(a) = Tries(a) \ {t}
    BY <1>6 DEF Tries
  <2>2. Cardinality(Later(a)) = Cardinality(Tries(a)) - 1 /\ Cardinality(Later(a)) \in Nat
    <3>1. IsFiniteSet(Tries(a) \ {t}) /\ Cardinality(Tries(a) \ {t}) = Cardinality(Tries(a)) - 1
      BY <1>1, <2>1, FS_RemoveElement
    <3> HIDE DEF Later
    <3>2. IsFiniteSet(Later(a)) /\ Cardinality(Later(a)) = Cardinality(Tries(a)) - 1
      BY <2>1, <3>1
    <3> QED
      BY <3>2, FS_CardinalityType
  <2>3. Held(a) >= 1 /\ Held(a) - 1 = Cardinality(Later(a))
    BY <1>1, <1>4, <2>2
  <2>4. a \in DOMAIN inflight /\ inflight[a] = Held(a)
    BY <1>4, <2>3 DEF Held
  <2>5. CASE Held(a) <= 1
    <3>1. inflight' = [x \in DOMAIN inflight \ {a} |-> inflight[x]]
      BY <1>6, <2>5 DEF Released
    <3>2. Held(a)' = 0 /\ Held(a) - 1 = 0
      BY <1>4, <2>3, <2>5, <3>1 DEF Held
    <3>3. \A b \in Addrs \ {a} : Held(b)' = Held(b)
      BY <3>1 DEF Held
    <3>4. \A b \in Addrs : Held(b)' = Cardinality(Later(b))
      BY <1>1, <1>3, <2>3, <3>2, <3>3
    <3> QED
      BY <1>1, <3>1, <3>4
  <2>6. CASE ~(Held(a) <= 1)
    <3>1. inflight' = [inflight EXCEPT ![a] = inflight[a] - 1]
      BY <1>6, <2>6 DEF Released
    <3>2. DOMAIN inflight' = DOMAIN inflight /\ inflight'[a] = Held(a) - 1
      BY <2>4, <3>1
    <3>3. Held(a)' = Held(a) - 1
      BY <2>4, <3>2 DEF Held
    <3>4. \A b \in Addrs \ {a} : Held(b)' = Held(b)
      BY <3>1, <3>2 DEF Held
    <3>5. \A b \in Addrs : Held(b)' = Cardinality(Later(b))
      BY <1>1, <1>3, <2>3, <3>3, <3>4
    <3>6. \A b \in DOMAIN inflight' : inflight'[b] \in Nat \ {0}
      <4>1. Held(a) - 1 \in Nat \ {0}
        BY <1>4, <2>6
      <4>2. \A b \in DOMAIN inflight \ {a} : inflight'[b] = inflight[b]
        BY <3>1
      <4> QED
        BY <1>1, <3>2, <4>1, <4>2
    <3> QED
      BY <1>1, <3>2, <3>5, <3>6
  <2> QED
    BY <2>5, <2>6
<1> QED
  BY <1>5, <1>6

-----------------------------------------------------------------------------
(* The tables of sessions and decisions.                                    *)

LEMMA TableFacts ==
    ASSUME NEW S, NEW table \in Seq(S), NEW key
    PROVE  /\ Without(table, key) \in Seq(S) /\ Trimmed(table) \in Seq(S)
           /\ \A e \in S : Append(table, e) \in Seq(S)
           /\ Holds(table, key) => Of(table, key) \in S /\ Of(table, key).key = key
<1>1. Without(table, key) \in Seq(S)
  <2>1. {i \in DOMAIN table : table[i].key # key} \in SUBSET DOMAIN table
    OBVIOUS
  <2> QED
    BY <2>1, PickedIsSeq DEF Without
<1>2. Trimmed(table) \in Seq(S)
  <2>1. CASE Len(table) > MaxEntries
    <3>1. Len(table) \in Nat /\ MaxEntries \in Nat
      BY Constants
    <3>2. SubSeq(table, Len(table) - MaxEntries + 1, Len(table)) \in Seq(S)
      <4>1. \A i \in (Len(table) - MaxEntries + 1) .. Len(table) : i \in 1 .. Len(table)
        BY <2>1, <3>1
      <4> QED
        BY <2>1, <3>1, <4>1, SubSeqProperties
    <3> QED
      BY <2>1, <3>2 DEF Trimmed
  <2>2. CASE ~(Len(table) > MaxEntries)
    BY <2>2 DEF Trimmed
  <2> QED
    BY <2>1, <2>2
<1>3. ASSUME Holds(table, key) PROVE Of(table, key) \in S /\ Of(table, key).key = key
  <2> DEFINE p == CHOOSE i \in DOMAIN table : table[i].key = key
  <2>1. p \in DOMAIN table /\ table[p].key = key
    BY <1>3 DEF Holds
  <2> HIDE DEF p
  <2>2. table[p] \in S
    BY <2>1
  <2> QED
    BY <2>1, <2>2 DEF Of, p
<1> QED
  BY <1>1, <1>2, <1>3

LEMMA TablesStay ==
    ASSUME Tables, UNCHANGED <<sessions, decisions>>
    PROVE  Tables'
BY DEF Tables, FreshEntry, FreshVerdict

\* The broker's table after a look-up.
LEMMA TouchedFresh ==
    ASSUME Tables, NEW r
    PROVE  /\ Touched(r) \in Seq(FreshEntry)
           /\ Accepts(r) => /\ Session(r) \in FreshEntry /\ Session(r).expires > r.now
                            /\ Session(r).asked \in Nat /\ Session(r).expires \in Nat
                            /\ Session(r).expires <= Session(r).asked + TTL
<1>1. sessions \in Seq(FreshEntry)
  BY DEF Tables
<1>2. /\ Without(sessions, r.cookie) \in Seq(FreshEntry)
      /\ Holds(sessions, r.cookie) => Of(sessions, r.cookie) \in FreshEntry
  BY <1>1, TableFacts
<1>3. Accepts(r) => Holds(sessions, r.cookie) /\ Session(r).expires > r.now
  BY DEF Accepts
<1>4. Accepts(r) => Session(r) \in FreshEntry
  BY <1>2, <1>3 DEF Session
<1>5. Accepts(r) => Append(Without(sessions, r.cookie), Session(r)) \in Seq(FreshEntry)
  BY <1>2, <1>4
<1>6. Touched(r) \in Seq(FreshEntry)
  BY <1>1, <1>2, <1>5 DEF Touched
<1>7. \A e \in FreshEntry : e.asked \in Nat /\ e.expires \in Nat /\ e.expires <= e.asked + TTL
  BY DEF FreshEntry, Entry
<1> QED
  BY <1>3, <1>4, <1>6, <1>7
-----------------------------------------------------------------------------
(* The steps.                                                               *)

FreshStep == \A u \in Threads : th'[u].ok /\ ~th[u].ok => clock < th'[u].asked + TTL + 2 * Stall

Others == <<mode, clock, requests, login>>

LEMMA BaseStays ==
    ASSUME Base, UNCHANGED Others, lastToken' \in Nat,
           flights' \subseteq Browsers \X Addrs, jar' \in [Browsers -> Nat]
    PROVE  Base'
BY DEF Base, Others

LEMMA ClockIsNat ==
    ASSUME Base PROVE clock \in Nat /\ lastToken \in Nat /\ jar \in [Browsers -> Nat]
                      /\ flights \subseteq Browsers \X Addrs
BY Constants DEF Base

\* One thread goes on, neither beginning nor ending an attempt, and nobody
\* is authenticated by it.
LEMMA GoesOn ==
    ASSUME IInv, NEW t \in Threads, th[t].pc # "idle", UNCHANGED clock,
           \/ \E rec \in Request, pc \in Waits :
                /\ GoAs(t, rec, pc) /\ pc # "put" /\ (pc = "mint" => rec.asked = clock)
                /\ rec.browser = th[t].browser /\ rec.addr = th[t].addr
                /\ pc \in Trying <=> th[t].pc \in Trying
                /\ rec.ok => th[t].ok \/ clock < rec.asked + TTL + 2 * Stall
           \/ End(t) /\ th[t].pc \notin Trying
    PROVE  Threaded' /\ FreshStep /\ (UNCHANGED inflight => Counter')
<1>1. /\ Threaded /\ Counter /\ clock \in Nat
      /\ th[t].browser \in Browsers /\ th[t].addr \in Addrs
  BY Reading, ClockIsNat DEF IInv
<1>2. CASE End(t) /\ th[t].pc \notin Trying
  <2>1. /\ Threaded' /\ th'[t].pc = "idle" /\ th'[t].ok = FALSE
        /\ \A u \in Threads \ {t} : th'[u] = th[u]
    BY <1>1, <1>2, Ended
  <2>2. FreshStep
    BY <2>1 DEF FreshStep
  <2>3. "idle" \notin Trying
    BY DEF Trying
  <2>4. \A u \in Threads : /\ th'[u].pc \in Trying <=> th[u].pc \in Trying
                           /\ th[u].pc \in Trying => th'[u].addr = th[u].addr
    BY <1>2, <2>1, <2>3
  <2> QED
    BY <1>1, <2>1, <2>2, <2>4, CounterStays
<1>3. CASE \E rec \in Request, pc \in Waits :
             /\ GoAs(t, rec, pc) /\ pc # "put" /\ (pc = "mint" => rec.asked = clock)
             /\ rec.browser = th[t].browser /\ rec.addr = th[t].addr
             /\ pc \in Trying <=> th[t].pc \in Trying
             /\ rec.ok => th[t].ok \/ clock < rec.asked + TTL + 2 * Stall
  <2>1. PICK rec \in Request, pc \in Waits :
             /\ GoAs(t, rec, pc) /\ pc # "put" /\ (pc = "mint" => rec.asked = clock)
             /\ rec.browser = th[t].browser /\ rec.addr = th[t].addr
             /\ pc \in Trying <=> th[t].pc \in Trying
             /\ rec.ok => th[t].ok \/ clock < rec.asked + TTL + 2 * Stall
    BY <1>3
  <2>2. /\ Threaded' /\ th'[t].pc = pc
        /\ th'[t].addr = rec.addr /\ th'[t].ok = rec.ok /\ th'[t].asked = rec.asked
        /\ \A u \in Threads \ {t} : th'[u] = th[u]
    BY <1>1, <2>1, Walked
  <2>3. FreshStep
    BY <2>1, <2>2 DEF FreshStep
  <2>4. \A u \in Threads : /\ th'[u].pc \in Trying <=> th[u].pc \in Trying
                           /\ th[u].pc \in Trying => th'[u].addr = th[u].addr
    BY <2>1, <2>2
  <2> QED
    BY <1>1, <2>2, <2>3, <2>4, CounterStays
<1> QED
  BY <1>2, <1>3

\* The same for a step that only moves the thread's request on.
LEMMA GoesPlainly ==
    ASSUME IInv, NEW t \in Threads, th[t].pc # "idle", UNCHANGED clock,
           NEW pc \in Waits, Go(t, pc), pc \notin {"put", "mint"}, pc \in Trying <=> th[t].pc \in Trying
    PROVE  Threaded' /\ FreshStep /\ (UNCHANGED inflight => Counter')
<1>1. th[t] \in Request /\ GoAs(t, th[t], pc)
  BY GoIsGoAs, Reading, ClockIsNat DEF IInv
<1> QED
  BY <1>1, GoesOn

LEMMA PassesWindow ==
    ASSUME IInv, NEW t \in Threads, th[t].pc \in {"auth_window", "api_window"},
           NEW s \in Stores, NEW k \in Keys, NEW pc \in Waits, pc \notin Trying,
           CheckWindow(t, s, k, Go(t, pc))
    PROVE  IInv' /\ FreshStep
<1>1. /\ Checks(s, k, th[t].now) /\ (Go(t, pc) \/ End(t))
      /\ UNCHANGED <<mode, clock, inflight, sessions, decisions, flights, login, jar,
                     lastToken, requests>>
  BY DEF CheckWindow, Checks
<1>2. th[t].pc # "idle" /\ th[t].pc \notin Trying /\ pc \notin {"put", "mint"}
  BY DEF Trying
<1>3. /\ Base /\ clock \in Nat /\ lastToken \in Nat /\ jar \in [Browsers -> Nat]
      /\ flights \subseteq Browsers \X Addrs /\ Threaded /\ Tables /\ Windows
  BY ClockIsNat DEF IInv
<1>4. th[t].now \in Nat /\ th[t].now <= clock /\ clock <= th[t].now + Stall
  BY <1>2, <1>3, Reading
<1>5. Windows'
  BY <1>1, <1>3, <1>4, ChecksKeepWindows
<1>6. Threaded' /\ FreshStep /\ Counter'
  <2>1. CASE Go(t, pc)
    BY <1>1, <1>2, <2>1, GoesPlainly
  <2>2. CASE End(t)
    BY <1>1, <1>2, <2>2, GoesOn
  <2> QED
    BY <1>1, <2>1, <2>2
<1>7. Tables'
  BY <1>1, <1>3, TablesStay
<1>8. Base'
  BY <1>1, <1>3, BaseStays DEF Others
<1> QED
  BY <1>5, <1>6, <1>7, <1>8 DEF IInv

LEMMA AuthWindowStep ==
    ASSUME IInv, NEW t \in Threads, AuthWindow(t)
    PROVE  IInv' /\ FreshStep
<1>1. th[t].pc = "auth_window" /\ CheckWindow(t, "auth", th[t].addr, Go(t, "acquire"))
  BY DEF AuthWindow, At
<1>2. "auth" \in Stores /\ "acquire" \in Waits /\ "acquire" \notin Trying
  BY DEF Stores, Waits, Trying
<1>3. th[t].addr \in Keys
  BY <1>1, Reading, ClockIsNat DEF IInv, Keys
<1> QED
  BY <1>1, <1>2, <1>3, PassesWindow

LEMMA ApiWindowStep ==
    ASSUME IInv, NEW t \in Threads, ApiWindow(t)
    PROVE  IInv' /\ FreshStep
<1> DEFINE k == IF th[t].ok THEN th[t].browser ELSE th[t].addr
           pc == Route(th[t].kind)
<1>1. th[t].pc = "api_window" /\ CheckWindow(t, "api", k, Go(t, pc))
  BY DEF ApiWindow, At
<1>2. "api" \in Stores /\ pc \in Waits /\ pc \notin Trying
  BY DEF Stores, Waits, Trying, Route
<1>3. k \in Keys
  BY <1>1, Reading, ClockIsNat DEF IInv, Keys
<1> HIDE DEF k, pc
<1> QED
  BY <1>1, <1>2, <1>3, PassesWindow

LEMMA AcquireStep ==
    ASSUME IInv, NEW t \in Threads, Acquire(t)
    PROVE  IInv' /\ FreshStep
<1> DEFINE a == th[t].addr
           pc == IF th[t].kind = "exchange" THEN "probe" ELSE "authenticate"
<1>1. /\ th[t].pc = "acquire"
      /\ UNCHANGED <<mode, clock, window, sessions, decisions, flights, login, jar, lastToken,
                     requests, admitted>>
      /\ \/ End(t) /\ UNCHANGED inflight
         \/ /\ inflight' = [x \in DOMAIN inflight \cup {a} |-> IF x = a THEN Held(a) + 1 ELSE inflight[x]]
            /\ Go(t, pc)
  BY DEF Acquire, At
<1>2. /\ Base /\ clock \in Nat /\ lastToken \in Nat /\ jar \in [Browsers -> Nat] /\ Counter
      /\ flights \subseteq Browsers \X Addrs /\ Threaded /\ Tables /\ Windows
  BY ClockIsNat DEF IInv
<1>3. th[t].pc # "idle" /\ th[t].pc \notin Trying
  BY <1>1 DEF Trying
<1>4. th[t] \in Request /\ a \in Addrs /\ th[t].browser \in Browsers
  BY <1>2, <1>3, Reading
<1>5. Threaded' /\ FreshStep /\ Counter'
  <2>1. CASE End(t) /\ UNCHANGED inflight
    BY <1>1, <1>3, <2>1, GoesOn
  <2>2. CASE /\ inflight' = [x \in DOMAIN inflight \cup {a} |-> IF x = a THEN Held(a) + 1 ELSE inflight[x]]
             /\ Go(t, pc)
    <3>1. GoAs(t, th[t], pc) /\ pc \in Waits /\ pc \in Trying /\ pc \notin {"put", "mint"}
      BY <1>2, <2>2, GoIsGoAs DEF Waits, Trying
    <3> HIDE DEF pc
    <3>2. /\ Threaded' /\ th'[t].pc = pc
          /\ th'[t].addr = th[t].addr /\ th'[t].ok = th[t].ok
          /\ \A u \in Threads \ {t} : th'[u] = th[u]
      BY <1>1, <1>2, <1>4, <3>1, Walked
    <3>3. FreshStep
      BY <3>2 DEF FreshStep
    <3>4. Counter'
      <4>1. a = th[t].addr
        OBVIOUS
      <4> HIDE DEF a
      <4> QED
        BY <1>2, <1>3, <1>4, <2>2, <3>1, <3>2, <4>1, CounterMoves
    <3> QED
      BY <3>2, <3>3, <3>4
  <2> QED
    BY <1>1, <2>1, <2>2
<1>6. Tables' /\ Windows' /\ Base'
  BY <1>1, <1>2, TablesStay, WindowsStay, BaseStays DEF Others
<1> QED
  BY <1>5, <1>6 DEF IInv

LEMMA ReleaseStep ==
    ASSUME IInv, NEW t \in Threads, Release(t)
    PROVE  IInv' /\ FreshStep
<1> DEFINE a == th[t].addr
           pc == IF th[t].kind = "observe" THEN "served" ELSE "api_window"
<1>1. /\ th[t].pc = "release" /\ inflight' = Released(a)
      /\ UNCHANGED <<mode, clock, window, sessions, decisions, flights, login, lastToken,
                     requests, admitted>>
      /\ End(t) \/ Go(t, pc)
      /\ UNCHANGED jar \/ SetCookie(th[t])
  BY DEF Release, At
<1>2. /\ Base /\ clock \in Nat /\ lastToken \in Nat /\ jar \in [Browsers -> Nat] /\ Counter
      /\ flights \subseteq Browsers \X Addrs /\ Threaded /\ Tables /\ Windows
  BY ClockIsNat DEF IInv
<1>3. th[t].pc # "idle" /\ th[t].pc \in Trying
  BY <1>1 DEF Trying
<1>4. th[t] \in Request /\ a \in Addrs /\ th[t].browser \in Browsers /\ th[t].cookie \in Nat
  BY <1>2, <1>3, Reading, Fields
<1>5. pc \in Waits /\ pc \notin Trying /\ pc \notin {"put", "mint"} /\ "idle" \notin Trying
  BY DEF Waits, Trying
<1> HIDE DEF pc
<1>6. /\ Threaded' /\ th'[t].pc \notin Trying /\ (th'[t].ok => th[t].ok)
      /\ \A u \in Threads \ {t} : th'[u] = th[u]
  <2>1. CASE End(t)
    BY <1>1, <1>2, <1>5, <2>1, Ended
  <2>2. CASE Go(t, pc)
    <3>1. GoAs(t, th[t], pc)
      BY <1>2, <2>2, GoIsGoAs
    <3> QED
      BY <1>1, <1>2, <1>4, <1>5, <3>1, Walked
  <2> QED
    BY <1>1, <2>1, <2>2
<1>7. FreshStep
  BY <1>6 DEF FreshStep
<1>8. Counter'
  <2>1. a = th[t].addr
    OBVIOUS
  <2> HIDE DEF a
  <2> QED
    BY <1>1, <1>2, <1>3, <1>4, <1>6, <2>1, CounterMoves
<1>9. jar' \in [Browsers -> Nat]
  BY <1>1, <1>2, <1>4 DEF SetCookie
<1>10. Tables' /\ Windows' /\ Base'
  BY <1>1, <1>2, <1>9, TablesStay, WindowsStay, BaseStays DEF Others
<1> QED
  BY <1>6, <1>7, <1>8, <1>10 DEF IInv
\* What every step that leaves the windows alone needs.
LEMMA Facts ==
    ASSUME IInv
    PROVE  /\ Base /\ clock \in Nat /\ lastToken \in Nat /\ jar \in [Browsers -> Nat] /\ Counter
           /\ flights \subseteq Browsers \X Addrs /\ Threaded /\ Tables /\ Windows
           /\ sessions \in Seq(FreshEntry) /\ decisions \in Seq(FreshVerdict)
           /\ TTL \in Nat /\ Stall \in Nat
BY ClockIsNat, Constants DEF IInv, Tables

LEMMA ServeStep ==
    ASSUME IInv, NEW t \in Threads, Serve(t)
    PROVE  IInv' /\ FreshStep
<1>1. /\ th[t].pc = "served" /\ End(t)
      /\ UNCHANGED <<mode, clock, window, inflight, sessions, decisions, flights, login, jar,
                     lastToken, requests, admitted>>
  BY DEF Serve, At
<1>2. th[t].pc # "idle" /\ th[t].pc \notin Trying
  BY <1>1 DEF Trying
<1>3. Threaded' /\ FreshStep /\ Counter'
  BY <1>1, <1>2, GoesOn
<1>4. Tables' /\ Windows' /\ Base'
  BY <1>1, Facts, TablesStay, WindowsStay, BaseStays DEF Others
<1> QED
  BY <1>3, <1>4 DEF IInv

\* A reading of the clock that is late by Stall, below an expiry that is
\* late by Stall.
LEMMA InTime ==
    ASSUME NEW n \in Nat, NEW old \in Nat, NEW expires \in Nat, clock \in Nat,
           n <= clock, clock <= n + Stall, expires > n, expires <= old + TTL + Stall
    PROVE  clock < old + TTL + 2 * Stall
<1>1. TTL \in Nat /\ Stall \in Nat /\ 2 * Stall = Stall + Stall
  BY Constants
<1>2. clock < expires + Stall
  BY <1>1
<1> QED
  BY <1>1, <1>2

LEMMA AuthenticateStep ==
    ASSUME IInv, NEW t \in Threads, Authenticate(t)
    PROVE  IInv' /\ FreshStep
<1> DEFINE r == th[t]
           rec == [r EXCEPT !.ok = TRUE, !.asked = Session(r).asked]
<1>1. /\ th[t].pc = "authenticate" /\ sessions' = Touched(r)
      /\ IF Accepts(r) THEN GoAs(t, rec, "release") ELSE Go(t, "release")
      /\ UNCHANGED <<mode, clock, window, inflight, decisions, flights, login, jar, lastToken,
                     requests, admitted>>
  BY DEF Authenticate, At
<1>2. th[t].pc # "idle" /\ th[t].pc \in Trying /\ "release" \in Waits /\ "release" \in Trying
  BY <1>1 DEF Trying, Waits
<1>3. /\ r \in Request /\ r.browser \in Browsers /\ r.addr \in Addrs
      /\ r.now \in Nat /\ r.now <= clock /\ clock <= r.now + Stall
  BY <1>1, <1>2, Facts, Reading
<1>4. /\ Touched(r) \in Seq(FreshEntry)
      /\ Accepts(r) => /\ Session(r).expires > r.now
                       /\ Session(r).asked \in Nat /\ Session(r).expires \in Nat
                       /\ Session(r).expires <= Session(r).asked + TTL
  BY Facts, TouchedFresh
<1>5. Threaded' /\ FreshStep /\ Counter'
  <2>1. CASE Accepts(r)
    <3>1. /\ rec \in Request /\ rec.browser = r.browser /\ rec.addr = r.addr
          /\ rec.asked = Session(r).asked
      BY <1>3, <1>4, <2>1 DEF Request
    <3>2. clock < rec.asked + TTL + 2 * Stall
      <4>1. Session(r).expires <= Session(r).asked + TTL + Stall
        BY <1>4, <2>1, Constants
      <4> HIDE DEF r, rec
      <4>2. clock < Session(r).asked + TTL + 2 * Stall
        BY <1>3, <1>4, <2>1, <4>1, ClockIsNat, InTime DEF IInv
      <4> QED
        BY <3>1, <4>2
    <3> HIDE DEF rec
    <3>3. GoAs(t, rec, "release")
      BY <1>1, <2>1
    <3> QED
      BY <1>1, <1>2, <3>1, <3>2, <3>3, GoesOn
  <2>2. CASE ~Accepts(r)
    BY <1>1, <1>2, <2>2, GoesPlainly
  <2> QED
    BY <2>1, <2>2
<1>6. Tables'
  BY <1>1, <1>4, Facts DEF Tables, FreshEntry, FreshVerdict
<1>7. Windows' /\ Base'
  BY <1>1, Facts, WindowsStay, BaseStays DEF Others
<1> QED
  BY <1>5, <1>6, <1>7 DEF IInv

LEMMA ReauthenticateStep ==
    ASSUME IInv, NEW t \in Threads, Reauthenticate(t)
    PROVE  IInv' /\ FreshStep
<1>1. /\ th[t].pc = "reauthenticate" /\ sessions' = Touched(th[t])
      /\ Go(t, "remove") \/ End(t)
      /\ UNCHANGED <<mode, clock, window, inflight, decisions, flights, login, jar, lastToken,
                     requests, admitted>>
  BY DEF Reauthenticate, At
<1>2. th[t].pc # "idle" /\ th[t].pc \notin Trying /\ "remove" \in Waits /\ "remove" \notin Trying
  BY <1>1 DEF Trying, Waits
<1>3. Threaded' /\ FreshStep /\ Counter'
  <2>1. CASE Go(t, "remove")
    BY <1>1, <1>2, <2>1, GoesPlainly
  <2>2. CASE End(t)
    BY <1>1, <1>2, <2>2, GoesOn
  <2> QED
    BY <1>1, <2>1, <2>2
<1>4. Touched(th[t]) \in Seq(FreshEntry)
  BY Facts, TouchedFresh
<1>5. Tables'
  BY <1>1, <1>4, Facts DEF Tables, FreshEntry, FreshVerdict
<1>6. Windows' /\ Base'
  BY <1>1, Facts, WindowsStay, BaseStays DEF Others
<1> QED
  BY <1>3, <1>5, <1>6 DEF IInv

LEMMA RemoveTokenStep ==
    ASSUME IInv, NEW t \in Threads, RemoveToken(t)
    PROVE  IInv' /\ FreshStep
<1>1. /\ th[t].pc = "remove" /\ sessions' = Without(sessions, th[t].cookie)
      /\ End(t) /\ jar' = [jar EXCEPT ![th[t].browser] = 0]
      /\ UNCHANGED <<mode, clock, window, inflight, decisions, flights, login, lastToken,
                     requests, admitted>>
  BY DEF RemoveToken, At
<1>2. th[t].pc # "idle" /\ th[t].pc \notin Trying
  BY <1>1 DEF Trying
<1>3. Threaded' /\ FreshStep /\ Counter'
  BY <1>1, <1>2, GoesOn
<1>4. Without(sessions, th[t].cookie) \in Seq(FreshEntry)
  BY Facts, TableFacts
<1>5. Tables'
  BY <1>1, <1>4, Facts DEF Tables, FreshEntry, FreshVerdict
<1>6. jar' \in [Browsers -> Nat]
  BY <1>1, Facts
<1>7. Windows' /\ Base'
  BY <1>1, <1>6, Facts, WindowsStay, BaseStays DEF Others
<1> QED
  BY <1>3, <1>5, <1>7 DEF IInv

LEMMA ProbeReaderStep ==
    ASSUME IInv, NEW t \in Threads, ProbeReader(t)
    PROVE  IInv' /\ FreshStep
<1> DEFINE rec == [th[t] EXCEPT !.asked = clock]
<1>1. /\ th[t].pc = "probe"
      /\ GoAs(t, rec, "mint") \/ GoAs(t, rec, "release")
      /\ UNCHANGED <<mode, clock, window, inflight, sessions, decisions, flights, login, jar,
                     lastToken, requests, admitted>>
  BY DEF ProbeReader, At
<1>2. /\ th[t].pc # "idle" /\ th[t].pc \in Trying
      /\ \A pc \in {"mint", "release"} : pc \in Waits /\ pc \in Trying
  BY <1>1 DEF Trying, Waits
<1>3. th[t] \in Request
  BY <1>2, Facts, Reading
<1>4. /\ rec \in Request /\ rec.browser = th[t].browser /\ rec.addr = th[t].addr
      /\ rec.asked = clock /\ rec.ok = th[t].ok
  BY <1>3, Facts DEF Request
<1> HIDE DEF rec
<1>5. Threaded' /\ FreshStep /\ Counter'
  <2>1. CASE GoAs(t, rec, "mint")
    BY <1>1, <1>2, <1>4, <2>1, GoesOn
  <2>2. CASE GoAs(t, rec, "release")
    BY <1>1, <1>2, <1>4, <2>2, GoesOn
  <2> QED
    BY <1>1, <2>1, <2>2
<1>6. Tables' /\ Windows' /\ Base'
  BY <1>1, Facts, TablesStay, WindowsStay, BaseStays DEF Others
<1> QED
  BY <1>5, <1>6 DEF IInv

LEMMA MintStep ==
    ASSUME IInv, NEW t \in Threads, Mint(t)
    PROVE  IInv' /\ FreshStep
<1> DEFINE r     == th[t]
           fresh == [key |-> lastToken + 1, browser |-> r.browser, addr |-> r.addr,
                     expires |-> r.now + TTL, asked |-> r.asked]
           all   == Append(Without(sessions, r.cookie), fresh)
           keep  == {i \in DOMAIN all : all[i].expires > r.now}
           rec   == [r EXCEPT !.ok = TRUE, !.cookie = lastToken + 1]
<1>1. /\ th[t].pc = "mint" /\ lastToken' = lastToken + 1
      /\ sessions' = Trimmed(Picked(all, keep))
      /\ GoAs(t, rec, "release")
      /\ UNCHANGED <<mode, clock, window, inflight, decisions, flights, login, jar, requests, admitted>>
  BY DEF Mint, At
<1>2. th[t].pc # "idle" /\ th[t].pc \in Trying /\ "release" \in Waits /\ "release" \in Trying
  BY <1>1 DEF Trying, Waits
<1>3. /\ r \in Request /\ r.browser \in Browsers /\ r.addr \in Addrs /\ r.asked \in Nat
      /\ r.now \in Nat /\ r.now <= clock /\ clock <= r.now + Stall /\ r.now = r.since
  BY <1>1, <1>2, Facts, Reading
<1>4. r.asked = r.now
  BY <1>1, <1>3, Facts DEF Threaded, Answered, At
<1>5. sessions' \in Seq(FreshEntry)
  <2>1. fresh \in FreshEntry
    BY <1>3, <1>4, Facts DEF FreshEntry, Entry
  <2> HIDE DEF fresh
  <2>2. Without(sessions, r.cookie) \in Seq(FreshEntry)
    BY Facts, TableFacts
  <2>3. all \in Seq(FreshEntry)
    BY <2>1, <2>2
  <2> HIDE DEF all
  <2>4. Picked(all, keep) \in Seq(FreshEntry)
    <3>1. keep \in SUBSET DOMAIN all
      OBVIOUS
    <3> QED
      BY <2>3, <3>1, PickedIsSeq
  <2> QED
    BY <1>1, <2>4, TableFacts
<1>6. /\ rec \in Request /\ rec.browser = r.browser /\ rec.addr = r.addr /\ rec.asked = r.asked
  <2>1. lastToken + 1 \in Nat
    BY Facts
  <2> QED
    BY <1>3, <2>1 DEF Request
<1>7. clock < rec.asked + TTL + 2 * Stall
  <2>1. /\ r.now + 1 \in Nat /\ r.now + 1 > r.now /\ r.now + 1 <= r.asked + TTL + Stall
    BY <1>3, <1>4, Constants
  <2> HIDE DEF r, rec
  <2>2. clock < r.asked + TTL + 2 * Stall
    BY <1>3, <2>1, ClockIsNat, InTime DEF IInv
  <2> QED
    BY <1>6, <2>2
<1> HIDE DEF rec
<1>8. Threaded' /\ FreshStep /\ Counter'
  BY <1>1, <1>2, <1>6, <1>7, GoesOn
<1>9. Tables'
  BY <1>1, <1>5, Facts DEF Tables, FreshEntry, FreshVerdict
<1>10. Windows' /\ Base'
  <2>1. lastToken' \in Nat
    BY <1>1, Facts
  <2> QED
    BY <1>1, <2>1, Facts, WindowsStay, BaseStays DEF Others
<1> QED
  BY <1>8, <1>9, <1>10 DEF IInv
LEMMA CacheGetStep ==
    ASSUME IInv, NEW t \in Threads, CacheGet(t)
    PROVE  IInv' /\ FreshStep
<1> DEFINE r   == th[t]
           e   == Of(decisions, Decision(r))
           rec == [r EXCEPT !.ok = e.valid, !.asked = e.asked]
<1>1. /\ th[t].pc = "authenticate"
      /\ \/ /\ Hit(r) /\ decisions' = Append(Without(decisions, e.key), e)
            /\ GoAs(t, rec, "release")
         \/ decisions' = Without(decisions, Decision(r)) /\ Go(t, "fly")
      /\ UNCHANGED <<mode, clock, window, inflight, sessions, flights, login, jar, lastToken,
                     requests, admitted>>
  BY DEF CacheGet, At
<1>2. /\ th[t].pc # "idle" /\ th[t].pc \in Trying
      /\ \A pc \in {"fly", "release"} : pc \in Waits /\ pc \in Trying
  BY <1>1 DEF Trying, Waits
<1>3. /\ r \in Request /\ r.browser \in Browsers /\ r.addr \in Addrs
      /\ r.now \in Nat /\ r.now <= clock /\ clock <= r.now + Stall
  BY <1>1, <1>2, Facts, Reading
<1>4. Hit(r) => e \in FreshVerdict /\ e.expires > r.now
  BY Facts, TableFacts DEF Hit
<1>5. \A key : Without(decisions, key) \in Seq(FreshVerdict)
  BY Facts, TableFacts
<1>6. decisions' \in Seq(FreshVerdict)
  <2>1. Hit(r) => Append(Without(decisions, e.key), e) \in Seq(FreshVerdict)
    <3> HIDE DEF e
    <3> QED
      BY <1>4, <1>5
  <2> HIDE DEF e
  <2> QED
    BY <1>1, <1>5, <2>1
<1>7. Threaded' /\ FreshStep /\ Counter'
  <2>1. CASE Hit(r) /\ GoAs(t, rec, "release")
    <3>1. /\ e.asked \in Nat /\ e.expires \in Nat /\ e.valid \in BOOLEAN
          /\ e.expires <= e.asked + TTL + Stall /\ e.expires > r.now
      BY <1>4, <2>1 DEF FreshVerdict, Verdict
    <3> HIDE DEF e
    <3>2. /\ rec \in Request /\ rec.browser = r.browser /\ rec.addr = r.addr
          /\ rec.asked = e.asked
      BY <1>3, <3>1 DEF Request
    <3>3. clock < rec.asked + TTL + 2 * Stall
      <4> HIDE DEF r, rec
      <4>1. clock < e.asked + TTL + 2 * Stall
        BY <1>3, <3>1, ClockIsNat, InTime DEF IInv
      <4> QED
        BY <3>2, <4>1
    <3> HIDE DEF rec
    <3> QED
      BY <1>1, <1>2, <2>1, <3>2, <3>3, GoesOn
  <2>2. CASE Go(t, "fly")
    BY <1>1, <1>2, <2>2, GoesPlainly
  <2> QED
    BY <1>1, <2>1, <2>2
<1>8. Tables'
  BY <1>1, <1>6, Facts DEF Tables, FreshEntry, FreshVerdict
<1>9. Windows' /\ Base'
  BY <1>1, Facts, WindowsStay, BaseStays DEF Others
<1> QED
  BY <1>7, <1>8, <1>9 DEF IInv

LEMMA FlyStep ==
    ASSUME IInv, NEW t \in Threads, Fly(t)
    PROVE  IInv' /\ FreshStep
<1> DEFINE k == Decision(th[t])
<1>1. /\ th[t].pc = "fly"
      /\ \E pc \in {"wait", "release", "probe"} : Go(t, pc)
      /\ flights' = flights \/ flights' = flights \cup {k}
      /\ UNCHANGED <<mode, clock, window, inflight, sessions, decisions, login, jar, lastToken,
                     requests, admitted>>
  BY DEF Fly, At
<1>2. /\ th[t].pc # "idle" /\ th[t].pc \in Trying
      /\ \A pc \in {"wait", "release", "probe"} : pc \in Waits /\ pc \in Trying /\ pc \notin {"put", "mint"}
  BY <1>1 DEF Trying, Waits
<1>3. Threaded' /\ FreshStep /\ Counter'
  <2>1. PICK pc \in {"wait", "release", "probe"} : Go(t, pc)
    BY <1>1
  <2> QED
    BY <1>1, <1>2, <2>1, GoesPlainly
<1>4. k \in Browsers \X Addrs
  BY <1>2, Facts, Reading DEF Decision
<1>5. flights' \subseteq Browsers \X Addrs
  <2> HIDE DEF k
  <2> QED
    BY <1>1, <1>4, Facts
<1>6. Tables' /\ Windows' /\ Base'
  BY <1>1, <1>5, Facts, TablesStay, WindowsStay, BaseStays DEF Others
<1> QED
  BY <1>3, <1>6 DEF IInv

\* The leader answers every follower of its probe in one step.
LEMMA ProbeCwaStep ==
    ASSUME IInv, NEW t \in Threads, ProbeCwa(t)
    PROVE  IInv' /\ FreshStep
<1> DEFINE told(u) == u = t \/ Waiting(u, Decision(th[t]))
           next(answer) == IF answer = None THEN "release" ELSE "put"
           new(u, answer) == [th[u] EXCEPT !.pc = next(answer), !.valid = answer, !.asked = clock,
                                           !.now = clock, !.since = clock]
<1>1. /\ th[t].pc = "probe" /\ flights' = flights \ {Decision(th[t])}
      /\ UNCHANGED <<mode, clock, window, inflight, sessions, decisions, login, jar, lastToken,
                     requests, admitted>>
  BY DEF ProbeCwa, At
<1>2. PICK answer \in BOOLEAN \cup {None} :
        th' = [u \in Threads |-> IF told(u) THEN new(u, answer) ELSE th[u]]
  <2>1. \A b : (b \in login) \in BOOLEAN
    OBVIOUS
  <2> QED
    BY <2>1 DEF ProbeCwa
<1>3. \A u \in Threads : told(u) => /\ th[u].pc \in {"probe", "wait"} /\ th[u].pc # "idle"
                                    /\ th[u].pc \in Trying /\ th[u] \in Request
                                    /\ th[u].browser \in Browsers /\ th[u].addr \in Addrs
  <2>1. \A u \in Threads : told(u) => th[u].pc \in {"probe", "wait"}
    BY <1>1 DEF Waiting, At
  <2>2. \A u \in Threads : told(u) => th[u].pc # "idle" /\ th[u].pc \in Trying
    BY <2>1 DEF Trying
  <2> HIDE DEF told
  <2>3. \A u \in Threads : th[u].pc # "idle" =>
          th[u] \in Request /\ th[u].browser \in Browsers /\ th[u].addr \in Addrs
    BY Facts DEF Threaded, Named, At
  <2> QED
    BY <2>1, <2>2, <2>3
<1>4. /\ next(answer) \in Waits /\ next(answer) \in Trying /\ next(answer) # "idle"
      /\ next(answer) \notin {"mint", "probe", "wait"}
      /\ next(answer) = "put" => answer \in BOOLEAN
  BY DEF Waits, Trying
<1> HIDE DEF told, next
<1>5. ASSUME NEW u \in Threads, told(u)
      PROVE  /\ new(u, answer) \in Request /\ new(u, answer).pc = next(answer)
             /\ new(u, answer).now = clock /\ new(u, answer).since = clock
             /\ new(u, answer).asked = clock /\ new(u, answer).valid = answer
             /\ new(u, answer).ok = th[u].ok
             /\ new(u, answer).browser = th[u].browser /\ new(u, answer).addr = th[u].addr
  <2>1. th[u] \in Request /\ clock \in Nat /\ next(answer) \in Waits
    BY <1>3, <1>4, <1>5, Facts
  <2> QED
    BY <2>1 DEF Request
<1> HIDE DEF new
<1>6. \A u \in Threads : th'[u] = IF told(u) THEN new(u, answer) ELSE th[u]
  BY <1>2
<1>7. Threaded'
  <2>1. th' \in [Threads -> Request]
    <3>1. \A u \in Threads : th[u] \in Request
      BY Facts DEF Threaded
    <3> QED
      BY <1>2, <1>5, <3>1
  <2>2. Named'
    <3>1. \A u \in Threads : th'[u].pc # "idle" => th'[u].browser \in Browsers /\ th'[u].addr \in Addrs
      BY <1>3, <1>5, <1>6, Facts DEF Threaded, Named, At
    <3> QED
      BY <3>1 DEF Named, At
  <2>3. Clocks'
    <3>1. \A u \in Threads : ~told(u) /\ th[u].pc # "idle" =>
            th[u].now = th[u].since /\ th[u].since <= clock /\ clock <= th[u].since + Patience(u)
      BY Facts DEF Threaded, Clocks, At
    <3>2. \A u \in Threads : /\ ~told(u) => Patience(u)' = Patience(u)
                             /\ Patience(u)' \in Nat
      BY <1>6, Constants DEF Patience
    <3>3. clock <= clock /\ \A n \in Nat : clock <= clock + n
      BY Facts
    <3>4. \A u \in Threads : th'[u].pc # "idle" =>
            th'[u].now = th'[u].since /\ th'[u].since <= clock' /\ clock' <= th'[u].since + Patience(u)'
      BY <1>1, <1>5, <1>6, <3>1, <3>2, <3>3
    <3> QED
      BY <3>4 DEF Clocks, At
  <2>4. Answered'
    <3>1. \A u \in Threads : ~told(u) =>
            /\ th[u].pc = "mint" => th[u].asked = th[u].since
            /\ th[u].pc = "put" => th[u].asked = th[u].since /\ th[u].valid \in BOOLEAN
      BY Facts DEF Threaded, Answered, At
    <3>2. \A u \in Threads : /\ th'[u].pc = "mint" => th'[u].asked = th'[u].since
                             /\ th'[u].pc = "put" => th'[u].asked = th'[u].since /\ th'[u].valid \in BOOLEAN
      BY <1>4, <1>5, <1>6, <3>1
    <3> QED
      BY <3>2 DEF Answered, At
  <2> QED
    BY <2>1, <2>2, <2>3, <2>4 DEF Threaded
<1>8. FreshStep
  <2>1. \A u \in Threads : th'[u].ok = th[u].ok
    BY <1>5, <1>6
  <2> QED
    BY <2>1 DEF FreshStep
<1>9. Counter'
  <2>1. \A u \in Threads : /\ th'[u].pc \in Trying <=> th[u].pc \in Trying
                           /\ th[u].pc \in Trying => th'[u].addr = th[u].addr
    BY <1>3, <1>4, <1>5, <1>6
  <2> QED
    BY <1>1, <2>1, Facts, CounterStays
<1>10. Tables' /\ Windows' /\ Base'
  BY <1>1, Facts, TablesStay, WindowsStay, BaseStays DEF Others
<1> QED
  BY <1>7, <1>8, <1>9, <1>10 DEF IInv

LEMMA WaitTimeoutStep ==
    ASSUME IInv, NEW t \in Threads, WaitTimeout(t)
    PROVE  IInv' /\ FreshStep
<1>1. /\ th[t].pc = "wait" /\ Go(t, "release")
      /\ UNCHANGED <<mode, clock, window, inflight, sessions, decisions, flights, login, jar,
                     lastToken, requests, admitted>>
  BY DEF WaitTimeout, At
<1>2. th[t].pc # "idle" /\ th[t].pc \in Trying /\ "release" \in Waits /\ "release" \in Trying
  BY <1>1 DEF Trying, Waits
<1>3. Threaded' /\ FreshStep /\ Counter'
  BY <1>1, <1>2, GoesPlainly
<1>4. Tables' /\ Windows' /\ Base'
  BY <1>1, Facts, TablesStay, WindowsStay, BaseStays DEF Others
<1> QED
  BY <1>3, <1>4 DEF IInv

LEMMA CachePutStep ==
    ASSUME IInv, NEW t \in Threads, CachePut(t)
    PROVE  IInv' /\ FreshStep
<1> DEFINE r   == th[t]
           e   == [key |-> Decision(r), expires |-> clock + TTL, valid |-> r.valid, asked |-> r.asked]
           rec == [r EXCEPT !.ok = r.valid]
<1>1. /\ th[t].pc = "put" /\ decisions' = Trimmed(Append(Without(decisions, Decision(r)), e))
      /\ GoAs(t, rec, "release")
      /\ UNCHANGED <<mode, clock, window, inflight, sessions, flights, login, jar, lastToken,
                     requests, admitted>>
  BY DEF CachePut, At
<1>2. th[t].pc # "idle" /\ th[t].pc \in Trying /\ "release" \in Waits /\ "release" \in Trying
  BY <1>1 DEF Trying, Waits
<1>3. /\ r \in Request /\ r.browser \in Browsers /\ r.addr \in Addrs /\ r.asked \in Nat
      /\ r.now \in Nat /\ r.now <= clock /\ clock <= r.now + Stall /\ r.now = r.since
  BY <1>1, <1>2, Facts, Reading
<1>4. r.asked = r.now /\ r.valid \in BOOLEAN
  BY <1>1, <1>3, Facts DEF Threaded, Answered, At
<1>5. decisions' \in Seq(FreshVerdict)
  <2>0. clock \in Nat /\ TTL \in Nat /\ Stall \in Nat
    BY Facts
  <2>1. Decision(r) \in Browsers \X Addrs /\ clock + TTL \in Nat /\ clock + TTL <= r.asked + TTL + Stall
    BY <1>3, <1>4, <2>0 DEF Decision
  <2>2. e \in FreshVerdict
    BY <1>3, <1>4, <2>1 DEF FreshVerdict, Verdict
  <2> HIDE DEF e
  <2>3. Append(Without(decisions, Decision(r)), e) \in Seq(FreshVerdict)
    BY <2>2, Facts, TableFacts
  <2> QED
    BY <1>1, <2>3, TableFacts
<1>6. rec \in Request /\ rec.browser = r.browser /\ rec.addr = r.addr /\ rec.asked = r.asked
  BY <1>3, <1>4 DEF Request
<1>7. clock < rec.asked + TTL + 2 * Stall
  <2>1. /\ r.now + 1 \in Nat /\ r.now + 1 > r.now /\ r.now + 1 <= r.asked + TTL + Stall
    BY <1>3, <1>4, Constants
  <2> HIDE DEF r, rec
  <2>2. clock < r.asked + TTL + 2 * Stall
    BY <1>3, <2>1, ClockIsNat, InTime DEF IInv
  <2> QED
    BY <1>6, <2>2
<1> HIDE DEF rec
<1>8. Threaded' /\ FreshStep /\ Counter'
  BY <1>1, <1>2, <1>6, <1>7, GoesOn
<1>9. Tables'
  BY <1>1, <1>5, Facts DEF Tables, FreshEntry, FreshVerdict
<1>10. Windows' /\ Base'
  BY <1>1, Facts, WindowsStay, BaseStays DEF Others
<1> QED
  BY <1>8, <1>9, <1>10 DEF IInv
LEMMA ArriveStep ==
    ASSUME IInv, NEW t \in Threads, NEW b \in Browsers, NEW a \in Addrs, NEW kind \in Kinds,
           Arrive(t, b, a, kind)
    PROVE  IInv' /\ FreshStep
<1> DEFINE rec == [Idle EXCEPT !.kind = kind, !.browser = b, !.addr = a, !.cookie = jar[b]]
           pc  == IF kind = "exchange" THEN "api_window" ELSE "auth_window"
<1>1. /\ th[t].pc = "idle" /\ GoAs(t, rec, pc)
      /\ requests' = requests + 1 /\ requests < MaxRequests
      /\ UNCHANGED <<mode, clock, window, inflight, sessions, decisions, flights, login, jar,
                     lastToken, admitted>>
  BY DEF Arrive, At
<1>2. pc \in Waits /\ pc \notin Trying /\ "idle" \notin Trying /\ pc \notin {"put", "mint"}
  BY DEF Waits, Trying
<1>3. rec \in Request /\ rec.browser = b /\ rec.addr = a /\ rec.ok = FALSE
  <2>1. jar[b] \in Nat
    BY Facts
  <2> QED
    BY <2>1 DEF Idle, Request, Waits
<1> HIDE DEF rec, pc
<1>4. /\ Threaded' /\ th'[t].pc = pc /\ th'[t].ok = FALSE
      /\ \A u \in Threads \ {t} : th'[u] = th[u]
  BY <1>1, <1>2, <1>3, Facts, Walked
<1>5. FreshStep
  BY <1>4 DEF FreshStep
<1>6. Counter'
  <2>1. \A u \in Threads : /\ th'[u].pc \in Trying <=> th[u].pc \in Trying
                           /\ th[u].pc \in Trying => th'[u].addr = th[u].addr
    BY <1>1, <1>2, <1>4
  <2> QED
    BY <1>1, <2>1, Facts, CounterStays
<1>7. Tables' /\ Windows'
  BY <1>1, Facts, TablesStay, WindowsStay
<1>8. Base'
  <2>1. requests \in Nat /\ MaxRequests \in Nat /\ requests' \in 0 .. MaxRequests
    BY <1>1, Facts, Constants DEF Base
  <2> QED
    BY <1>1, <2>1, Facts DEF Base
<1> QED
  BY <1>4, <1>5, <1>6, <1>7, <1>8 DEF IInv

\* Steps that no thread takes.
LEMMA ThreadsStay ==
    ASSUME IInv, UNCHANGED <<th, clock, inflight>>
    PROVE  Threaded' /\ FreshStep /\ Counter'
<1>1. Threaded'
  BY Facts DEF Threaded, Named, Clocks, Patience, Answered, At
<1>2. FreshStep
  BY DEF FreshStep
<1>3. Counter'
  BY Facts, CounterStays
<1> QED
  BY <1>1, <1>2, <1>3

LEMMA SweepStep ==
    ASSUME IInv, Sweep
    PROVE  IInv' /\ FreshStep
<1>1. UNCHANGED <<mode, clock, inflight, sessions, decisions, flights, login, jar, th,
                  lastToken, requests, admitted>>
  BY DEF Sweep
<1>2. Threaded' /\ FreshStep /\ Counter'
  BY <1>1, ThreadsStay
<1>3. Windows'
  BY Facts, SweepKeepsWindows
<1>4. Tables' /\ Base'
  BY <1>1, Facts, TablesStay, BaseStays DEF Others
<1> QED
  BY <1>2, <1>3, <1>4 DEF IInv

LEMMA LogoutStep ==
    ASSUME IInv, NEW b \in Browsers, Logout(b)
    PROVE  IInv' /\ FreshStep
<1>1. /\ login' = login \ {b}
      /\ UNCHANGED <<mode, clock, window, inflight, sessions, decisions, flights, jar, th,
                     lastToken, requests, admitted>>
  BY DEF Logout
<1>2. Threaded' /\ FreshStep /\ Counter'
  BY <1>1, ThreadsStay
<1>3. Tables' /\ Windows'
  BY <1>1, Facts, TablesStay, WindowsStay
<1>4. Base'
  BY <1>1, Facts DEF Base
<1> QED
  BY <1>2, <1>3, <1>4 DEF IInv

\* Time waits for a thread that has been patient long enough.
LEMMA TickStep ==
    ASSUME IInv, Tick
    PROVE  IInv' /\ FreshStep
<1>1. /\ clock < MaxTime /\ clock' = clock + 1
      /\ \A t \in Threads : th[t].pc = "idle" \/ clock < th[t].since + Patience(t)
      /\ UNCHANGED <<mode, window, inflight, sessions, decisions, flights, login, jar, th,
                     lastToken, requests>>
  BY DEF Tick, At
<1>2. Clocks'
  <2>1. \A t \in Threads : th[t].pc # "idle" =>
          th[t].now = th[t].since /\ th[t].since <= clock /\ th[t].since \in Nat
    BY Facts, Fields DEF Threaded, Clocks, At
  <2>2. \A t \in Threads : Patience(t)' = Patience(t) /\ Patience(t) \in Nat
    BY <1>1, Constants DEF Patience
  <2>3. \A t \in Threads : th[t].pc # "idle" =>
          th[t].since <= clock + 1 /\ clock + 1 <= th[t].since + Patience(t)
    BY <1>1, <2>1, <2>2, Facts
  <2>4. \A t \in Threads : th'[t].pc # "idle" =>
          th'[t].now = th'[t].since /\ th'[t].since <= clock' /\ clock' <= th'[t].since + Patience(t)'
    BY <1>1, <2>1, <2>2, <2>3
  <2> QED
    BY <2>4 DEF Clocks, At
<1>3. Threaded'
  <2>1. Named' /\ Answered' /\ th' \in [Threads -> Request]
    BY <1>1, Facts DEF Threaded, Named, Answered, At
  <2> QED
    BY <1>2, <2>1 DEF Threaded
<1>4. FreshStep
  BY <1>1 DEF FreshStep
<1>5. Counter'
  BY <1>1, Facts, CounterStays
<1>6. Windows'
  BY Facts, TickKeepsWindows
<1>7. Tables'
  BY <1>1, Facts, TablesStay
<1>8. Base'
  <2>1. clock' \in 0 .. MaxTime
    BY <1>1, Facts, Constants
  <2> QED
    BY <1>1, <2>1, Facts DEF Base
<1> QED
  BY <1>3, <1>4, <1>5, <1>6, <1>7, <1>8 DEF IInv

LEMMA StutterStep ==
    ASSUME IInv, UNCHANGED vars
    PROVE  IInv' /\ FreshStep
<1>1. UNCHANGED <<mode, clock, window, inflight, sessions, decisions, flights, login, jar, th,
                  lastToken, requests, admitted>>
  BY DEF vars
<1>2. Threaded' /\ FreshStep /\ Counter'
  BY <1>1, ThreadsStay
<1>3. Tables' /\ Windows' /\ Base'
  BY <1>1, Facts, TablesStay, WindowsStay, BaseStays DEF Others
<1> QED
  BY <1>2, <1>3 DEF IInv

LEMMA NextInv == IInv /\ [Next]_vars => IInv' /\ FreshStep
<1> SUFFICES ASSUME IInv, [Next]_vars PROVE IInv' /\ FreshStep
  OBVIOUS
<1>1. CASE \E t \in Threads : Step(t)
  <2>1. PICK t \in Threads : Step(t)
    BY <1>1
  <2> QED
    BY <2>1, AuthWindowStep, AcquireStep, ReleaseStep, ApiWindowStep, ServeStep,
       AuthenticateStep, ReauthenticateStep, RemoveTokenStep, MintStep, ProbeReaderStep,
       CacheGetStep, FlyStep, ProbeCwaStep, WaitTimeoutStep, CachePutStep DEF Step
<1>2. CASE \E t \in Threads, b \in Browsers, a \in Addrs, kind \in Kinds : Arrive(t, b, a, kind)
  BY <1>2, ArriveStep
<1>3. CASE Sweep
  BY <1>3, SweepStep
<1>4. CASE Tick
  BY <1>4, TickStep
<1>5. CASE \E b \in Browsers : Logout(b)
  BY <1>5, LogoutStep
<1>6. CASE UNCHANGED vars
  BY <1>6, StutterStep
<1> QED
  BY <1>1, <1>2, <1>3, <1>4, <1>5, <1>6 DEF Next

LEMMA InitInv == Init => IInv
<1> SUFFICES ASSUME Init PROVE IInv
  OBVIOUS
<1>1. Base
  BY Constants DEF Init, Base
<1>2. Threaded
  <2>1. th \in [Threads -> Request] /\ \A t \in Threads : th[t] = Idle
    BY IdleIsRequest DEF Init
  <2>2. Idle.pc = "idle"
    BY DEF Idle
  <2> QED
    BY <2>1, <2>2 DEF Threaded, Named, Clocks, Answered, At
<1>3. Counter
  <2>1. DOMAIN inflight = {}
    BY DEF Init
  <2>2. \A a : Tries(a) = {}
    BY DEF Init, Idle, Trying, Tries
  <2>3. \A a : Held(a) = 0
    BY <2>1 DEF Held
  <2>4. \A a : Held(a) = Cardinality(Tries(a))
    BY <2>2, <2>3, FS_EmptySet
  <2> QED
    BY <2>1, <2>4, TriesFacts
<1>4. Tables
  BY DEF Init, Tables
<1>5. Windows
  <2>1. DOMAIN Empty = {}
    BY DEF Empty
  <2>2. /\ DOMAIN window = Stores /\ \A s \in Stores : DOMAIN window[s] = {}
        /\ admitted = [s \in Stores |-> [k \in Keys |-> {}]]
        /\ \A s \in Stores, k \in Keys : admitted[s][k] = {}
    BY <2>1 DEF Init
  <2>3. WindowTypes /\ AdmittedTypes
    BY <2>2 DEF WindowTypes, AdmittedTypes
  <2>4. Stamped
    BY <2>2, FS_EmptySet DEF Stamped
  <2>5. \A s \in Stores, k \in Keys : \A c : Cardinality({x \in admitted[s][k] : x[1] >= c}) = 0
    <3>1. \A s \in Stores, k \in Keys : \A c : {x \in admitted[s][k] : x[1] >= c} = {}
      BY <2>2
    <3> QED
      BY <3>1, FS_EmptySet
  <2>6. \A s \in Stores, k \in Keys, c \in Nat : Since(Bucket(window[s], k), c) = 0
    BY <2>2, NoneCount DEF Bucket
  <2>7. Vouched
    BY <2>5, <2>6 DEF Vouched
  <2>8. WindowRespected
    BY <2>2 DEF WindowRespected
  <2> QED
    BY <2>3, <2>4, <2>7, <2>8 DEF Windows
<1> QED
  BY <1>1, <1>2, <1>3, <1>4, <1>5 DEF IInv

LEMMA IInvHolds == Spec => []IInv
BY InitInv, NextInv, PTL DEF Spec

-----------------------------------------------------------------------------

\* Every variable keeps its type; in particular a request that is being
\* handled has a browser and an address, and no counter of the store of
\* attempts is ever 0.
THEOREM TypeCorrect == Spec => []TypeOK
<1>1. IInv => TypeOK
  <2> SUFFICES ASSUME IInv PROVE TypeOK
    OBVIOUS
  <2>1. Base /\ Threaded /\ Counter /\ Tables /\ WindowTypes
    BY DEF IInv, Windows
  <2>2. sessions \in Seq(Entry) /\ decisions \in Seq(Verdict)
    <3>1. FreshEntry \subseteq Entry /\ FreshVerdict \subseteq Verdict
      BY DEF FreshEntry, FreshVerdict
    <3>2. \A S, T : S \subseteq T => \A q \in Seq(S) : q \in Seq(T)
      OBVIOUS
    <3> QED
      BY <2>1, <3>1, <3>2 DEF Tables
  <2> QED
    BY <2>1, <2>2 DEF TypeOK, Base, Threaded, Named, Counter, WindowTypes
<1> QED
  BY <1>1, IInvHolds, PTL

\* However _check_window_rate_limit reclaims buckets, the hourly thread
\* sweeps them and threads append their readings of the clock out of order,
\* no client is let in beyond the limit of a window.
THEOREM LimitsHold == Spec => []WindowRespected
<1>1. IInv => WindowRespected
  BY DEF IInv, Windows
<1> QED
  BY <1>1, IInvHolds, PTL

\* On every path out of an attempt its address is released, once: the
\* counter of _auth_inflight_store is the number of attempts under way.
THEOREM CountersAreExact == Spec => []InflightExact
<1>1. IInv => InflightExact
  BY DEF IInv, Counter
<1> QED
  BY <1>1, IInvHolds, PTL

\* Nobody is authenticated on an answer of the reader older than the
\* lifetime of an entry and two delays, whichever of the two modes runs and
\* however late a follower stores the shared answer.
THEOREM AuthenticationIsFresh == Spec => AuthIsFresh
<1>1. IInv /\ [Next]_vars =>
        [\A t \in Threads : th'[t].ok /\ ~th[t].ok => clock < th'[t].asked + TTL + 2 * Stall]_vars
  BY NextInv DEF FreshStep
<1> QED
  BY <1>1, IInvHolds, PTL DEF Spec, AuthIsFresh

-----------------------------------------------------------------------------
(* The reader: its state.                                                   *)

Variables == {"mode", "route", "prefetchEnabled", "lang", "policy", "generation", "timer",
              "lastFirst", "translated", "failed", "limited", "visible", "prefetch", "pump",
              "rateLimited", "gap", "firstDone", "inflight", "isTranslating", "requests",
              "answers", "shown"}
Shaped(c) == DOMAIN c = Variables

\* An item of this generation is in its language, and none is of a later one.
Fits(c, i) == i \in Item /\ i.gen <= c.generation /\ (i.gen = c.generation => i.lang = c.lang)
Queued(c, q) == q \in Seq(Item) /\ \A k \in DOMAIN q : Fits(c, q[k])

\* A request carries items of one generation, in the language of its body
\* when that generation is the present one.
Posted(c, r) == /\ r \in ReaderRequest /\ r.items # << >>
                /\ \A j \in DOMAIN r.items : Fits(c, r.items[j]) /\ r.items[j].gen = r.items[1].gen
                /\ r.items[1].gen = c.generation => r.lang = c.lang

Texts(c) == /\ c.translated \in [Hash -> Langs \cup {Null, Partial}]
            /\ \A h \in Hash : c.translated[h] \in {Null, h[2], Partial}

Good(c) == /\ Shaped(c) /\ c.generation \in Nat /\ c.lang \in Langs /\ Texts(c)
           /\ Queued(c, c.visible) /\ Queued(c, c.prefetch)
           /\ c.requests \in Seq(ReaderRequest)
           /\ \A k \in DOMAIN c.requests : Posted(c, c.requests[k])

NoBatch(c) == \A k \in DOMAIN c.requests : c.requests[k].kind \in Rush
OneBatch(c) == \E k \in DOMAIN c.requests :
                 /\ c.requests[k].kind \notin Rush
                 /\ \A j \in DOMAIN c.requests : c.requests[j].kind \notin Rush => j = k
Pumping(c) == IF c.pump = "post" THEN OneBatch(c) ELSE NoBatch(c)

Quiet(c) == ~Running(c) => c.visible = << >> /\ c.prefetch = << >>

\* What the API may still answer to an older generation is aborted.
AbortedIfOld(c, r) ==
    r.stage \in {"sent", "refresh"} /\ r.items[1].gen < c.generation => r.aborted
OldAborted(c) == \A k \in DOMAIN c.requests : AbortedIfOld(c, c.requests[k])

\* What a handler does within a generation.
Carries(c, d) ==
    /\ d.generation = c.generation /\ d.lang = c.lang /\ d.mode = c.mode /\ d.route = c.route
    /\ c.failed \subseteq d.failed
    /\ (Quiet(c) => Quiet(d)) /\ (OldAborted(c) => OldAborted(d))

-----------------------------------------------------------------------------
(* The reader: lists and items.                                             *)

LEMMA RemovedFacts ==
    ASSUME NEW S, NEW list \in Seq(S), NEW k \in DOMAIN list
    PROVE  /\ Removed(list, k) \in Seq(S) /\ DOMAIN Removed(list, k) = 1 .. Len(list) - 1
           /\ \A i \in DOMAIN Removed(list, k) :
                /\ (IF i < k THEN i ELSE i + 1) \in DOMAIN list
                /\ Removed(list, k)[i] = list[IF i < k THEN i ELSE i + 1]
<1>1. k \in 1 .. Len(list) /\ Len(list) \in Nat
  OBVIOUS
<1> DEFINE a == SubSeq(list, 1, k - 1)
           b == SubSeq(list, k + 1, Len(list))
<1>2. a \in Seq(S) /\ Len(a) = k - 1 /\ \A i \in 1 .. k - 1 : a[i] = list[i]
  BY <1>1
<1>3. b \in Seq(S) /\ Len(b) = Len(list) - k /\ \A i \in 1 .. Len(list) - k : b[i] = list[k + i]
  BY <1>1
<1>4. Removed(list, k) = a \o b
  BY DEF Removed
<1> HIDE DEF a, b
<1>5. a \o b \in Seq(S) /\ DOMAIN (a \o b) = 1 .. Len(list) - 1
  BY <1>1, <1>2, <1>3
<1>6. ASSUME NEW i \in 1 .. Len(list) - 1
      PROVE  /\ (IF i < k THEN i ELSE i + 1) \in DOMAIN list
             /\ (a \o b)[i] = list[IF i < k THEN i ELSE i + 1]
  BY <1>1, <1>2, <1>3
<1> QED
  BY <1>4, <1>5, <1>6

\* Items of the present generation and language.
Recent(c, q) == q \in Seq(Item) /\ \A k \in DOMAIN q : q[k].gen = c.generation /\ q[k].lang = c.lang

LEMMA RecentFits ==
    ASSUME NEW c, c.generation \in Nat, NEW q, Recent(c, q) PROVE Queued(c, q)
<1>1. q \in Seq(Item) /\ \A k \in DOMAIN q : q[k] \in Item /\ q[k].gen = c.generation /\ q[k].lang = c.lang
  BY DEF Recent
<1> QED
  BY <1>1 DEF Queued, Fits

LEMMA Parts ==
    ASSUME NEW c, NEW q, Recent(c, q), NEW n \in Nat \ {0}
    PROVE  /\ Recent(c, Take(q, n)) /\ Recent(c, Drop(q, n))
           /\ q # << >> => Take(q, n) # << >> /\ 1 \in DOMAIN Take(q, n)
<1>1. q \in Seq(Item) /\ Len(q) \in Nat
  BY DEF Recent
<1>2. Take(q, n) \in Seq(Item) /\ \A k \in DOMAIN Take(q, n) : k \in DOMAIN q /\ Take(q, n)[k] = q[k]
  BY <1>1 DEF Take
<1>3. Drop(q, n) \in Seq(Item) /\ \A k \in DOMAIN Drop(q, n) : k + n \in DOMAIN q /\ Drop(q, n)[k] = q[k + n]
  BY <1>1 DEF Drop
<1>4. q # << >> => Len(Take(q, n)) # 0 /\ Len(Take(q, n)) \in Nat
  BY <1>1 DEF Take
<1>5. Recent(c, Take(q, n))
  BY <1>2 DEF Recent
<1>6. Recent(c, Drop(q, n))
  BY <1>3 DEF Recent
<1>7. q # << >> => Take(q, n) # << >> /\ 1 \in DOMAIN Take(q, n)
  BY <1>2, <1>4
<1> QED
  BY <1>5, <1>6, <1>7

LEMMA EmptyFits == \A c : Recent(c, << >>) /\ Queued(c, << >>)
BY DEF Recent, Queued

LEMMA FreshIsRecent ==
    ASSUME NEW c, NEW q, Queued(c, q), NEW seen
    PROVE  Recent(c, Fresh(c, q, seen))
<1> DEFINE wanted(i) == i.gen = c.generation /\ c.translated[Key(i)] = Null /\ Key(i) \notin seen
           keep == {k \in DOMAIN q : /\ wanted(q[k])
                                     /\ \A j \in 1 .. k - 1 : wanted(q[j]) => Key(q[j]) # Key(q[k])}
<1>1. Fresh(c, q, seen) = Picked(q, keep)
  BY DEF Fresh
<1>2. q \in Seq(Item) /\ keep \in SUBSET DOMAIN q
  BY DEF Queued
<1>3. \A p \in keep : q[p].gen = c.generation /\ q[p].lang = c.lang
  BY DEF Queued, Fits
<1> HIDE DEF keep
<1>4. /\ Picked(q, keep) \in Seq(Item)
      /\ \A i \in DOMAIN Picked(q, keep) : \E p \in keep : Picked(q, keep)[i] = q[p]
  BY <1>2, PickedIsSeq
<1> QED
  BY <1>1, <1>3, <1>4 DEF Recent

LEMMA CollectedIsRecent ==
    ASSUME NEW c, c.generation \in Nat, c.lang \in Langs, NEW ps \in Seq(Paragraphs)
    PROVE  Recent(c, CollectUncached(c, ps))
<1> DEFINE keep == {k \in DOMAIN ps : /\ c.translated[<< ps[k], c.lang >>] = Null
                                      /\ << ps[k], c.lang >> \notin c.failed}
           us == Picked(ps, keep)
           out == [k \in DOMAIN us |-> [p |-> us[k], lang |-> c.lang, gen |-> c.generation]]
<1>1. CollectUncached(c, ps) = out
  BY DEF CollectUncached
<1>2. keep \in SUBSET DOMAIN ps
  OBVIOUS
<1> HIDE DEF keep
<1>3. us \in Seq(Paragraphs)
  BY <1>2, PickedIsSeq
<1> HIDE DEF us
<1>4. Len(us) \in Nat /\ DOMAIN us = 1 .. Len(us) /\ \A k \in DOMAIN us : us[k] \in Paragraphs
  BY <1>3
<1>5. \A k \in DOMAIN us : out[k] \in Item /\ out[k].gen = c.generation /\ out[k].lang = c.lang
  BY <1>4 DEF Item
<1>6. out \in Seq(Item) /\ DOMAIN out = DOMAIN us
  BY <1>4, <1>5
<1> HIDE DEF out
<1> QED
  BY <1>1, <1>5, <1>6 DEF Recent

LEMMA Sections ==
    /\ Chapter \in Seq(Paragraphs)
    /\ \A g \in Pages : SubSeq(Chapter, FirstOn[g], LastOn[g]) \in Seq(Paragraphs)
    /\ \A g \in Pages : Lookahead(g) \in Seq(Paragraphs)
<1>1. Chapter \in Seq(Paragraphs) /\ Len(Chapter) \in Nat
  BY ClientAssumption DEF Paragraphs
<1>2. ASSUME NEW g \in Pages
      PROVE  FirstOn[g] \in 1 .. Len(Chapter) /\ LastOn[g] \in 1 .. Len(Chapter)
  BY <1>1, ClientAssumption
<1>3. ASSUME NEW m \in Nat, NEW n \in Int, 1 <= m, n <= Len(Chapter)
      PROVE  SubSeq(Chapter, m, n) \in Seq(Paragraphs)
  BY <1>1, <1>3
<1>4. ASSUME NEW g \in Pages PROVE SubSeq(Chapter, FirstOn[g], LastOn[g]) \in Seq(Paragraphs)
  <2>1. FirstOn[g] \in Nat /\ 1 <= FirstOn[g] /\ LastOn[g] \in Int /\ LastOn[g] <= Len(Chapter)
    BY <1>1, <1>2
  <2> QED
    BY <1>3, <2>1
<1>5. ASSUME NEW g \in Pages PROVE Lookahead(g) \in Seq(Paragraphs)
  <2>1. LastOn[g] + 1 \in Nat /\ 1 <= LastOn[g] + 1 /\ Len(Chapter) \in Int /\ Len(Chapter) <= Len(Chapter)
    BY <1>1, <1>2
  <2>2. 1 \in Nat /\ 1 <= 1 /\ FirstOn[g] - 1 \in Int /\ FirstOn[g] - 1 <= Len(Chapter)
    BY <1>1, <1>2
  <2>3. SubSeq(Chapter, LastOn[g] + 1, Len(Chapter)) \in Seq(Paragraphs)
    BY <1>3, <2>1
  <2>4. SubSeq(Chapter, 1, FirstOn[g] - 1) \in Seq(Paragraphs)
    BY <1>3, <2>2
  <2> QED
    BY <2>3, <2>4 DEF Lookahead
<1> QED
  BY <1>1, <1>4, <1>5

LEMMA KeyIsHash == ASSUME NEW i \in Item PROVE Key(i) \in Hash /\ Key(i)[2] = i.lang
BY DEF Key, Item, Hash

-----------------------------------------------------------------------------
(* The reader: what a handler may make of the state.                        *)

LEMMA SameGeneration ==
    ASSUME NEW c, NEW d, d.generation = c.generation, d.lang = c.lang
    PROVE  /\ \A q : Queued(c, q) <=> Queued(d, q)
           /\ \A r : Posted(c, r) <=> Posted(d, r)
           /\ \A r : AbortedIfOld(c, r) <=> AbortedIfOld(d, r)
<1>1. \A i : Fits(c, i) <=> Fits(d, i)
  BY DEF Fits
<1> QED
  BY <1>1 DEF Queued, Posted, AbortedIfOld

\* Other queues, texts and failures.
LEMMA OtherQueues ==
    ASSUME NEW c, NEW d, Good(c), Shaped(d), Texts(d), d.requests = c.requests,
           d.generation = c.generation, d.lang = c.lang, d.mode = c.mode, d.route = c.route,
           c.failed \subseteq d.failed, Queued(c, d.visible), Queued(c, d.prefetch),
           Quiet(c) => Quiet(d)
    PROVE  Good(d) /\ Carries(c, d) /\ (NoBatch(c) <=> NoBatch(d)) /\ (OneBatch(c) <=> OneBatch(d))
<1>1. Good(d)
  BY SameGeneration DEF Good
<1>2. OldAborted(c) => OldAborted(d)
  BY SameGeneration DEF OldAborted
<1> QED
  BY <1>1, <1>2 DEF Carries, NoBatch, OneBatch

LEMMA NewRequestFields ==
    ASSUME NEW c, c.generation \in Nat, c.lang \in Langs,
           NEW kind \in {"stream", "single", "visible", "prefetch"},
           NEW items, Recent(c, items), items # << >>, NEW r, r = NewRequest(c, kind, items)
    PROVE  Posted(c, r) /\ AbortedIfOld(c, r) /\ r.kind = kind
<1>1. Queued(c, items) /\ items \in Seq(Item) /\ 1 \in DOMAIN items
  <2>1. items \in Seq(Item)
    BY DEF Recent
  <2> QED
    BY <2>1, RecentFits
<1>2. \A j \in DOMAIN items : Fits(c, items[j]) /\ items[j].gen = c.generation
  BY <1>1 DEF Recent, Queued
<1>3. /\ r.kind = kind /\ r.items = items /\ r.stage \in {"policy", "sent"}
      /\ r.lang = c.lang /\ r.aborted = FALSE /\ r.replay = "no"
  BY DEF NewRequest
<1>4. r \in ReaderRequest
  BY <1>1 DEF NewRequest, ReaderRequest
<1>5. Posted(c, r)
  BY <1>1, <1>2, <1>3, <1>4 DEF Posted
<1>6. AbortedIfOld(c, r)
  BY <1>1, <1>2, <1>3 DEF AbortedIfOld
<1> QED
  BY <1>3, <1>5, <1>6

\* New requests are made.
Adds(c, d, rs) ==
    /\ Good(c) /\ Shaped(d) /\ d.translated = c.translated /\ d.generation = c.generation
    /\ d.lang = c.lang /\ d.mode = c.mode /\ d.route = c.route /\ d.failed = c.failed
    /\ Queued(c, d.visible) /\ Queued(c, d.prefetch) /\ Running(c)
    /\ rs \in Seq(ReaderRequest) /\ d.requests = c.requests \o rs
    /\ \A k \in DOMAIN rs : Posted(c, rs[k]) /\ AbortedIfOld(c, rs[k])

LEMMA MoreRequests ==
    ASSUME NEW c, NEW d, NEW rs, Adds(c, d, rs)
    PROVE  /\ Good(d) /\ Carries(c, d)
           /\ DOMAIN d.requests = 1 .. Len(c.requests) + Len(rs)
           /\ \A k \in 1 .. Len(c.requests) : d.requests[k] = c.requests[k]
           /\ \A k \in 1 .. Len(rs) : d.requests[Len(c.requests) + k] = rs[k]
<1> USE DEF Adds
<1>1. c.requests \in Seq(ReaderRequest) /\ Len(c.requests) \in Nat /\ Len(rs) \in Nat
  BY DEF Good
<1>2. /\ d.requests \in Seq(ReaderRequest)
      /\ DOMAIN d.requests = 1 .. Len(c.requests) + Len(rs)
      /\ \A k \in 1 .. Len(c.requests) : d.requests[k] = c.requests[k]
      /\ \A k \in 1 .. Len(rs) : d.requests[Len(c.requests) + k] = rs[k]
  BY <1>1
<1>3. \A k \in DOMAIN d.requests :
        \/ k \in DOMAIN c.requests /\ d.requests[k] = c.requests[k]
        \/ \E j \in DOMAIN rs : d.requests[k] = rs[j]
  <2>1. ASSUME NEW k \in DOMAIN d.requests, k \notin 1 .. Len(c.requests)
        PROVE  \E j \in DOMAIN rs : d.requests[k] = rs[j]
    <3>1. k - Len(c.requests) \in 1 .. Len(rs) /\ Len(c.requests) + (k - Len(c.requests)) = k
      BY <1>1, <1>2, <2>1
    <3> QED
      BY <1>2, <3>1
  <2> QED
    BY <1>1, <1>2, <2>1
<1>4. \A k \in DOMAIN d.requests : Posted(d, d.requests[k])
  BY <1>3, SameGeneration DEF Good
<1>5. OldAborted(c) => OldAborted(d)
  BY <1>3, SameGeneration DEF OldAborted
<1>6. Good(d)
  BY <1>2, <1>4, SameGeneration DEF Good, Texts
<1>7. Quiet(d)
  BY DEF Quiet, Running
<1> QED
  BY <1>2, <1>5, <1>6, <1>7 DEF Carries

\* The pump makes one batch.
LEMMA BatchGoes ==
    ASSUME NEW c, NEW d, Good(c), Shaped(d), d.translated = c.translated,
           d.generation = c.generation, d.lang = c.lang, d.mode = c.mode, d.route = c.route,
           c.failed = d.failed, Queued(c, d.visible), Queued(c, d.prefetch), Running(c),
           NoBatch(c), NEW kind \in {"visible", "prefetch"}, NEW items, Recent(c, items),
           items # << >>, d.requests = Append(c.requests, NewRequest(c, kind, items))
    PROVE  Good(d) /\ Carries(c, d) /\ OneBatch(d)
<1> DEFINE r == NewRequest(c, kind, items)
<1>1. /\ c.generation \in Nat /\ c.lang \in Langs /\ c.requests \in Seq(ReaderRequest)
      /\ Len(c.requests) \in Nat /\ DOMAIN c.requests = 1 .. Len(c.requests)
  BY DEF Good
<1>2. Posted(c, r) /\ AbortedIfOld(c, r) /\ r.kind = kind
  BY <1>1, NewRequestFields
<1>3. r \in ReaderRequest
  BY <1>2 DEF Posted
<1> HIDE DEF r
<1>4. << r >> \in Seq(ReaderRequest) /\ Len(<< r >>) = 1 /\ DOMAIN << r >> = 1 .. 1 /\ << r >>[1] = r
  BY <1>3
<1>5. d.requests = c.requests \o << r >>
  BY <1>1, <1>3 DEF r
<1>6. \A k \in DOMAIN << r >> : Posted(c, << r >>[k]) /\ AbortedIfOld(c, << r >>[k])
  BY <1>2, <1>4
<1>7. /\ Good(d) /\ Carries(c, d)
      /\ DOMAIN d.requests = 1 .. Len(c.requests) + Len(<< r >>)
      /\ \A k \in 1 .. Len(c.requests) : d.requests[k] = c.requests[k]
      /\ \A k \in 1 .. Len(<< r >>) : d.requests[Len(c.requests) + k] = << r >>[k]
  <2> DEFINE rs == << r >>
  <2>1. rs \in Seq(ReaderRequest) /\ d.requests = c.requests \o rs
    BY <1>4, <1>5
  <2>2. \A k \in DOMAIN rs : Posted(c, rs[k]) /\ AbortedIfOld(c, rs[k])
    BY <1>6
  <2>4. Adds(c, d, rs)
    BY <2>1, <2>2 DEF Adds
  <2> HIDE DEF rs
  <2>3. /\ Good(d) /\ Carries(c, d)
        /\ DOMAIN d.requests = 1 .. Len(c.requests) + Len(rs)
        /\ \A k \in 1 .. Len(c.requests) : d.requests[k] = c.requests[k]
        /\ \A k \in 1 .. Len(rs) : d.requests[Len(c.requests) + k] = rs[k]
    BY <2>4, MoreRequests
  <2> QED
    BY <2>3 DEF rs
<1>8. \A k \in 1 .. Len(c.requests) : d.requests[k].kind \in Rush
  BY <1>1, <1>7 DEF NoBatch
<1>9. DOMAIN d.requests = 1 .. Len(c.requests) + 1 /\ d.requests[Len(c.requests) + 1] = r
  BY <1>4, <1>7
<1>10. r.kind \notin Rush
  BY <1>2 DEF Rush
<1>11. OneBatch(d)
  <2>1. Len(c.requests) + 1 \in DOMAIN d.requests
    BY <1>1, <1>9
  <2>2. \A j \in DOMAIN d.requests : j # Len(c.requests) + 1 => j \in 1 .. Len(c.requests)
    BY <1>1, <1>9
  <2> QED
    BY <1>8, <1>9, <1>10, <2>1, <2>2 DEF OneBatch
<1> QED
  BY <1>7, <1>11

-----------------------------------------------------------------------------
(* The reader: the pump.                                                    *)

LEMMA PumpStopsFields ==
    ASSUME NEW c, Shaped(c), NEW d, d = PumpStops(c)
    PROVE  /\ Shaped(d) /\ d.pump = "idle" /\ d.visible = c.visible /\ d.prefetch = c.prefetch
           /\ d.requests = c.requests /\ d.generation = c.generation /\ d.lang = c.lang
           /\ d.mode = c.mode /\ d.route = c.route /\ d.failed = c.failed /\ d.translated = c.translated
BY DEF PumpStops, Shaped, Variables

\* The pass of the loop, with its filtered queues v and f, in the state e that
\* holds them.
BatchSent(c, v, f, n, e, kind, items) ==
    [e EXCEPT !.pump = "post", !.requests = Append(@, NewRequest(c, kind, items)),
              !.gap = PrefetchGap, !.inflight = Len(items), !.isTranslating = kind = "visible",
              !.visible = IF kind = "visible" THEN Drop(v, n) ELSE v,
              !.prefetch = IF kind = "prefetch" THEN Drop(f, n) ELSE f]
Pass(c, v, f, n, e) ==
    IF ~Running(c) THEN PumpStops(c)
    ELSE IF c.rateLimited THEN [c EXCEPT !.pump = "limited"]
    ELSE IF v # << >> THEN BatchSent(c, v, f, n, e, "visible", Take(v, n))
    ELSE IF f = << >> THEN PumpStops(e)
    ELSE IF c.gap THEN [e EXCEPT !.pump = "gap"]
    ELSE BatchSent(c, v, f, n, e, "prefetch", Take(f, n))
Filtered(c, v, f, e) ==
    /\ Recent(c, v) /\ Recent(c, f)
    /\ Shaped(e) /\ e.visible = v /\ e.prefetch = f /\ e.requests = c.requests
    /\ e.generation = c.generation /\ e.lang = c.lang /\ e.mode = c.mode /\ e.route = c.route
    /\ e.failed = c.failed /\ e.translated = c.translated

LEMMA PumpIsPass ==
    ASSUME NEW c, Good(c)
    PROVE  \E v, f, n, e : Filtered(c, v, f, e) /\ n \in Nat \ {0} /\ Pump(c) = Pass(c, v, f, n, e)
<1> DEFINE v == Fresh(c, c.visible, {})
           f == IF c.prefetchEnabled THEN Fresh(c, c.prefetch, {Key(v[k]) : k \in DOMAIN v}) ELSE << >>
           n == IF v # << >> /\ ~c.firstDone THEN 1 ELSE VisibleChunk
           e == [c EXCEPT !.visible = v, !.prefetch = f]
<1>1. Recent(c, v)
  BY FreshIsRecent DEF Good
<1>2. Recent(c, f)
  <2>1. \A seen : Recent(c, Fresh(c, c.prefetch, seen))
    BY FreshIsRecent DEF Good
  <2> QED
    BY <2>1, EmptyFits
<1>3. n \in Nat \ {0}
  BY ClientAssumption
<1>4. Pump(c) = Pass(c, v, f, n, e)
  BY Zenon DEF Pump, Pass, BatchSent
<1> HIDE DEF v, f, n
<1>5. Filtered(c, v, f, e)
  BY <1>1, <1>2 DEF Good, Shaped, Variables, Filtered
<1> HIDE DEF e
<1> QED
  BY <1>3, <1>4, <1>5

LEMMA VisibleSent ==
    ASSUME NEW c, NEW v, NEW f, NEW n, NEW e, Shaped(e), NEW items,
           NEW d, d = BatchSent(c, v, f, n, e, "visible", items)
    PROVE  /\ Shaped(d) /\ d.pump = "post"
           /\ d.requests = Append(e.requests, NewRequest(c, "visible", items))
           /\ d.visible = Drop(v, n) /\ d.prefetch = f
           /\ d.generation = e.generation /\ d.lang = e.lang /\ d.mode = e.mode /\ d.route = e.route
           /\ d.failed = e.failed /\ d.translated = e.translated
BY DEF BatchSent, Shaped, Variables

LEMMA PrefetchSent ==
    ASSUME NEW c, NEW v, NEW f, NEW n, NEW e, Shaped(e), NEW items,
           NEW d, d = BatchSent(c, v, f, n, e, "prefetch", items)
    PROVE  /\ Shaped(d) /\ d.pump = "post"
           /\ d.requests = Append(e.requests, NewRequest(c, "prefetch", items))
           /\ d.visible = v /\ d.prefetch = Drop(f, n)
           /\ d.generation = e.generation /\ d.lang = e.lang /\ d.mode = e.mode /\ d.route = e.route
           /\ d.failed = e.failed /\ d.translated = e.translated
BY DEF BatchSent, Shaped, Variables

LEMMA PausedFields ==
    ASSUME NEW c, Shaped(c), NEW p, NEW d, d = [c EXCEPT !.pump = p]
    PROVE  /\ Shaped(d) /\ d.pump = p /\ d.visible = c.visible /\ d.prefetch = c.prefetch
           /\ d.requests = c.requests /\ d.generation = c.generation /\ d.lang = c.lang
           /\ d.mode = c.mode /\ d.route = c.route /\ d.failed = c.failed /\ d.translated = c.translated
BY DEF Shaped, Variables

\* A pass needs that no batch is out, and leaves one out only when it waits for it.
LEMMA PumpKeeps ==
    ASSUME NEW c, Good(c), NoBatch(c), NEW d, d = Pump(c)
    PROVE  Good(d) /\ Carries(c, d) /\ Pumping(d)
<1>1. PICK v, f, n, e : Filtered(c, v, f, e) /\ n \in Nat \ {0} /\ d = Pass(c, v, f, n, e)
  BY PumpIsPass
<1>2. Shaped(c) /\ Texts(c) /\ Queued(c, c.visible) /\ Queued(c, c.prefetch) /\ c.generation \in Nat
  BY DEF Good
<1>3. /\ Recent(c, v) /\ Recent(c, f) /\ Queued(c, v) /\ Queued(c, f)
      /\ Shaped(e) /\ e.visible = v /\ e.prefetch = f /\ e.requests = c.requests
      /\ e.generation = c.generation /\ e.lang = c.lang /\ e.mode = c.mode /\ e.route = c.route
      /\ e.failed = c.failed /\ e.translated = c.translated /\ n \in Nat \ {0}
  BY <1>1, <1>2, RecentFits DEF Filtered
<1>4. CASE ~Running(c)
  <2>1. d = PumpStops(c)
    BY <1>1, <1>4 DEF Pass
  <2>2. /\ Shaped(d) /\ d.pump = "idle" /\ d.visible = c.visible /\ d.prefetch = c.prefetch
        /\ d.requests = c.requests /\ d.generation = c.generation /\ d.lang = c.lang
        /\ d.mode = c.mode /\ d.route = c.route /\ d.failed = c.failed /\ d.translated = c.translated
    BY <1>2, <2>1, PumpStopsFields
  <2>3. Texts(d) /\ (Quiet(c) => Quiet(d))
    BY <1>2, <2>2 DEF Texts, Quiet, Running
  <2>4. Good(d) /\ Carries(c, d) /\ NoBatch(d)
    BY <1>2, <2>2, <2>3, OtherQueues
  <2> QED
    BY <2>2, <2>4 DEF Pumping
<1>5. CASE Running(c) /\ c.rateLimited
  <2>1. d = [c EXCEPT !.pump = "limited"]
    BY <1>1, <1>5 DEF Pass
  <2>2. /\ Shaped(d) /\ d.pump = "limited" /\ d.visible = c.visible /\ d.prefetch = c.prefetch
        /\ d.requests = c.requests /\ d.generation = c.generation /\ d.lang = c.lang
        /\ d.mode = c.mode /\ d.route = c.route /\ d.failed = c.failed /\ d.translated = c.translated
    BY <1>2, <2>1, PausedFields
  <2>3. Texts(d) /\ (Quiet(c) => Quiet(d))
    BY <1>2, <2>2 DEF Texts, Quiet, Running
  <2>4. Good(d) /\ Carries(c, d) /\ NoBatch(d)
    BY <1>2, <2>2, <2>3, OtherQueues
  <2> QED
    BY <2>2, <2>4 DEF Pumping
<1>6. CASE Running(c) /\ ~c.rateLimited /\ v # << >>
  <2>1. d = BatchSent(c, v, f, n, e, "visible", Take(v, n))
    BY <1>1, <1>6 DEF Pass
  <2>2. Recent(c, Take(v, n)) /\ Recent(c, Drop(v, n)) /\ Take(v, n) # << >>
    BY <1>3, <1>6, Parts
  <2>3. /\ Shaped(d) /\ d.pump = "post"
        /\ d.requests = Append(c.requests, NewRequest(c, "visible", Take(v, n)))
        /\ d.visible = Drop(v, n) /\ d.prefetch = f
        /\ d.generation = c.generation /\ d.lang = c.lang /\ d.mode = c.mode /\ d.route = c.route
        /\ d.failed = c.failed /\ d.translated = c.translated
    <3>1. /\ Shaped(d) /\ d.pump = "post"
          /\ d.requests = Append(e.requests, NewRequest(c, "visible", Take(v, n)))
          /\ d.visible = Drop(v, n) /\ d.prefetch = f
          /\ d.generation = e.generation /\ d.lang = e.lang /\ d.mode = e.mode /\ d.route = e.route
          /\ d.failed = e.failed /\ d.translated = e.translated
      <4>1. Shaped(e)
        BY <1>3
      <4> QED
        BY <2>1, <4>1, VisibleSent
    <3>2. e.requests = c.requests
      BY <1>3
    <3>3. d.requests = Append(c.requests, NewRequest(c, "visible", Take(v, n)))
      BY <3>1, <3>2, Zenon
    <3> QED
      BY <1>3, <3>1, <3>3, Zenon
  <2>4. Queued(c, d.visible) /\ Queued(c, d.prefetch)
    BY <1>2, <1>3, <2>2, <2>3, RecentFits
  <2>5. Good(d) /\ Carries(c, d) /\ OneBatch(d)
    BY <1>6, <2>2, <2>3, <2>4, BatchGoes
  <2> QED
    BY <2>3, <2>5 DEF Pumping
<1>7. CASE Running(c) /\ ~c.rateLimited /\ v = << >> /\ f = << >>
  <2>1. d = PumpStops(e)
    BY <1>1, <1>7 DEF Pass
  <2>2. /\ Shaped(d) /\ d.pump = "idle" /\ d.visible = v /\ d.prefetch = f
        /\ d.requests = c.requests /\ d.generation = c.generation /\ d.lang = c.lang
        /\ d.mode = c.mode /\ d.route = c.route /\ d.failed = c.failed /\ d.translated = c.translated
    BY <1>3, <2>1, PumpStopsFields
  <2>3. Texts(d) /\ Quiet(d)
    BY <1>2, <1>7, <2>2 DEF Texts, Quiet
  <2>4. Good(d) /\ Carries(c, d) /\ NoBatch(d)
    BY <1>3, <2>2, <2>3, OtherQueues
  <2> QED
    BY <2>2, <2>4 DEF Pumping
<1>8. CASE Running(c) /\ ~c.rateLimited /\ v = << >> /\ f # << >> /\ c.gap
  <2>1. d = [e EXCEPT !.pump = "gap"]
    BY <1>1, <1>8 DEF Pass
  <2>2. /\ Shaped(d) /\ d.pump = "gap" /\ d.visible = v /\ d.prefetch = f
        /\ d.requests = c.requests /\ d.generation = c.generation /\ d.lang = c.lang
        /\ d.mode = c.mode /\ d.route = c.route /\ d.failed = c.failed /\ d.translated = c.translated
    BY <1>3, <2>1, PausedFields
  <2>3. Texts(d) /\ Quiet(d)
    BY <1>2, <1>8, <2>2 DEF Texts, Quiet, Running
  <2>4. Good(d) /\ Carries(c, d) /\ NoBatch(d)
    BY <1>3, <2>2, <2>3, OtherQueues
  <2> QED
    BY <2>2, <2>4 DEF Pumping
<1>9. CASE Running(c) /\ ~c.rateLimited /\ v = << >> /\ f # << >> /\ ~c.gap
  <2>1. d = BatchSent(c, v, f, n, e, "prefetch", Take(f, n))
    BY <1>1, <1>9 DEF Pass
  <2>2. Recent(c, Take(f, n)) /\ Recent(c, Drop(f, n)) /\ Take(f, n) # << >>
    BY <1>3, <1>9, Parts
  <2>3. /\ Shaped(d) /\ d.pump = "post"
        /\ d.requests = Append(c.requests, NewRequest(c, "prefetch", Take(f, n)))
        /\ d.visible = v /\ d.prefetch = Drop(f, n)
        /\ d.generation = c.generation /\ d.lang = c.lang /\ d.mode = c.mode /\ d.route = c.route
        /\ d.failed = c.failed /\ d.translated = c.translated
    <3>1. /\ Shaped(d) /\ d.pump = "post"
          /\ d.requests = Append(e.requests, NewRequest(c, "prefetch", Take(f, n)))
          /\ d.visible = v /\ d.prefetch = Drop(f, n)
          /\ d.generation = e.generation /\ d.lang = e.lang /\ d.mode = e.mode /\ d.route = e.route
          /\ d.failed = e.failed /\ d.translated = e.translated
      <4>1. Shaped(e)
        BY <1>3
      <4> QED
        BY <2>1, <4>1, PrefetchSent
    <3>2. e.requests = c.requests
      BY <1>3
    <3>3. d.requests = Append(c.requests, NewRequest(c, "prefetch", Take(f, n)))
      BY <3>1, <3>2, Zenon
    <3> QED
      BY <1>3, <3>1, <3>3, Zenon
  <2>4. Queued(c, d.visible) /\ Queued(c, d.prefetch)
    BY <1>2, <1>3, <2>2, <2>3, RecentFits
  <2>5. Good(d) /\ Carries(c, d) /\ OneBatch(d)
    BY <1>9, <2>2, <2>3, <2>4, BatchGoes
  <2> QED
    BY <2>3, <2>5 DEF Pumping
<1> QED
  BY <1>4, <1>5, <1>6, <1>7, <1>8, <1>9

LEMMA PumpQueueKeeps ==
    ASSUME NEW c, Good(c), Pumping(c), NEW d, d = PumpQueue(c) \/ d = Wake(c)
    PROVE  Good(d) /\ Carries(c, d) /\ Pumping(d)
<1>1. CASE d = c
  BY <1>1 DEF Carries
<1>2. CASE c.pump \in {"idle", "gap"} /\ d = Pump(c)
  <2>1. NoBatch(c)
    BY <1>2 DEF Pumping
  <2> QED
    BY <1>2, <2>1, PumpKeeps
<1> QED
  BY <1>1, <1>2 DEF PumpQueue, Wake

-----------------------------------------------------------------------------
(* The reader: a new generation, and the page.                              *)

LEMMA CancelledFields ==
    ASSUME NEW r \in ReaderRequest, NEW s, s = Cancelled(r)
    PROVE  /\ s \in ReaderRequest /\ s.kind = r.kind /\ s.items = r.items
           /\ s.stage # "policy" => s.aborted
<1>1. /\ r.aborted \in BOOLEAN /\ s = [r EXCEPT !.aborted = r.aborted \/ r.stage # "policy"]
  BY DEF Cancelled, ReaderRequest
<1>2. s \in ReaderRequest
  BY <1>1 DEF ReaderRequest
<1>3. s.kind = r.kind /\ s.items = r.items /\ s.stage = r.stage /\ s.aborted = (r.aborted \/ r.stage # "policy")
  BY <1>1 DEF ReaderRequest
<1> QED
  BY <1>1, <1>2, <1>3

LEMMA NewGenerationFields ==
    ASSUME NEW c, Shaped(c), NEW d, d = NewGeneration(c)
    PROVE  /\ Shaped(d) /\ d.generation = c.generation + 1 /\ d.lang = c.lang
           /\ d.mode = c.mode /\ d.route = c.route /\ d.failed = c.failed
           /\ d.translated = c.translated /\ d.pump = c.pump
           /\ d.visible = << >> /\ d.prefetch = << >>
           /\ d.requests = [k \in DOMAIN c.requests |-> Cancelled(c.requests[k])]
BY DEF NewGeneration, Shaped, Variables

\* Whatever the language, a new generation aborts what the API may still answer.
LEMMA GenerationRenewed ==
    ASSUME NEW b, Good(b), NEW c, Shaped(c), c.requests = b.requests, c.generation = b.generation,
           c.pump = b.pump, c.lang \in Langs, Texts(c), NEW d, d = NewGeneration(c)
    PROVE  /\ Good(d) /\ Quiet(d) /\ OldAborted(d) /\ (Pumping(b) => Pumping(d))
           /\ d.generation = c.generation + 1
<1>1. /\ Shaped(d) /\ d.generation = c.generation + 1 /\ d.lang = c.lang
      /\ d.translated = c.translated /\ d.pump = c.pump
      /\ d.visible = << >> /\ d.prefetch = << >>
      /\ d.requests = [k \in DOMAIN b.requests |-> Cancelled(b.requests[k])]
  BY NewGenerationFields
<1>2. /\ b.requests \in Seq(ReaderRequest) /\ b.generation \in Nat
      /\ \A k \in DOMAIN b.requests : Posted(b, b.requests[k])
  BY DEF Good
<1>3. DOMAIN d.requests = DOMAIN b.requests
  BY <1>1
<1>4. ASSUME NEW k \in DOMAIN b.requests
      PROVE  LET r == b.requests[k]
                 s == d.requests[k]
             IN  /\ s \in ReaderRequest /\ s.kind = r.kind /\ s.items = r.items
                 /\ s.stage # "policy" => s.aborted
  <2>1. d.requests[k] = Cancelled(b.requests[k]) /\ b.requests[k] \in ReaderRequest
    BY <1>1, <1>2
  <2> QED
    BY <2>1, CancelledFields
<1>5. d.requests \in Seq(ReaderRequest)
  <2>1. Len(b.requests) \in Nat /\ DOMAIN b.requests = 1 .. Len(b.requests)
    BY <1>2
  <2> DEFINE f == [k \in 1 .. Len(b.requests) |-> Cancelled(b.requests[k])]
  <2>2. d.requests = f
    BY <1>1, <2>1
  <2>3. \A k \in 1 .. Len(b.requests) : f[k] \in ReaderRequest
    BY <1>4, <2>1, <2>2
  <2> HIDE DEF f
  <2>4. [k \in 1 .. Len(b.requests) |-> f[k]] \in Seq(ReaderRequest)
    BY <2>1, <2>3
  <2>5. f = [k \in 1 .. Len(b.requests) |-> f[k]]
    BY DEF f
  <2> QED
    BY <2>2, <2>4, <2>5
<1>6. ASSUME NEW k \in DOMAIN d.requests PROVE Posted(d, d.requests[k])
  <2> DEFINE r == b.requests[k]
             s == d.requests[k]
  <2>1. s \in ReaderRequest /\ s.items = r.items /\ Posted(b, r) /\ r \in ReaderRequest
    BY <1>2, <1>3, <1>4
  <2>2. /\ r.items # << >> /\ r.items \in Seq(Item)
        /\ \A j \in DOMAIN r.items : Fits(b, r.items[j]) /\ r.items[j].gen = r.items[1].gen
    BY <2>1 DEF Posted, ReaderRequest
  <2>3. 1 \in DOMAIN r.items
    BY <2>2
  <2>4. \A j \in DOMAIN r.items : r.items[j] \in Item /\ r.items[j].gen < d.generation /\ r.items[j].gen \in Nat
    BY <1>1, <1>2, <2>2 DEF Fits, Item
  <2>5. \A j \in DOMAIN r.items : Fits(d, r.items[j])
    BY <1>1, <1>2, <2>4 DEF Fits
  <2>6. r.items[1].gen # d.generation
    BY <1>1, <1>2, <2>3, <2>4
  <2> QED
    BY <2>1, <2>2, <2>5, <2>6 DEF Posted
<1>7. Good(d)
  <2>1. d.generation \in Nat /\ Texts(d)
    BY <1>1, <1>2 DEF Texts
  <2> QED
    BY <1>1, <1>5, <1>6, <2>1, EmptyFits DEF Good
<1>8. OldAborted(d)
  BY <1>3, <1>4 DEF OldAborted, AbortedIfOld
<1>9. Pumping(b) => Pumping(d)
  <2>1. \A k \in DOMAIN b.requests : d.requests[k].kind = b.requests[k].kind
    BY <1>4
  <2>2. OneBatch(b) => OneBatch(d)
    BY <1>3, <2>1 DEF OneBatch
  <2>3. NoBatch(b) => NoBatch(d)
    BY <1>3, <2>1 DEF NoBatch
  <2>4. d.pump = b.pump
    BY <1>1
  <2> QED
    BY <2>2, <2>3, <2>4 DEF Pumping
<1>10. Quiet(d)
  BY <1>1 DEF Quiet
<1> QED
  BY <1>1, <1>7, <1>8, <1>9, <1>10

\* The rush of the page adds no batch.
LEMMA RushAdds ==
    ASSUME NEW c, NEW d, Pumping(c), d.pump = c.pump, NEW n \in Nat, NEW m \in Nat,
           DOMAIN c.requests = 1 .. n, DOMAIN d.requests = 1 .. n + m,
           \A k \in 1 .. n : d.requests[k] = c.requests[k],
           \A k \in 1 .. m : d.requests[n + k].kind \in Rush
    PROVE  Pumping(d)
<1>1. \A k \in 1 .. n + m : k \notin 1 .. n => d.requests[k].kind \in Rush
  <2>1. ASSUME NEW k \in 1 .. n + m, k \notin 1 .. n PROVE d.requests[k].kind \in Rush
    <3>1. k - n \in 1 .. m /\ n + (k - n) = k
      BY <2>1
    <3> QED
      BY <3>1
  <2> QED
    BY <2>1
<1>2. \A k \in 1 .. n : k \in 1 .. n + m
  OBVIOUS
<1>3. NoBatch(c) => NoBatch(d)
  BY <1>1 DEF NoBatch
<1>4. OneBatch(c) => OneBatch(d)
  <2> SUFFICES ASSUME OneBatch(c) PROVE OneBatch(d)
    OBVIOUS
  <2>1. PICK k \in 1 .. n : /\ c.requests[k].kind \notin Rush
                           /\ \A j \in 1 .. n : c.requests[j].kind \notin Rush => j = k
    BY DEF OneBatch
  <2>2. k \in DOMAIN d.requests /\ d.requests[k].kind \notin Rush
    BY <1>2, <2>1
  <2>3. \A j \in DOMAIN d.requests : d.requests[j].kind \notin Rush => j = k
    BY <1>1, <2>1
  <2> QED
    BY <2>2, <2>3 DEF OneBatch
<1> QED
  BY <1>3, <1>4 DEF Pumping

\* What translateCurrentPage has sent and queued, before it starts the pump.
PageTaken(c, g, sent, visible, prefetch, rush) ==
    [c EXCEPT !.requests = @ \o sent, !.visible = visible, !.prefetch = prefetch,
              !.isTranslating = @ \/ rush # << >>, !.inflight = @ + Len(rush), !.shown = g]

LEMMA PageTakenFields ==
    ASSUME NEW c, Shaped(c), NEW g, NEW sent, NEW v, NEW f, NEW rush,
           NEW d, d = PageTaken(c, g, sent, v, f, rush)
    PROVE  /\ Shaped(d) /\ d.requests = c.requests \o sent /\ d.visible = v /\ d.prefetch = f
           /\ d.pump = c.pump /\ d.generation = c.generation /\ d.lang = c.lang /\ d.mode = c.mode
           /\ d.route = c.route /\ d.failed = c.failed /\ d.translated = c.translated
BY DEF PageTaken, Shaped, Variables

LEMMA PageKeeps ==
    ASSUME NEW c, Good(c), Pumping(c), NEW g \in Pages, NEW d, d = TranslateCurrentPage(c, g)
    PROVE  Good(d) /\ Carries(c, d) /\ Pumping(d)
<1>1. CASE ~Running(c)
  <2>1. d = c
    BY <1>1 DEF TranslateCurrentPage
  <2> QED
    BY <2>1 DEF Carries
<1>2. CASE Running(c)
  <2> DEFINE u == CollectUncached(c, SubSeq(Chapter, FirstOn[g], LastOn[g]))
             rush == Take(u, RushLimit)
             sent == [k \in DOMAIN rush |-> NewRequest(c, IF k = 1 THEN "stream" ELSE "single", << rush[k] >>)]
             v == Drop(u, RushLimit)
             f == IF c.prefetchEnabled THEN CollectUncached(c, Lookahead(g)) ELSE << >>
             e == PageTaken(c, g, sent, v, f, rush)
  <2>1. d = PumpQueue(e)
    BY <1>2, Zenon DEF TranslateCurrentPage, PageTaken
  <2>2. /\ Shaped(c) /\ c.generation \in Nat /\ c.lang \in Langs /\ RushLimit \in Nat \ {0}
        /\ c.requests \in Seq(ReaderRequest)
    BY ClientAssumption DEF Good
  <2>3. Recent(c, u)
    BY <2>2, Sections, CollectedIsRecent
  <2>4. Recent(c, f)
    BY <2>2, Sections, CollectedIsRecent, EmptyFits
  <2> HIDE DEF u, f
  <2>5. Recent(c, rush) /\ Recent(c, v)
    BY <2>2, <2>3, Parts
  <2> HIDE DEF rush, v
  <2>6. rush \in Seq(Item) /\ Len(rush) \in Nat /\ DOMAIN rush = 1 .. Len(rush)
    BY <2>5 DEF Recent
  <2>7. ASSUME NEW k \in DOMAIN rush
        PROVE  Posted(c, sent[k]) /\ AbortedIfOld(c, sent[k]) /\ sent[k].kind \in Rush
    <3>1. rush[k] \in Item /\ rush[k].gen = c.generation /\ rush[k].lang = c.lang
      BY <2>5, <2>6 DEF Recent
    <3>2. Recent(c, << rush[k] >>) /\ << rush[k] >> # << >>
      BY <3>1 DEF Recent
    <3> DEFINE kind == IF k = 1 THEN "stream" ELSE "single"
    <3>3. kind \in {"stream", "single", "visible", "prefetch"} /\ kind \in Rush
      BY DEF Rush
    <3>4. sent[k] = NewRequest(c, kind, << rush[k] >>)
      OBVIOUS
    <3> DEFINE items == << rush[k] >>
               r == sent[k]
    <3>5. Recent(c, items) /\ items # << >> /\ r = NewRequest(c, kind, items)
      BY <3>2, <3>4
    <3> HIDE DEF kind, sent, items, r
    <3>6. Posted(c, r) /\ AbortedIfOld(c, r) /\ r.kind = kind
      BY <2>2, <3>3, <3>5, NewRequestFields
    <3> QED
      BY <3>3, <3>6 DEF r
  <2>8. sent \in Seq(ReaderRequest) /\ Len(sent) = Len(rush) /\ DOMAIN sent = DOMAIN rush
    <3>1. \A k \in 1 .. Len(rush) : sent[k] \in ReaderRequest
      BY <2>6, <2>7 DEF Posted
    <3> QED
      BY <2>6, <3>1
  <2> HIDE DEF sent
  <2>9. /\ Shaped(e) /\ e.requests = c.requests \o sent /\ e.visible = v /\ e.prefetch = f
        /\ e.pump = c.pump /\ e.generation = c.generation /\ e.lang = c.lang /\ e.mode = c.mode
        /\ e.route = c.route /\ e.failed = c.failed /\ e.translated = c.translated
    BY <2>2, PageTakenFields
  <2> HIDE DEF e
  <2>10. Queued(c, e.visible) /\ Queued(c, e.prefetch)
    BY <2>2, <2>4, <2>5, <2>9, RecentFits
  <2>11. \A k \in DOMAIN sent : Posted(c, sent[k]) /\ AbortedIfOld(c, sent[k])
    BY <2>7, <2>8
  <2>12. /\ Good(e) /\ Carries(c, e)
         /\ DOMAIN e.requests = 1 .. Len(c.requests) + Len(sent)
         /\ \A k \in 1 .. Len(c.requests) : e.requests[k] = c.requests[k]
         /\ \A k \in 1 .. Len(sent) : e.requests[Len(c.requests) + k] = sent[k]
    <3>1. Adds(c, e, sent)
      BY <1>2, <2>8, <2>9, <2>10, <2>11 DEF Adds
    <3> QED
      BY <3>1, MoreRequests
  <2>13. Pumping(e)
    <3>1. /\ Len(c.requests) \in Nat /\ Len(sent) \in Nat /\ DOMAIN c.requests = 1 .. Len(c.requests)
          /\ DOMAIN sent = 1 .. Len(sent)
      BY <2>2, <2>8
    <3>2. \A k \in 1 .. Len(sent) : e.requests[Len(c.requests) + k].kind \in Rush
      BY <2>7, <2>8, <2>12, <3>1
    <3> QED
      BY <2>9, <2>12, <3>1, <3>2, RushAdds
  <2>14. Good(d) /\ Carries(e, d) /\ Pumping(d)
    BY <2>1, <2>12, <2>13, PumpQueueKeeps
  <2> QED
    BY <2>12, <2>14 DEF Carries
<1> QED
  BY <1>1, <1>2

\* A handler's step: within a generation, or into a new one with the old work aborted.
Moves(c, d) == /\ Good(d) /\ Pumping(d) /\ (Quiet(c) => Quiet(d))
               /\ d.generation # c.generation => OldAborted(d)

LEMMA Moving ==
    /\ \A c, d : Good(d) /\ Pumping(d) /\ Carries(c, d) => Moves(c, d) /\ c.failed \subseteq d.failed
    /\ \A c, d, e : Moves(c, d) /\ Carries(d, e) /\ Good(e) /\ Pumping(e) => Moves(c, e)
BY DEF Moves, Carries

\* The same but for what the properties do not look at.
Alike(c, d) == /\ Shaped(d) /\ d.generation = c.generation /\ d.lang = c.lang
               /\ d.translated = c.translated /\ d.requests = c.requests /\ d.pump = c.pump
               /\ d.visible = c.visible /\ d.prefetch = c.prefetch

LEMMA AlikeGood ==
    ASSUME NEW c, Good(c), NEW d, Alike(c, d)
    PROVE  Good(d) /\ (Pumping(c) <=> Pumping(d)) /\ (OldAborted(c) <=> OldAborted(d))
<1>1. Good(d)
  BY SameGeneration DEF Alike, Good, Texts
<1>2. OldAborted(c) <=> OldAborted(d)
  BY SameGeneration DEF Alike, OldAborted
<1>3. Pumping(c) <=> Pumping(d)
  BY DEF Alike, Pumping, NoBatch, OneBatch
<1> QED
  BY <1>1, <1>2, <1>3

LEMMA ResetFields ==
    ASSUME NEW c, Shaped(c), NEW d, d = [c EXCEPT !.lastFirst = Null, !.timer = FALSE]
    PROVE  Alike(c, d) /\ d.mode = c.mode /\ d.route = c.route /\ d.failed = c.failed
BY DEF Alike, Shaped, Variables

LEMMA RediscoverMoves ==
    ASSUME NEW c, Good(c), Pumping(c), NEW g \in Pages, NEW d, d = Rediscover(c, g)
    PROVE  Moves(c, d) /\ c.failed \subseteq d.failed
<1>1. CASE ~Running(c)
  <2>1. d = c
    BY <1>1 DEF Rediscover
  <2> QED
    BY <2>1 DEF Moves
<1>2. CASE Running(c)
  <2> DEFINE n == NewGeneration(c)
             e == [n EXCEPT !.lastFirst = Null, !.timer = FALSE]
  <2>1. d = TranslateCurrentPage(e, g)
    BY <1>2 DEF Rediscover
  <2>2. Shaped(c) /\ Texts(c) /\ c.lang \in Langs
    BY DEF Good
  <2>3. Good(n) /\ Quiet(n) /\ OldAborted(n) /\ Pumping(n)
    BY <2>2, GenerationRenewed
  <2>4. Shaped(n) /\ n.mode = c.mode /\ n.route = c.route /\ n.failed = c.failed
    BY <2>2, NewGenerationFields
  <2> HIDE DEF n
  <2>5. Alike(n, e) /\ e.mode = n.mode /\ e.route = n.route /\ e.failed = n.failed
    BY <2>4, ResetFields
  <2> HIDE DEF e
  <2>6. Good(e) /\ Pumping(e) /\ OldAborted(e)
    BY <2>3, <2>5, AlikeGood
  <2>7. Good(d) /\ Carries(e, d) /\ Pumping(d)
    BY <2>1, <2>6, PageKeeps
  <2>8. Quiet(d)
    BY <1>2, <2>4, <2>5, <2>7 DEF Quiet, Carries, Running
  <2> QED
    BY <2>4, <2>5, <2>6, <2>7, <2>8 DEF Moves, Carries
<1> QED
  BY <1>1, <1>2

-----------------------------------------------------------------------------
(* The reader: answers.                                                     *)

\* The same but for texts, failures and queues of the same generation.
Within(c, d) == /\ Shaped(d) /\ Texts(d) /\ d.requests = c.requests /\ d.pump = c.pump
                /\ d.generation = c.generation /\ d.lang = c.lang /\ d.mode = c.mode /\ d.route = c.route
                /\ c.failed \subseteq d.failed /\ Queued(c, d.visible) /\ Queued(c, d.prefetch)
                /\ (Quiet(c) => Quiet(d))

LEMMA WithinKeeps ==
    ASSUME NEW c, Good(c), NEW d, Within(c, d)
    PROVE  Good(d) /\ Carries(c, d) /\ (NoBatch(c) => NoBatch(d)) /\ (Pumping(c) => Pumping(d))
<1>1. Good(d) /\ Carries(c, d) /\ (NoBatch(c) <=> NoBatch(d)) /\ (OneBatch(c) <=> OneBatch(d))
  BY OtherQueues DEF Within
<1> QED
  BY <1>1 DEF Within, Pumping

LEMMA AlikeWithin ==
    ASSUME NEW c, Good(c), NEW d, Alike(c, d), d.mode = c.mode, d.route = c.route,
           c.failed \subseteq d.failed
    PROVE  Within(c, d)
<1>1. Texts(d) /\ (Quiet(c) => Quiet(d))
  BY DEF Alike, Good, Texts, Quiet, Running
<1> QED
  BY <1>1 DEF Within, Alike, Good

LEMMA FailsFields ==
    ASSUME NEW c, Shaped(c), NEW S, NEW d, d = [c EXCEPT !.failed = @ \cup S]
    PROVE  Alike(c, d) /\ d.mode = c.mode /\ d.route = c.route /\ c.failed \subseteq d.failed
BY DEF Alike, Shaped, Variables

LEMMA MarkFailedFields ==
    ASSUME NEW c, Shaped(c), NEW items, NEW d, d = MarkFailed(c, items)
    PROVE  Alike(c, d) /\ d.mode = c.mode /\ d.route = c.route /\ c.failed \subseteq d.failed
BY DEF MarkFailed, Alike, Shaped, Variables

LEMMA CountAnswersFields ==
    ASSUME NEW c, Shaped(c), NEW items, NEW d, d = CountAnswers(c, items)
    PROVE  Alike(c, d) /\ d.mode = c.mode /\ d.route = c.route /\ d.failed = c.failed
BY DEF CountAnswers, Alike, Shaped, Variables

LEMMA StoreFields ==
    ASSUME NEW c, Shaped(c), NEW i, NEW text, NEW d, d = Store(c, i, text)
    PROVE  /\ Shaped(d) /\ d.translated = [c.translated EXCEPT ![Key(i)] = text]
           /\ d.requests = c.requests /\ d.pump = c.pump /\ d.visible = c.visible
           /\ d.prefetch = c.prefetch /\ d.generation = c.generation /\ d.lang = c.lang
           /\ d.mode = c.mode /\ d.route = c.route /\ d.failed = c.failed
BY DEF Store, Shaped, Variables

\* A text in the language of its generation, or a part of one.
LEMMA StoreWithin ==
    ASSUME NEW c, Good(c), NEW i, Fits(c, i), IsLive(c, i), NEW text \in {c.lang, Partial},
           NEW d, d = Store(c, i, text)
    PROVE  Within(c, d)
<1>1. Key(i) \in Hash /\ Key(i)[2] = c.lang
  BY KeyIsHash DEF Fits, IsLive
<1>2. /\ Shaped(c) /\ c.lang \in Langs /\ c.translated \in [Hash -> Langs \cup {Null, Partial}]
      /\ \A h \in Hash : c.translated[h] \in {Null, h[2], Partial}
  BY DEF Good, Texts
<1>3. /\ Shaped(d) /\ d.translated = [c.translated EXCEPT ![Key(i)] = text]
      /\ d.requests = c.requests /\ d.pump = c.pump /\ d.visible = c.visible
      /\ d.prefetch = c.prefetch /\ d.generation = c.generation /\ d.lang = c.lang
      /\ d.mode = c.mode /\ d.route = c.route /\ d.failed = c.failed
  BY <1>2, StoreFields
<1>4. Texts(d)
  <2>1. d.translated \in [Hash -> Langs \cup {Null, Partial}]
    BY <1>1, <1>2, <1>3
  <2>2. \A h \in Hash : d.translated[h] \in {Null, h[2], Partial}
    BY <1>1, <1>2, <1>3
  <2> QED
    BY <2>1, <2>2 DEF Texts
<1> QED
  BY <1>3, <1>4 DEF Within, Good, Quiet, Running

LEMMA QueuesJoin ==
    ASSUME NEW c, NEW p, NEW q, Queued(c, p), Queued(c, q)
    PROVE  Queued(c, p \o q)
<1>1. p \in Seq(Item) /\ q \in Seq(Item) /\ Len(p) \in Nat /\ Len(q) \in Nat
  BY DEF Queued
<1>2. p \o q \in Seq(Item)
  BY <1>1
<1>3. \A k \in DOMAIN (p \o q) : (\E j \in DOMAIN p : (p \o q)[k] = p[j]) \/ (\E j \in DOMAIN q : (p \o q)[k] = q[j])
  <2> SUFFICES ASSUME NEW k \in 1 .. Len(p) + Len(q)
               PROVE  (\E j \in DOMAIN p : (p \o q)[k] = p[j]) \/ (\E j \in DOMAIN q : (p \o q)[k] = q[j])
    BY <1>1
  <2>1. CASE k <= Len(p)
    BY <1>1, <2>1
  <2>2. CASE ~(k <= Len(p))
    <3>1. k - Len(p) \in DOMAIN q /\ (p \o q)[k] = q[k - Len(p)]
      BY <1>1, <2>2
    <3> QED
      BY <3>1
  <2> QED
    BY <2>1, <2>2
<1> QED
  BY <1>2, <1>3 DEF Queued

LEMMA SelfWithin == ASSUME NEW c, Good(c) PROVE Within(c, c)
BY DEF Within, Good

LEMMA RushResultKeeps ==
    ASSUME NEW c, Good(c), NEW r, Posted(c, r), NEW result, NEW d, d = RushResult(c, r, result)
    PROVE  Within(c, d)
<1> DEFINE i == r.items[1]
           fails == [c EXCEPT !.failed = @ \cup {Key(i)}]
<1>1. Shaped(c) /\ Queued(c, c.visible) /\ Queued(c, c.prefetch) /\ Texts(c)
  BY DEF Good
<1>2. /\ r.items \in Seq(Item) /\ r.items # << >> /\ \A j \in DOMAIN r.items : Fits(c, r.items[j])
      /\ i.gen = c.generation => r.lang = c.lang
  BY DEF Posted, ReaderRequest
<1>3. 1 \in DOMAIN r.items
  BY <1>2
<1>4. Fits(c, i)
  BY <1>2, <1>3
<1>5. Within(c, fails)
  <2>1. Alike(c, fails) /\ fails.mode = c.mode /\ fails.route = c.route /\ c.failed \subseteq fails.failed
    BY <1>1, FailsFields
  <2> QED
    BY <2>1, AlikeWithin
<1>6. ASSUME IsLive(c, i), NEW e, e = Store(c, i, r.lang) \/ e = Store(c, i, Partial)
      PROVE  Within(c, e)
  <2>1. r.lang = c.lang
    BY <1>2, <1>6 DEF IsLive
  <2> QED
    BY <1>4, <1>6, <2>1, StoreWithin
<1>7. ASSUME IsLive(c, i), NEW e, e = [CountAnswers(c, r.items) EXCEPT !.visible = << i >> \o @, !.rateLimited = TRUE]
      PROVE  Within(c, e)
  <2> DEFINE m == CountAnswers(c, r.items)
             q == << i >>
  <2>0. e = [m EXCEPT !.visible = q \o @, !.rateLimited = TRUE]
    BY <1>7
  <2>1. Alike(c, m) /\ m.mode = c.mode /\ m.route = c.route /\ m.failed = c.failed
    BY <1>1, CountAnswersFields
  <2>3. Queued(c, q)
    BY <1>4 DEF Queued, Fits
  <2> HIDE DEF m, q
  <2>2. /\ Shaped(e) /\ e.visible = q \o m.visible /\ e.prefetch = m.prefetch
        /\ e.requests = m.requests /\ e.pump = m.pump /\ e.translated = m.translated
        /\ e.generation = m.generation /\ e.lang = m.lang
        /\ e.mode = m.mode /\ e.route = m.route /\ e.failed = m.failed
    BY <2>0, <2>1 DEF Alike, Shaped, Variables
  <2>4. Queued(c, q \o c.visible)
    BY <1>1, <2>3, QueuesJoin
  <2>5. Queued(c, e.visible) /\ Queued(c, e.prefetch)
    BY <1>1, <2>1, <2>2, <2>4 DEF Alike
  <2>6. Running(e) /\ Texts(e)
    BY <1>1, <1>7, <2>1, <2>2 DEF Alike, Running, IsLive, Texts
  <2> QED
    BY <2>1, <2>2, <2>5, <2>6 DEF Within, Alike, Quiet
<1> HIDE DEF i, fails
<1>8. \/ d = fails \/ d = c
      \/ IsLive(c, i) /\ (d = Store(c, i, r.lang) \/ d = Store(c, i, Partial))
      \/ IsLive(c, i) /\ d = [CountAnswers(c, r.items) EXCEPT !.visible = << i >> \o @, !.rateLimited = TRUE]
  BY DEF RushResult, i, fails
<1> QED
  BY <1>5, <1>6, <1>7, <1>8, SelfWithin

LEMMA RushEndsKeeps ==
    ASSUME NEW c, Good(c), Pumping(c), NEW r, Posted(c, r), NEW result, NEW d, d = RushEnds(c, r, result)
    PROVE  Good(d) /\ Carries(c, d) /\ Pumping(d)
<1> DEFINE e == RushResult(c, r, result)
<1>1. Within(c, e)
  BY RushResultKeeps
<1>2. Shaped(e)
  BY <1>1 DEF Within
<1>3. Good(e) /\ Carries(c, e) /\ Pumping(e)
  BY <1>1, WithinKeeps
<1>4. Alike(e, d) /\ d.mode = e.mode /\ d.route = e.route /\ d.failed = e.failed
  BY <1>2 DEF RushEnds, Alike, Shaped, Variables
<1> HIDE DEF e
<1>5. Within(e, d)
  BY <1>3, <1>4, AlikeWithin
<1>6. Good(d) /\ Carries(e, d) /\ Pumping(d)
  BY <1>3, <1>5, WithinKeeps
<1> QED
  BY <1>3, <1>6 DEF Carries

LEMMA StoredFields ==
    ASSUME NEW c, Shaped(c), NEW r, NEW good, NEW d, d = Stored(c, r, good)
    PROVE  /\ Shaped(d)
           /\ d.translated = [h \in Hash |->
                IF \E k \in DOMAIN r.items : r.items[k].p \in good /\ Key(r.items[k]) = h
                  THEN r.lang ELSE c.translated[h]]
           /\ d.requests = c.requests /\ d.pump = c.pump /\ d.visible = c.visible
           /\ d.prefetch = c.prefetch /\ d.generation = c.generation /\ d.lang = c.lang
           /\ d.mode = c.mode /\ d.route = c.route /\ d.failed = c.failed
<1> DEFINE kept(h) == \E k \in DOMAIN r.items : r.items[k].p \in good /\ Key(r.items[k]) = h
           x == [h \in Hash |-> IF kept(h) THEN r.lang ELSE c.translated[h]]
           y == [h \in Hash |-> IF kept(h) THEN 0 ELSE c.limited[h]]
<1>1. d = [c EXCEPT !.translated = x, !.limited = y]
  BY DEF Stored, Shaped, Variables
<1> HIDE DEF x, y
<1>2. /\ Shaped(d) /\ d.translated = x
      /\ d.requests = c.requests /\ d.pump = c.pump /\ d.visible = c.visible
      /\ d.prefetch = c.prefetch /\ d.generation = c.generation /\ d.lang = c.lang
      /\ d.mode = c.mode /\ d.route = c.route /\ d.failed = c.failed
  BY <1>1 DEF Shaped, Variables
<1> QED
  BY <1>2 DEF x

\* The items of a batch that is still wanted have the present generation.
LEMMA StoredWithin ==
    ASSUME NEW c, Good(c), NEW r, Posted(c, r), IsLive(c, r.items[1]), NEW good,
           NEW d, d = Stored(c, r, good)
    PROVE  Within(c, d)
<1>1. /\ r.items \in Seq(Item) /\ r.items # << >> /\ r.lang = c.lang /\ r.lang \in Langs
      /\ \A j \in DOMAIN r.items : Fits(c, r.items[j]) /\ r.items[j].gen = c.generation
  BY DEF Posted, ReaderRequest, IsLive
<1>2. \A j \in DOMAIN r.items : r.items[j].lang = c.lang /\ r.items[j] \in Item
  BY <1>1 DEF Fits
<1>3. \A j \in DOMAIN r.items : Key(r.items[j])[2] = c.lang
  BY <1>2, KeyIsHash
<1>4. /\ Shaped(c) /\ c.translated \in [Hash -> Langs \cup {Null, Partial}]
      /\ \A h \in Hash : c.translated[h] \in {Null, h[2], Partial}
  BY DEF Good, Texts
<1> DEFINE x == [h \in Hash |->
                IF \E k \in DOMAIN r.items : r.items[k].p \in good /\ Key(r.items[k]) = h
                  THEN r.lang ELSE c.translated[h]]
<1>5. /\ Shaped(d) /\ d.translated = x
      /\ d.requests = c.requests /\ d.pump = c.pump /\ d.visible = c.visible
      /\ d.prefetch = c.prefetch /\ d.generation = c.generation /\ d.lang = c.lang
      /\ d.mode = c.mode /\ d.route = c.route /\ d.failed = c.failed
  BY <1>4, StoredFields
<1>6. x \in [Hash -> Langs \cup {Null, Partial}]
  BY <1>1, <1>4
<1>7. ASSUME NEW h \in Hash PROVE x[h] \in {Null, h[2], Partial}
  BY <1>1, <1>3, <1>4
<1> HIDE DEF x
<1>8. Texts(d)
  BY <1>5, <1>6, <1>7 DEF Texts
<1> QED
  BY <1>5, <1>8 DEF Within, Good, Quiet, Running

\* What of a batch may be tried again goes to the head of its queue.

\* What of a batch may be tried again goes to the head of its queue.
LEMMA RequeueWithin ==
    ASSUME NEW c, Good(c), NEW r, Posted(c, r), Running(c), NEW d, d = Requeue(c, r)
    PROVE  Within(c, d)
<1> DEFINE may == {k \in DOMAIN r.items : MayRetry(c, r.items[k])}
           keep == Picked(r.items, may)
           m == CountAnswers(c, r.items)
           n == [m EXCEPT !.limited = [h \in Hash |-> IF (\E k \in DOMAIN keep : Key(keep[k]) = h) /\ @[h] < MaxLimited
                                                       THEN @[h] + 1 ELSE @[h]]]
           e == MarkFailed(n, Picked(r.items, DOMAIN r.items \ may))
<1>1. Shaped(c) /\ Queued(c, c.visible) /\ Queued(c, c.prefetch) /\ Texts(c)
  BY DEF Good
<1>2. d = [e EXCEPT !.visible  = IF r.kind = "visible" THEN keep \o @ ELSE @,
                    !.prefetch = IF r.kind = "prefetch" THEN keep \o @ ELSE @,
                    !.rateLimited = @ \/ keep # << >>]
  BY Zenon DEF Requeue
<1>3. Queued(c, keep)
  <2>1. r.items \in Seq(Item) /\ may \in SUBSET DOMAIN r.items /\ \A k \in DOMAIN r.items : Fits(c, r.items[k])
    BY DEF Posted, ReaderRequest
  <2> HIDE DEF may
  <2>2. keep \in Seq(Item) /\ \A i \in DOMAIN keep : \E p \in may : keep[i] = r.items[p]
    BY <2>1, PickedIsSeq
  <2> HIDE DEF keep
  <2> QED
    BY <2>1, <2>2 DEF Queued
<1>4. Alike(c, m) /\ m.mode = c.mode /\ m.route = c.route /\ m.failed = c.failed
  BY <1>1, CountAnswersFields
<1> HIDE DEF keep, m
<1>5. Alike(c, n) /\ n.mode = c.mode /\ n.route = c.route /\ n.failed = c.failed
  BY <1>4 DEF Alike, Shaped, Variables
<1> HIDE DEF n
<1>6. Alike(n, e) /\ e.mode = n.mode /\ e.route = n.route /\ n.failed \subseteq e.failed
  BY <1>5, MarkFailedFields DEF Alike
<1> HIDE DEF e
<1>7. Alike(c, e) /\ e.mode = c.mode /\ e.route = c.route /\ c.failed \subseteq e.failed
  BY <1>5, <1>6 DEF Alike
<1>8. /\ Shaped(d) /\ d.requests = e.requests /\ d.pump = e.pump /\ d.translated = e.translated
      /\ d.generation = e.generation /\ d.lang = e.lang
      /\ d.mode = e.mode /\ d.route = e.route /\ d.failed = e.failed
      /\ d.visible = e.visible \/ d.visible = keep \o e.visible
      /\ d.prefetch = e.prefetch \/ d.prefetch = keep \o e.prefetch
  <2>1. Shaped(e)
    BY <1>7 DEF Alike
  <2> QED
    BY <1>2, <2>1 DEF Shaped, Variables
<1>9. Queued(c, d.visible) /\ Queued(c, d.prefetch)
  <2>1. Queued(c, keep \o c.visible) /\ Queued(c, keep \o c.prefetch)
    BY <1>1, <1>3, QueuesJoin
  <2>2. e.visible = c.visible /\ e.prefetch = c.prefetch
    BY <1>7 DEF Alike
  <2> QED
    BY <1>1, <1>8, <2>1, <2>2
<1>10. Texts(d) /\ Running(d)
  BY <1>1, <1>7, <1>8 DEF Alike, Running, Texts
<1> QED
  BY <1>7, <1>8, <1>9, <1>10 DEF Within, Alike, Quiet

LEMMA BatchResultWithin ==
    ASSUME NEW c, Good(c), NEW r, Posted(c, r), NEW result, NEW good, NEW d, d = BatchResult(c, r, result, good)
    PROVE  Within(c, d)
<1> DEFINE stored == Stored(c, r, good)
           lost == Picked(r.items, {k \in DOMAIN r.items : stored.translated[Key(r.items[k])] = Null})
           done == [MarkFailed(stored, lost) EXCEPT
                      !.firstDone = @ \/ (r.kind = "visible" /\ Len(lost) < Len(r.items))]
<1>1. Shaped(c)
  BY DEF Good
<1>2. Within(c, MarkFailed(c, r.items))
  BY <1>1, MarkFailedFields, AlikeWithin
<1>3. ASSUME IsLive(c, r.items[1]) PROVE Within(c, Requeue(c, r))
  BY <1>3, RequeueWithin DEF IsLive
<1>4. ASSUME IsLive(c, r.items[1]) PROVE Within(c, done)
  <2>1. Within(c, stored)
    BY <1>4, StoredWithin
  <2> DEFINE m == MarkFailed(stored, lost)
  <2>2. Alike(stored, m) /\ m.mode = stored.mode /\ m.route = stored.route /\ stored.failed \subseteq m.failed
    BY <2>1, MarkFailedFields DEF Within
  <2> HIDE DEF stored, lost, m
  <2>3. Alike(m, done) /\ done.mode = m.mode /\ done.route = m.route /\ done.failed = m.failed
    <3>1. done = [m EXCEPT !.firstDone = @ \/ (r.kind = "visible" /\ Len(lost) < Len(r.items))]
      BY DEF m
    <3>2. Shaped(m)
      BY <2>2 DEF Alike
    <3> HIDE DEF done
    <3> QED
      BY <3>1, <3>2 DEF Alike, Shaped, Variables
  <2> HIDE DEF done
  <2>4. Texts(done) /\ (Quiet(stored) => Quiet(done))
    BY <2>1, <2>2, <2>3 DEF Alike, Within, Texts, Quiet, Running
  <2> QED
    BY <2>1, <2>2, <2>3, <2>4 DEF Alike, Within
<1> HIDE DEF done
<1>5. \/ d = MarkFailed(c, r.items) \/ d = c
      \/ IsLive(c, r.items[1]) /\ (d = Requeue(c, r) \/ d = done)
  BY Zenon DEF BatchResult, done
<1> QED
  BY <1>2, <1>3, <1>4, <1>5, SelfWithin

LEMMA BatchEndsKeeps ==
    ASSUME NEW c, Good(c), NoBatch(c), NEW r, Posted(c, r), NEW result, NEW good,
           NEW d, d = BatchEnds(c, r, result, good)
    PROVE  Good(d) /\ Carries(c, d) /\ Pumping(d)
<1> DEFINE m == BatchResult(c, r, result, good)
           e == [m EXCEPT !.inflight = 0]
<1>1. d = Pump(e)
  BY DEF BatchEnds
<1>2. Within(c, m)
  BY BatchResultWithin
<1> HIDE DEF m
<1>3. Good(m) /\ Carries(c, m) /\ NoBatch(m)
  BY <1>2, WithinKeeps
<1>4. Alike(m, e) /\ e.mode = m.mode /\ e.route = m.route /\ e.failed = m.failed
  BY <1>2 DEF Within, Alike, Shaped, Variables
<1> HIDE DEF e
<1>5. Within(m, e)
  BY <1>3, <1>4, AlikeWithin
<1>6. Good(e) /\ Carries(m, e) /\ NoBatch(e)
  BY <1>3, <1>5, WithinKeeps
<1>7. Good(d) /\ Carries(e, d) /\ Pumping(d)
  BY <1>1, <1>6, PumpKeeps
<1> QED
  BY <1>3, <1>6, <1>7 DEF Carries

\* A request that has its answer is out of the way.
LEMMA Answering ==
    ASSUME NEW b, Good(b), Pumping(b), NEW k \in DOMAIN b.requests, NEW p,
           NEW c, c = [b EXCEPT !.requests = Removed(@, k), !.policy = p]
    PROVE  /\ Good(c) /\ Carries(b, c) /\ Posted(c, b.requests[k])
           /\ b.requests[k].kind \in Rush => Pumping(c)
           /\ b.requests[k].kind \notin Rush => NoBatch(c)
<1>1. /\ Shaped(b) /\ b.requests \in Seq(ReaderRequest) /\ \A j \in DOMAIN b.requests : Posted(b, b.requests[j])
      /\ Len(b.requests) \in Nat /\ DOMAIN b.requests = 1 .. Len(b.requests)
  BY DEF Good
<1>2. /\ Shaped(c) /\ c.requests = Removed(b.requests, k) /\ c.pump = b.pump
      /\ c.visible = b.visible /\ c.prefetch = b.prefetch /\ c.translated = b.translated
      /\ c.generation = b.generation /\ c.lang = b.lang /\ c.mode = b.mode /\ c.route = b.route
      /\ c.failed = b.failed
  BY <1>1 DEF Shaped, Variables
<1> DEFINE at(i) == IF i < k THEN i ELSE i + 1
<1>3. /\ c.requests \in Seq(ReaderRequest) /\ DOMAIN c.requests = 1 .. Len(b.requests) - 1
      /\ \A i \in DOMAIN c.requests : at(i) \in DOMAIN b.requests /\ c.requests[i] = b.requests[at(i)]
  <2> DEFINE list == b.requests
             rest == Removed(list, k)
  <2>1. list \in Seq(ReaderRequest) /\ k \in DOMAIN list
    BY <1>1
  <2>2. c.requests = rest
    BY <1>2
  <2> HIDE DEF list
  <2>3. /\ rest \in Seq(ReaderRequest) /\ DOMAIN rest = 1 .. Len(list) - 1
        /\ \A i \in DOMAIN rest : at(i) \in DOMAIN list /\ rest[i] = list[at(i)]
    BY <2>1, RemovedFacts
  <2> HIDE DEF rest
  <2> QED
    BY <2>2, <2>3 DEF list
<1>0. /\ \A q : Queued(b, q) <=> Queued(c, q)
      /\ \A r : Posted(b, r) <=> Posted(c, r)
      /\ \A r : AbortedIfOld(b, r) <=> AbortedIfOld(c, r)
  BY <1>2, SameGeneration
<1>4. \A i \in DOMAIN c.requests : Posted(c, c.requests[i])
  <2> SUFFICES ASSUME NEW i \in DOMAIN c.requests PROVE Posted(c, c.requests[i])
    OBVIOUS
  <2>1. at(i) \in DOMAIN b.requests /\ c.requests[i] = b.requests[at(i)]
    BY <1>3
  <2> HIDE DEF at
  <2>2. Posted(b, b.requests[at(i)])
    BY <1>1, <2>1
  <2> QED
    BY <1>0, <2>1, <2>2
<1>5. Good(c)
  <2>1. c.generation \in Nat /\ c.lang \in Langs /\ Texts(c)
    BY <1>2 DEF Good, Texts
  <2>2. Queued(b, b.visible) /\ Queued(b, b.prefetch)
    BY DEF Good
  <2>3. Queued(c, c.visible) /\ Queued(c, c.prefetch)
    BY <1>0, <1>2, <2>2
  <2> QED
    BY <1>2, <1>3, <1>4, <2>1, <2>3 DEF Good
<1>6. OldAborted(b) => OldAborted(c)
  <2> SUFFICES ASSUME OldAborted(b), NEW i \in DOMAIN c.requests PROVE AbortedIfOld(c, c.requests[i])
    BY DEF OldAborted
  <2>1. at(i) \in DOMAIN b.requests /\ c.requests[i] = b.requests[at(i)]
    BY <1>3
  <2> HIDE DEF at
  <2>2. AbortedIfOld(b, b.requests[at(i)])
    BY <2>1 DEF OldAborted
  <2> QED
    BY <1>0, <2>1, <2>2
<1>7. Carries(b, c)
  BY <1>2, <1>6 DEF Carries, Quiet, Running
<1>8. Posted(c, b.requests[k])
  BY <1>0, <1>1
<1>9. NoBatch(b) => NoBatch(c)
  BY <1>3 DEF NoBatch
<1>10. \A i \in DOMAIN c.requests : at(i) # k /\ i \in Int
  BY <1>1, <1>3
<1>11. ASSUME b.requests[k].kind \notin Rush PROVE NoBatch(c)
  <2>1. OneBatch(b)
    BY <1>11 DEF Pumping, NoBatch
  <2>2. \A j \in DOMAIN b.requests : j # k => b.requests[j].kind \in Rush
    BY <1>11, <2>1 DEF OneBatch
  <2> QED
    BY <1>3, <1>10, <2>2 DEF NoBatch
<1>12. ASSUME b.requests[k].kind \in Rush, OneBatch(b) PROVE OneBatch(c)
  <2>1. PICK j \in DOMAIN b.requests : /\ b.requests[j].kind \notin Rush
                                      /\ \A l \in DOMAIN b.requests : b.requests[l].kind \notin Rush => l = j
    BY <1>12 DEF OneBatch
  <2> DEFINE i == IF j < k THEN j ELSE j - 1
  <2>2. j # k /\ j \in 1 .. Len(b.requests) /\ k \in 1 .. Len(b.requests)
    BY <1>1, <1>12, <2>1
  <2>3. i \in DOMAIN c.requests /\ at(i) = j
    BY <1>1, <1>3, <2>2
  <2>4. c.requests[i].kind \notin Rush
    BY <1>3, <2>1, <2>3
  <2>5. ASSUME NEW l \in DOMAIN c.requests, c.requests[l].kind \notin Rush PROVE l = i
    <3>1. at(l) = j
      BY <1>3, <2>1, <2>5
    <3>2. l \in Int /\ k \in Int
      BY <1>1, <1>10
    <3> QED
      BY <2>2, <3>1, <3>2
  <2> HIDE DEF i
  <2> QED
    BY <2>3, <2>4, <2>5 DEF OneBatch
<1>13. b.requests[k].kind \in Rush => Pumping(c)
  BY <1>2, <1>9, <1>12 DEF Pumping
<1> QED
  BY <1>5, <1>7, <1>8, <1>11, <1>13

-----------------------------------------------------------------------------
(* The reader: its steps.                                                   *)

\* Between two handlers: one pump, right texts, and quiet when off.
ReaderInv == Good(client) /\ Pumping(client) /\ Quiet(client) /\ page \in Pages

\* What a step does to the record of translator.js.
Handled == Moves(client, client') /\ page' \in Pages
Remembered == client.failed \subseteq client'.failed

LEMMA HandledKeeps == ASSUME ReaderInv, Handled PROVE ReaderInv'
BY DEF ReaderInv, Handled, Moves

LEMMA CarriesHandles ==
    ASSUME ReaderInv, Good(client'), Pumping(client'), Carries(client, client'), page' \in Pages
    PROVE  Handled /\ Remembered
BY Moving DEF Handled, Remembered

LEMMA ContinuationHandles ==
    ASSUME ReaderInv, NEW k \in DOMAIN client.requests, NEW result, NEW good, NEW p,
           Continues(Continuation(k, result, good, p))
    PROVE  Handled /\ Remembered
<1> DEFINE r == client.requests[k]
           c == [client EXCEPT !.requests = Removed(@, k), !.policy = p]
<1>1. /\ client' = (IF r.kind \in Rush THEN RushEnds(c, r, result) ELSE BatchEnds(c, r, result, good))
      /\ page' \in Pages
  BY Zenon DEF Continues, Continuation, ReaderInv
<1>2. /\ Good(c) /\ Carries(client, c) /\ Posted(c, r)
      /\ r.kind \in Rush => Pumping(c)
      /\ r.kind \notin Rush => NoBatch(c)
  BY Answering DEF ReaderInv
<1> HIDE DEF r, c
<1>3. CASE r.kind \in Rush
  <2>1. client' = RushEnds(c, r, result)
    BY <1>1, <1>3
  <2>2. Good(client') /\ Carries(c, client') /\ Pumping(client')
    BY <1>2, <1>3, <2>1, RushEndsKeeps
  <2>3. Carries(client, client')
    BY <1>2, <2>2 DEF Carries
  <2> QED
    BY <1>1, <2>2, <2>3, CarriesHandles
<1>4. CASE r.kind \notin Rush
  <2>1. client' = BatchEnds(c, r, result, good)
    BY <1>1, <1>4
  <2>2. Good(client') /\ Carries(c, client') /\ Pumping(client')
    BY <1>2, <1>4, <2>1, BatchEndsKeeps
  <2>3. Carries(client, client')
    BY <1>2, <2>2 DEF Carries
  <2> QED
    BY <1>1, <2>2, <2>3, CarriesHandles
<1> QED
  BY <1>3, <1>4

\* A request goes on: another stage, route or language of its body, the same items.
LEMMA RequestGoesOn ==
    ASSUME NEW c, Good(c), NEW d, Shaped(d), Texts(d),
           d.generation = c.generation, d.lang = c.lang, d.mode = c.mode, d.route = c.route,
           c.failed \subseteq d.failed, d.pump = c.pump,
           d.visible = c.visible, d.prefetch = c.prefetch,
           d.requests \in Seq(ReaderRequest), DOMAIN d.requests = DOMAIN c.requests,
           \A k \in DOMAIN c.requests :
              LET r == c.requests[k]
                  s == d.requests[k]
              IN  /\ s.items = r.items /\ (s.lang = r.lang \/ s.lang = c.lang)
                  /\ s.kind \in Rush <=> r.kind \in Rush
    PROVE  Good(d) /\ (Pumping(c) => Pumping(d)) /\ (Quiet(c) => Quiet(d))
<1>1. /\ c.generation \in Nat /\ \A k \in DOMAIN c.requests : Posted(c, c.requests[k])
  BY DEF Good
<1>2. ASSUME NEW k \in DOMAIN d.requests PROVE Posted(d, d.requests[k])
  <2> DEFINE r == c.requests[k]
             s == d.requests[k]
  <2>1. s \in ReaderRequest /\ s.items = r.items /\ (s.lang = r.lang \/ s.lang = c.lang)
    OBVIOUS
  <2>2. Posted(c, r)
    BY <1>1
  <2>3. Posted(c, s)
    BY <2>1, <2>2 DEF Posted
  <2> QED
    BY <2>3, SameGeneration
<1>3. Good(d)
  BY <1>1, <1>2, SameGeneration DEF Good
<1>4. Pumping(c) => Pumping(d)
  BY DEF Pumping, NoBatch, OneBatch
<1> QED
  BY <1>3, <1>4 DEF Quiet, Running

LEMMA AlikeMoves ==
    ASSUME ReaderInv, NEW e, Alike(client, e), Quiet(e)
    PROVE  Good(e) /\ Pumping(e) /\ Moves(client, e) /\ e.generation = client.generation
<1>1. Good(e) /\ Pumping(e)
  BY AlikeGood DEF ReaderInv
<1> QED
  BY <1>1 DEF Moves, Alike

LEMMA Composed ==
    ASSUME NEW c, NEW d, NEW e, Moves(c, d)
    PROVE  /\ Good(e) /\ Pumping(e) /\ Carries(d, e) => Moves(c, e)
           /\ d.generation = c.generation /\ Moves(d, e) => Moves(c, e)
BY DEF Moves, Carries

\* The fields that an event changes before it goes on.
LEMMA EventFields ==
    ASSUME NEW c, Shaped(c), NEW x
    PROVE  /\ Alike(c, [c EXCEPT !.mode = x]) /\ [c EXCEPT !.mode = x].mode = x
           /\ [c EXCEPT !.mode = x].route = c.route /\ [c EXCEPT !.mode = x].failed = c.failed
           /\ Alike(c, [c EXCEPT !.route = x]) /\ [c EXCEPT !.route = x].failed = c.failed
           /\ [c EXCEPT !.route = x].mode = c.mode
           /\ Alike(c, [c EXCEPT !.timer = x]) /\ [c EXCEPT !.timer = x].failed = c.failed
           /\ [c EXCEPT !.timer = x].mode = c.mode /\ [c EXCEPT !.timer = x].route = c.route
           /\ Alike(c, [c EXCEPT !.lastFirst = x]) /\ [c EXCEPT !.lastFirst = x].failed = c.failed
           /\ [c EXCEPT !.lastFirst = x].mode = c.mode /\ [c EXCEPT !.lastFirst = x].route = c.route
           /\ Alike(c, [c EXCEPT !.prefetchEnabled = x]) /\ [c EXCEPT !.prefetchEnabled = x].failed = c.failed
           /\ [c EXCEPT !.prefetchEnabled = x].mode = c.mode /\ [c EXCEPT !.prefetchEnabled = x].route = c.route
           /\ Alike(c, [c EXCEPT !.rateLimited = x]) /\ [c EXCEPT !.rateLimited = x].failed = c.failed
           /\ [c EXCEPT !.rateLimited = x].mode = c.mode /\ [c EXCEPT !.rateLimited = x].route = c.route
           /\ Alike(c, [c EXCEPT !.gap = x]) /\ [c EXCEPT !.gap = x].failed = c.failed
           /\ [c EXCEPT !.gap = x].mode = c.mode /\ [c EXCEPT !.gap = x].route = c.route
           /\ Alike(c, [c EXCEPT !.failed = x])
           /\ [c EXCEPT !.failed = x].mode = c.mode /\ [c EXCEPT !.failed = x].route = c.route
BY DEF Alike, Shaped, Variables

LEMMA TurnPageStep == ASSUME ReaderInv, TurnPage PROVE Handled /\ Remembered
<1>1. client' = client /\ page' \in Pages
  BY DEF TurnPage, Event
<1> QED
  BY <1>1 DEF ReaderInv, Handled, Remembered, Moves

LEMMA RelocatedStep == ASSUME ReaderInv, Relocated PROVE Handled /\ Remembered
<1>1. PICK g \in Pages : page' = g /\ client' = Rediscover(client, g)
  BY DEF Relocated, Event
<1> QED
  BY <1>1, RediscoverMoves DEF ReaderInv, Handled, Remembered

LEMMA SwitchOnStep == ASSUME ReaderInv, SwitchOn PROVE Handled /\ Remembered
<1> DEFINE e == [client EXCEPT !.mode = "on"]
<1>1. /\ client.mode = "off" /\ client' = TranslateCurrentPage(e, page) /\ page' = page /\ page \in Pages
      /\ Shaped(client) /\ Quiet(client)
  BY DEF SwitchOn, Event, ReaderInv, Good
<1>2. Alike(client, e) /\ e.failed = client.failed
  BY <1>1 DEF Alike, Shaped, Variables
<1>3. Quiet(e)
  BY <1>1, <1>2 DEF Quiet, Running, Alike
<1> HIDE DEF e
<1>4. Good(e) /\ Pumping(e) /\ Moves(client, e)
  BY <1>2, <1>3, AlikeMoves
<1>5. Good(client') /\ Carries(e, client') /\ Pumping(client')
  BY <1>1, <1>4, PageKeeps
<1>6. Moves(client, client')
  BY <1>4, <1>5, Composed
<1> QED
  BY <1>1, <1>2, <1>5, <1>6 DEF Handled, Remembered, Carries

\* Off, or away: a new generation, and a pump that waits for the gap ends.
LEMMA LeavingMoves ==
    ASSUME ReaderInv, NEW e, Alike(client, e), e.failed = client.failed,
           client' = Wake(NewGeneration(e)), page' = page
    PROVE  Handled /\ Remembered
<1> DEFINE n == NewGeneration(e)
<1>1. /\ Shaped(e) /\ e.requests = client.requests /\ e.generation = client.generation
      /\ e.pump = client.pump /\ e.lang \in Langs /\ Texts(e) /\ Good(client) /\ Pumping(client)
      /\ page \in Pages
  BY DEF Alike, ReaderInv, Good, Texts
<1>2. Good(n) /\ Quiet(n) /\ OldAborted(n) /\ Pumping(n)
  BY <1>1, GenerationRenewed
<1>3. n.failed = e.failed
  BY <1>1, NewGenerationFields
<1> HIDE DEF n
<1>4. Good(client') /\ Carries(n, client') /\ Pumping(client')
  BY <1>2, PumpQueueKeeps DEF n
<1> QED
  BY <1>1, <1>2, <1>3, <1>4 DEF Handled, Remembered, Moves, Carries

LEMMA SwitchOffStep == ASSUME ReaderInv, SwitchOff PROVE Handled /\ Remembered
<1> DEFINE e == [client EXCEPT !.mode = "off"]
<1>1. Shaped(client) /\ client' = Wake(NewGeneration(e)) /\ page' = page
  BY DEF SwitchOff, Event, ReaderInv, Good
<1>2. Alike(client, e) /\ e.failed = client.failed
  BY <1>1 DEF Alike, Shaped, Variables
<1> HIDE DEF e
<1> QED
  BY <1>1, <1>2, LeavingMoves

LEMMA LeaveRouteStep == ASSUME ReaderInv, LeaveRoute PROVE Handled /\ Remembered
<1> DEFINE e == [client EXCEPT !.route = FALSE, !.timer = FALSE]
<1>1. Shaped(client) /\ client' = Wake(NewGeneration(e)) /\ page' = page
  BY DEF LeaveRoute, Event, ReaderInv, Good
<1>2. Alike(client, e) /\ e.failed = client.failed
  BY <1>1 DEF Alike, Shaped, Variables
<1> HIDE DEF e
<1> QED
  BY <1>1, <1>2, LeavingMoves

LEMMA SwitchModeStep == ASSUME ReaderInv, SwitchMode PROVE Handled /\ Remembered
<1>1. client' = TranslateCurrentPage(client, page) /\ page' = page /\ page \in Pages
      /\ Good(client) /\ Pumping(client)
  BY DEF SwitchMode, Event, ReaderInv
<1>2. Good(client') /\ Carries(client, client') /\ Pumping(client')
  BY <1>1, PageKeeps
<1> QED
  BY <1>1, <1>2, CarriesHandles

LEMMA ForgottenFields ==
    ASSUME NEW c, Shaped(c), NEW t, NEW d, d = [c EXCEPT !.translated = t]
    PROVE  /\ Shaped(d) /\ d.translated = t /\ d.lang = c.lang /\ d.requests = c.requests
           /\ d.generation = c.generation /\ d.pump = c.pump /\ d.failed = c.failed
           /\ d.visible = c.visible /\ d.prefetch = c.prefetch /\ d.mode = c.mode /\ d.route = c.route
BY DEF Shaped, Variables

Untranslated == [h \in Hash |-> Null]

LEMMA ForgottenWithin ==
    ASSUME NEW c, Good(c), NEW d, d = [c EXCEPT !.translated = Untranslated]
    PROVE  Within(c, d)
<1>1. Shaped(c) /\ Queued(c, c.visible) /\ Queued(c, c.prefetch)
  BY DEF Good
<1>2. /\ Shaped(d) /\ d.translated = Untranslated /\ d.lang = c.lang /\ d.requests = c.requests
      /\ d.generation = c.generation /\ d.pump = c.pump /\ d.failed = c.failed
      /\ d.visible = c.visible /\ d.prefetch = c.prefetch /\ d.mode = c.mode /\ d.route = c.route
  BY <1>1, ForgottenFields
<1>3. Texts(d)
  BY <1>2 DEF Texts, Untranslated
<1> QED
  BY <1>1, <1>2, <1>3 DEF Within, Quiet, Running

LEMMA ChangeLanguageStep == ASSUME ReaderInv, ChangeLanguage PROVE Handled /\ Remembered
<1>1. PICK l \in Langs :
        client' = Wake(TranslateCurrentPage([NewGeneration([client EXCEPT !.lang = l])
                                              EXCEPT !.translated = Untranslated], page))
  BY DEF ChangeLanguage, Event, Untranslated
<1> DEFINE e == [client EXCEPT !.lang = l]
           n == NewGeneration(e)
           x == [n EXCEPT !.translated = Untranslated]
           y == TranslateCurrentPage(x, page)
<1>2. Good(client) /\ Pumping(client) /\ Shaped(client) /\ page' = page /\ page \in Pages /\ Texts(client)
  BY DEF ChangeLanguage, ReaderInv, Good
<1>3. client' = Wake(y)
  BY <1>1
<1>4. /\ Shaped(e) /\ e.lang = l /\ e.requests = client.requests /\ e.generation = client.generation
      /\ e.pump = client.pump /\ e.translated = client.translated /\ e.failed = client.failed
  BY <1>2 DEF Shaped, Variables
<1> HIDE DEF e
<1>5. Good(n) /\ Quiet(n) /\ OldAborted(n) /\ Pumping(n)
  <2>1. Texts(e)
    BY <1>2, <1>4 DEF Texts
  <2> QED
    BY <1>2, <1>4, <2>1, GenerationRenewed
<1>6. n.failed = client.failed
  BY <1>4, NewGenerationFields
<1> HIDE DEF n
<1>7. Within(n, x)
  BY <1>5, ForgottenWithin
<1> HIDE DEF x
<1>8. Good(x) /\ Carries(n, x) /\ Pumping(x)
  BY <1>5, <1>7, WithinKeeps
<1>9. Good(y) /\ Carries(x, y) /\ Pumping(y)
  BY <1>2, <1>8, PageKeeps
<1> HIDE DEF y
<1>10. Good(client') /\ Carries(y, client') /\ Pumping(client')
  BY <1>3, <1>9, PumpQueueKeeps
<1> QED
  BY <1>2, <1>5, <1>6, <1>8, <1>9, <1>10 DEF Handled, Remembered, Moves, Carries

\* An event that only looks at the page again.
LEMMA LooksAgain ==
    ASSUME ReaderInv, NEW e, Alike(client, e), Quiet(e), client.failed \subseteq e.failed,
           client' = Rediscover(e, page), page' = page
    PROVE  Handled /\ Remembered
<1>1. Good(e) /\ Pumping(e) /\ Moves(client, e) /\ e.generation = client.generation
  BY AlikeMoves
<1>2. page \in Pages
  BY DEF ReaderInv
<1>3. Moves(e, client') /\ e.failed \subseteq client'.failed
  BY <1>1, <1>2, RediscoverMoves
<1>4. Moves(client, client')
  BY <1>1, <1>3, Composed
<1> QED
  BY <1>2, <1>3, <1>4 DEF Handled, Remembered

LEMMA EnterRouteStep == ASSUME ReaderInv, EnterRoute PROVE Handled /\ Remembered
<1> DEFINE e == [client EXCEPT !.route = TRUE]
<1>1. Shaped(client) /\ ~client.route /\ client' = Rediscover(e, page) /\ page' = page /\ Quiet(client)
  BY DEF EnterRoute, Event, ReaderInv, Good
<1>2. Alike(client, e) /\ e.failed = client.failed
  BY <1>1 DEF Alike, Shaped, Variables
<1> HIDE DEF e
<1>3. Quiet(e)
  BY <1>1, <1>2 DEF Quiet, Running, Alike
<1> QED
  BY <1>1, <1>2, <1>3, LooksAgain

LEMMA MutationStep == ASSUME ReaderInv, Mutation PROVE Handled /\ Remembered
<1> DEFINE e == [client EXCEPT !.timer = TRUE]
           n == NewGeneration(e)
           x == [n EXCEPT !.lastFirst = Null]
<1>1. /\ client' = (IF Rediscovers THEN Wake(x) ELSE e) /\ page' = page /\ page \in Pages
      /\ Good(client) /\ Pumping(client) /\ Shaped(client) /\ Quiet(client)
  BY DEF Mutation, Event, ReaderInv, Good
<1>2. Alike(client, e) /\ e.failed = client.failed /\ e.mode = client.mode /\ e.route = client.route
  BY <1>1, EventFields
<1> HIDE DEF e
<1>3. Quiet(e)
  BY <1>1, <1>2 DEF Quiet, Running, Alike
<1>4. Good(e) /\ Pumping(e) /\ Moves(client, e) /\ e.generation = client.generation
  BY <1>2, <1>3, AlikeMoves
<1>5. Good(n) /\ Quiet(n) /\ OldAborted(n) /\ Pumping(n)
  BY <1>4, GenerationRenewed DEF Good
<1>6. n.failed = e.failed /\ Shaped(n)
  BY <1>4, NewGenerationFields DEF Good
<1> HIDE DEF n
<1>7. Alike(n, x) /\ x.failed = n.failed /\ x.mode = n.mode /\ x.route = n.route
  BY <1>6, EventFields
<1> HIDE DEF x
<1>8. Within(n, x)
  BY <1>5, <1>7, AlikeWithin
<1>9. Good(x) /\ Carries(n, x) /\ Pumping(x)
  BY <1>5, <1>8, WithinKeeps
<1>10. CASE client' = e
  BY <1>1, <1>2, <1>4, <1>10 DEF Handled, Remembered
<1>11. CASE client' = Wake(x)
  <2>1. Good(client') /\ Carries(x, client') /\ Pumping(client')
    BY <1>9, <1>11, PumpQueueKeeps
  <2> QED
    BY <1>1, <1>2, <1>5, <1>6, <1>9, <2>1 DEF Handled, Remembered, Moves, Carries
<1> QED
  BY <1>1, <1>10, <1>11

LEMMA TogglePrefetchStep == ASSUME ReaderInv, TogglePrefetch PROVE Handled /\ Remembered
<1> DEFINE e == [client EXCEPT !.prefetchEnabled = ~@]
           x == [e EXCEPT !.prefetch = << >>]
<1>1. /\ client' = Rediscover(e, page) \/ client' = x
      /\ page' = page /\ page \in Pages /\ Shaped(client) /\ Quiet(client) /\ Good(client) /\ Pumping(client)
  BY DEF TogglePrefetch, Event, ReaderInv, Good
<1>2. Alike(client, e) /\ e.failed = client.failed /\ e.mode = client.mode /\ e.route = client.route
  BY <1>1 DEF Alike, Shaped, Variables
<1> HIDE DEF e
<1>3. Quiet(e)
  BY <1>1, <1>2 DEF Quiet, Running, Alike
<1>4. CASE client' = Rediscover(e, page)
  BY <1>1, <1>2, <1>3, <1>4, LooksAgain
<1>5. CASE client' = x
  <2>1. Good(e) /\ Pumping(e) /\ Moves(client, e)
    BY <1>2, <1>3, AlikeMoves
  <2>2. /\ Shaped(x) /\ x.generation = e.generation /\ x.lang = e.lang /\ x.translated = e.translated
        /\ x.requests = e.requests /\ x.pump = e.pump /\ x.visible = e.visible /\ x.prefetch = << >>
        /\ x.mode = e.mode /\ x.route = e.route /\ x.failed = e.failed
    BY <1>2 DEF Alike, Shaped, Variables
  <2> HIDE DEF x
  <2>3. Within(e, x)
    BY <2>1, <2>2, EmptyFits DEF Within, Good, Texts, Quiet, Running
  <2>4. Good(x) /\ Carries(e, x) /\ Pumping(x)
    BY <2>1, <2>3, WithinKeeps
  <2>5. Moves(client, x)
    BY <2>1, <2>4, Composed
  <2> QED
    BY <1>1, <1>2, <1>5, <2>2, <2>5 DEF Handled, Remembered
<1> QED
  BY <1>1, <1>4, <1>5

LEMMA PollStep == ASSUME ReaderInv, Poll PROVE Handled /\ Remembered
<1> DEFINE e == [client EXCEPT !.lastFirst = page]
<1>1. Shaped(client) /\ client' = Rediscover(e, page) /\ page' = page /\ Quiet(client)
  BY DEF Poll, Event, ReaderInv, Good
<1>2. Alike(client, e) /\ e.failed = client.failed /\ e.mode = client.mode /\ e.route = client.route
  BY <1>1, EventFields
<1> HIDE DEF e
<1>3. Quiet(e)
  BY <1>1, <1>2 DEF Quiet, Running, Alike
<1> QED
  BY <1>1, <1>2, <1>3, LooksAgain

-----------------------------------------------------------------------------
(* The reader: the user asks again for what failed.                         *)

LEMMA RetryStep == ASSUME ReaderInv, Retry PROVE Handled
<1> DEFINE e == [client EXCEPT !.failed = {}]
<1>1. Shaped(client) /\ client' = Rediscover(e, page) /\ page' = page /\ page \in Pages /\ Quiet(client)
  BY DEF Retry, Event, ReaderInv, Good
<1>2. Alike(client, e) /\ e.mode = client.mode /\ e.route = client.route
  BY <1>1, EventFields
<1> HIDE DEF e
<1>3. Quiet(e)
  BY <1>1, <1>2 DEF Quiet, Running, Alike
<1>4. Good(e) /\ Pumping(e) /\ Moves(client, e) /\ e.generation = client.generation
  BY <1>2, <1>3, AlikeMoves
<1>5. Moves(e, client')
  BY <1>1, <1>4, RediscoverMoves
<1>6. Moves(client, client')
  BY <1>4, <1>5, Composed
<1> QED
  BY <1>1, <1>6 DEF Handled

LEMMA RetryStatusStep == ASSUME ReaderInv, RetryStatus PROVE Handled
<1> DEFINE e == [client EXCEPT !.failed = {}, !.limited = [h \in Hash |-> 0], !.answers = [h \in Hash |-> 0]]
<1>1. Shaped(client) /\ client' = TranslateCurrentPage(e, page) /\ page' = page /\ page \in Pages /\ Quiet(client)
  BY DEF RetryStatus, Event, ReaderInv, Good
<1>2. Alike(client, e) /\ e.mode = client.mode /\ e.route = client.route
  BY <1>1 DEF Alike, Shaped, Variables
<1> HIDE DEF e
<1>3. Quiet(e)
  BY <1>1, <1>2 DEF Quiet, Running, Alike
<1>4. Good(e) /\ Pumping(e) /\ Moves(client, e)
  BY <1>2, <1>3, AlikeMoves
<1>5. Good(client') /\ Carries(e, client') /\ Pumping(client')
  BY <1>1, <1>4, PageKeeps
<1>6. Moves(client, client')
  BY <1>4, <1>5, Composed
<1> QED
  BY <1>1, <1>6 DEF Handled

LEMMA ClearCacheStep == ASSUME ReaderInv, ClearCache PROVE Handled
<1> DEFINE e == [client EXCEPT !.failed = {}, !.limited = [h \in Hash |-> 0], !.answers = [h \in Hash |-> 0]]
           x == [e EXCEPT !.translated = Untranslated]
<1>1. Shaped(client) /\ client' = x /\ page' = page /\ page \in Pages /\ Quiet(client)
  BY DEF ClearCache, Event, ReaderInv, Good, Untranslated
<1>2. Alike(client, e) /\ e.mode = client.mode /\ e.route = client.route
  BY <1>1 DEF Alike, Shaped, Variables
<1> HIDE DEF e
<1>3. Quiet(e)
  BY <1>1, <1>2 DEF Quiet, Running, Alike
<1>4. Good(e) /\ Pumping(e) /\ Moves(client, e)
  BY <1>2, <1>3, AlikeMoves
<1>5. Within(e, x)
  BY <1>4, ForgottenWithin
<1> HIDE DEF x
<1>6. Good(x) /\ Carries(e, x) /\ Pumping(x)
  BY <1>4, <1>5, WithinKeeps
<1>7. Moves(client, x)
  BY <1>4, <1>6, Composed
<1> QED
  BY <1>1, <1>7 DEF Handled

-----------------------------------------------------------------------------
(* The reader: timers and answers.                                          *)

LEMMA TimerFiresStep == ASSUME ReaderInv, TimerFires PROVE Handled /\ Remembered
<1> DEFINE e == [client EXCEPT !.timer = FALSE]
<1>1. Shaped(client) /\ client' = TranslateCurrentPage(e, page) /\ page' = page /\ page \in Pages /\ Quiet(client)
  BY DEF TimerFires, Turn, ReaderInv, Good
<1>2. Alike(client, e) /\ e.failed = client.failed /\ e.mode = client.mode /\ e.route = client.route
  BY <1>1, EventFields
<1> HIDE DEF e
<1>3. Quiet(e)
  BY <1>1, <1>2 DEF Quiet, Running, Alike
<1>4. Good(e) /\ Pumping(e) /\ Moves(client, e)
  BY <1>2, <1>3, AlikeMoves
<1>5. Good(client') /\ Carries(e, client') /\ Pumping(client')
  BY <1>1, <1>4, PageKeeps
<1>6. Moves(client, client')
  BY <1>4, <1>5, Composed
<1> QED
  BY <1>1, <1>2, <1>5, <1>6 DEF Handled, Remembered, Carries

LEMMA LimitEndsStep == ASSUME ReaderInv, LimitEnds PROVE Handled /\ Remembered
<1> DEFINE e == [client EXCEPT !.rateLimited = FALSE]
<1>1. Shaped(client) /\ client' = e /\ page' = page /\ page \in Pages /\ Quiet(client)
  BY DEF LimitEnds, Turn, ReaderInv, Good
<1>2. Alike(client, e) /\ e.failed = client.failed /\ e.mode = client.mode /\ e.route = client.route
  BY <1>1, EventFields
<1> HIDE DEF e
<1>3. Quiet(e)
  BY <1>1, <1>2 DEF Quiet, Running, Alike
<1>4. Moves(client, e)
  BY <1>2, <1>3, AlikeMoves
<1> QED
  BY <1>1, <1>2, <1>4 DEF Handled, Remembered

LEMMA GapEndsStep == ASSUME ReaderInv, GapEnds PROVE Handled /\ Remembered
<1> DEFINE e == [client EXCEPT !.gap = FALSE]
<1>1. Shaped(client) /\ client' = Wake(e) /\ page' = page /\ page \in Pages /\ Quiet(client)
  BY DEF GapEnds, Turn, ReaderInv, Good
<1>2. Alike(client, e) /\ e.failed = client.failed /\ e.mode = client.mode /\ e.route = client.route
  BY <1>1, EventFields
<1> HIDE DEF e
<1>3. Quiet(e)
  BY <1>1, <1>2 DEF Quiet, Running, Alike
<1>4. Good(e) /\ Pumping(e) /\ Moves(client, e)
  BY <1>2, <1>3, AlikeMoves
<1>5. Good(client') /\ Carries(e, client') /\ Pumping(client')
  BY <1>1, <1>4, PumpQueueKeeps
<1>6. Moves(client, client')
  BY <1>4, <1>5, Composed
<1> QED
  BY <1>1, <1>2, <1>5, <1>6 DEF Handled, Remembered, Carries

LEMMA PumpResumesStep == ASSUME ReaderInv, PumpResumes PROVE Handled /\ Remembered
<1>1. client.pump = "limited" /\ client' = Pump(client) /\ page' = page /\ page \in Pages
  BY DEF PumpResumes, Turn, ReaderInv
<1>2. Good(client) /\ NoBatch(client)
  BY <1>1 DEF ReaderInv, Pumping
<1>3. Good(client') /\ Carries(client, client') /\ Pumping(client')
  BY <1>1, <1>2, PumpKeeps
<1> QED
  BY <1>1, <1>3, CarriesHandles

Unchanged(c, d) ==
    /\ Shaped(d) /\ d.generation = c.generation /\ d.lang = c.lang /\ d.mode = c.mode
    /\ d.route = c.route /\ d.failed = c.failed /\ d.pump = c.pump /\ d.visible = c.visible
    /\ d.prefetch = c.prefetch /\ d.translated = c.translated

\* Requests change their stage only.
LEMMA StagesMove ==
    ASSUME ReaderInv, Unchanged(client, client'), page' = page,
           client'.requests \in Seq(ReaderRequest),
           DOMAIN client'.requests = DOMAIN client.requests,
           \A k \in DOMAIN client.requests :
              LET r == client.requests[k]
                  s == client'.requests[k]
              IN  /\ s.items = r.items /\ (s.lang = r.lang \/ s.lang = client.lang)
                  /\ s.kind \in Rush <=> r.kind \in Rush
    PROVE  Handled /\ Remembered
<1> DEFINE c == client
           d == client'
<1>1. /\ Good(c) /\ Pumping(c) /\ Quiet(c) /\ page' \in Pages /\ Texts(c)
  BY DEF ReaderInv, Good
<1>2. /\ Shaped(d) /\ Texts(d) /\ d.generation = c.generation /\ d.lang = c.lang /\ d.mode = c.mode
      /\ d.route = c.route /\ c.failed \subseteq d.failed /\ d.pump = c.pump
      /\ d.visible = c.visible /\ d.prefetch = c.prefetch
  BY <1>1 DEF Unchanged, Texts
<1>3. /\ d.requests \in Seq(ReaderRequest) /\ DOMAIN d.requests = DOMAIN c.requests
      /\ \A k \in DOMAIN c.requests :
              LET r == c.requests[k]
                  s == d.requests[k]
              IN  /\ s.items = r.items /\ (s.lang = r.lang \/ s.lang = c.lang)
                  /\ s.kind \in Rush <=> r.kind \in Rush
  OBVIOUS
<1> HIDE DEF c, d
<1>4. Good(d) /\ (Pumping(c) => Pumping(d)) /\ (Quiet(c) => Quiet(d))
  BY <1>1, <1>2, <1>3, RequestGoesOn
<1> QED
  BY <1>1, <1>2, <1>4 DEF Handled, Remembered, Moves, c, d

LEMMA RequestFields ==
    ASSUME NEW r \in ReaderRequest, NEW st \in {"policy", "sent", "refresh", "refused"}, NEW l \in Langs,
           NEW kind \in {"stream", "single", "visible", "prefetch"}, NEW rp \in {"no", "session", "stream"}
    PROVE  /\ [r EXCEPT !.stage = st] \in ReaderRequest
           /\ [r EXCEPT !.stage = st].items = r.items /\ [r EXCEPT !.stage = st].lang = r.lang
           /\ [r EXCEPT !.stage = st].kind = r.kind
           /\ [r EXCEPT !.stage = st, !.lang = l] \in ReaderRequest
           /\ [r EXCEPT !.stage = st, !.lang = l].items = r.items
           /\ [r EXCEPT !.stage = st, !.lang = l].lang = l
           /\ [r EXCEPT !.stage = st, !.lang = l].kind = r.kind
           /\ [r EXCEPT !.stage = st, !.lang = l, !.replay = rp] \in ReaderRequest
           /\ [r EXCEPT !.stage = st, !.lang = l, !.replay = rp].items = r.items
           /\ [r EXCEPT !.stage = st, !.lang = l, !.replay = rp].lang = l
           /\ [r EXCEPT !.stage = st, !.lang = l, !.replay = rp].kind = r.kind
           /\ [r EXCEPT !.kind = kind, !.replay = rp, !.lang = l, !.stage = st] \in ReaderRequest
           /\ [r EXCEPT !.kind = kind, !.replay = rp, !.lang = l, !.stage = st].items = r.items
           /\ [r EXCEPT !.kind = kind, !.replay = rp, !.lang = l, !.stage = st].lang = l
           /\ [r EXCEPT !.kind = kind, !.replay = rp, !.lang = l, !.stage = st].kind = kind
BY DEF ReaderRequest

LEMMA RequestsFields ==
    ASSUME NEW c, Shaped(c), NEW q, NEW p
    PROVE  /\ Unchanged(c, [c EXCEPT !.requests = q]) /\ [c EXCEPT !.requests = q].requests = q
           /\ Unchanged(c, [c EXCEPT !.policy = p, !.requests = q])
           /\ [c EXCEPT !.policy = p, !.requests = q].requests = q
BY DEF Unchanged, Shaped, Variables

LEMMA PolicyEndsStep == ASSUME ReaderInv, PolicyEnds PROVE Handled /\ Remembered
<1>1. PICK ok \in BOOLEAN :
        client' = [client EXCEPT !.policy = ok,
                 !.requests = [k \in DOMAIN @ |->
                    IF @[k].stage # "policy" THEN @[k]
                    ELSE [@[k] EXCEPT !.stage = IF ok THEN "sent" ELSE "refused", !.lang = client.lang]]]
  BY DEF PolicyEnds, Turn
<1>2. /\ page' = page /\ Shaped(client) /\ client.lang \in Langs /\ client.requests \in Seq(ReaderRequest)
      /\ Len(client.requests) \in Nat /\ DOMAIN client.requests = 1 .. Len(client.requests)
  BY DEF PolicyEnds, Turn, ReaderInv, Good
<1> DEFINE q == client.requests
           st == IF ok THEN "sent" ELSE "refused"
           s(k) == IF q[k].stage # "policy" THEN q[k] ELSE [q[k] EXCEPT !.stage = st, !.lang = client.lang]
           f == [k \in 1 .. Len(q) |-> s(k)]
<1>3. ASSUME NEW k \in 1 .. Len(q)
      PROVE  s(k) \in ReaderRequest /\ s(k).items = q[k].items /\ s(k).kind = q[k].kind
             /\ (s(k).lang = q[k].lang \/ s(k).lang = client.lang)
  <2>1. q[k] \in ReaderRequest /\ st \in {"policy", "sent", "refresh", "refused"} /\ client.lang \in Langs
    BY <1>2
  <2> HIDE DEF st, q
  <2> QED
    BY <2>1 DEF ReaderRequest
<1>4. client' = [client EXCEPT !.policy = ok, !.requests = f]
  BY <1>1, <1>2 DEF Shaped, Variables
<1> HIDE DEF s
<1>5. f \in Seq(ReaderRequest) /\ DOMAIN f = 1 .. Len(q) /\ \A k \in 1 .. Len(q) : f[k] = s(k)
  BY <1>2, <1>3
<1> HIDE DEF f
<1>6. Unchanged(client, client') /\ client'.requests = f
  BY <1>2, <1>4 DEF Unchanged, Shaped, Variables
<1>7. \A k \in DOMAIN client.requests :
              LET r == client.requests[k]
                  t == client'.requests[k]
              IN  /\ t.items = r.items /\ (t.lang = r.lang \/ t.lang = client.lang)
                  /\ t.kind \in Rush <=> r.kind \in Rush
  BY <1>2, <1>3, <1>5, <1>6
<1> QED
  BY <1>2, <1>5, <1>6, <1>7, StagesMove

\* One request goes on.
LEMMA OneGoesOn ==
    ASSUME ReaderInv, page' = page, NEW k \in DOMAIN client.requests, NEW t \in ReaderRequest,
           LET r == client.requests[k]
           IN  /\ t.items = r.items /\ (t.lang = r.lang \/ t.lang = client.lang)
               /\ t.kind \in Rush <=> r.kind \in Rush,
           Unchanged(client, client'), client'.requests = [client.requests EXCEPT ![k] = t]
    PROVE  Handled /\ Remembered
<1>1. client.requests \in Seq(ReaderRequest)
  BY DEF ReaderInv, Good
<1>2. client'.requests \in Seq(ReaderRequest) /\ DOMAIN client'.requests = DOMAIN client.requests
  BY <1>1
<1>3. \A j \in DOMAIN client.requests : client'.requests[j] = IF j = k THEN t ELSE client.requests[j]
  BY <1>1
<1> QED
  BY <1>2, <1>3, StagesMove

LEMMA RequestsHold ==
    ASSUME ReaderInv
    PROVE  /\ Shaped(client) /\ client.lang \in Langs
           /\ \A k \in DOMAIN client.requests : client.requests[k] \in ReaderRequest
BY DEF ReaderInv, Good

LEMMA UnauthorizedStep ==
    ASSUME ReaderInv, NEW k \in DOMAIN client.requests, Unauthorized(k) PROVE Handled /\ Remembered
<1> DEFINE r == client.requests[k]
           t == [r EXCEPT !.stage = "refresh"]
<1>1. Shaped(client) /\ r \in ReaderRequest /\ client.lang \in Langs
  BY RequestsHold
<1>2. page' = page /\ client' = [client EXCEPT !.requests = [client.requests EXCEPT ![k] = t]]
  BY <1>1 DEF Unauthorized, Turn, Shaped, Variables
<1>3. t \in ReaderRequest /\ t.items = r.items /\ t.lang = r.lang /\ t.kind = r.kind
  BY <1>1 DEF ReaderRequest
<1> HIDE DEF t
<1>4. Unchanged(client, client') /\ client'.requests = [client.requests EXCEPT ![k] = t]
  BY <1>1, <1>2, RequestsFields
<1> QED
  BY <1>2, <1>3, <1>4, OneGoesOn

LEMMA StreamFailsStep ==
    ASSUME ReaderInv, NEW k \in DOMAIN client.requests, StreamFails(k) PROVE Handled /\ Remembered
<1> DEFINE r == client.requests[k]
           st == IF client.policy THEN "sent" ELSE "policy"
           t == [r EXCEPT !.kind = "single", !.replay = "stream", !.lang = client.lang, !.stage = st]
<1>1. Shaped(client) /\ r \in ReaderRequest /\ client.lang \in Langs
  BY RequestsHold
<1>2. /\ page' = page /\ client' = [client EXCEPT !.requests = [client.requests EXCEPT ![k] = t]]
      /\ r.kind = "stream"
  BY <1>1 DEF StreamFails, Turn, Shaped, Variables
<1>3. t \in ReaderRequest /\ t.items = r.items /\ t.lang = client.lang /\ t.kind = "single"
  BY <1>1 DEF ReaderRequest
<1> HIDE DEF t
<1>4. Unchanged(client, client') /\ client'.requests = [client.requests EXCEPT ![k] = t]
  BY <1>1, <1>2, RequestsFields
<1>5. t.kind \in Rush /\ r.kind \in Rush
  BY <1>2, <1>3 DEF Rush
<1> QED
  BY <1>2, <1>3, <1>4, <1>5, OneGoesOn

LEMMA RejectStep ==
    ASSUME ReaderInv, NEW k \in DOMAIN client.requests, Reject(k) PROVE Handled /\ Remembered
<1>1. \E result : Continues(Continuation(k, result, {}, client.policy))
  BY Zenon DEF Reject, Ends
<1> QED
  BY <1>1, ContinuationHandles

LEMMA AnswerStep ==
    ASSUME ReaderInv, NEW k \in DOMAIN client.requests, Answer(k) PROVE Handled /\ Remembered
<1>1. \E result, good, p : Continues(Continuation(k, result, good, p))
  BY Zenon DEF Answer, Ends
<1> QED
  BY <1>1, ContinuationHandles

LEMMA RefreshedStep ==
    ASSUME ReaderInv, NEW k \in DOMAIN client.requests, Refreshed(k) PROVE Handled /\ Remembered
<1> DEFINE r == client.requests[k]
           t == [r EXCEPT !.stage = "sent", !.lang = client.lang, !.replay = "session"]
<1>1. \/ \E result, good, p : Continues(Continuation(k, result, good, p))
      \/ Continues([client EXCEPT !.policy = TRUE, !.requests[k] = t])
  BY Zenon DEF Refreshed
<1>2. CASE \E result, good, p : Continues(Continuation(k, result, good, p))
  BY <1>2, ContinuationHandles
<1>3. CASE Continues([client EXCEPT !.policy = TRUE, !.requests[k] = t])
  <2>1. Shaped(client) /\ r \in ReaderRequest /\ client.lang \in Langs
    BY RequestsHold
  <2>2. t \in ReaderRequest /\ t.items = r.items /\ t.lang = client.lang /\ t.kind = r.kind
    BY <2>1 DEF ReaderRequest
  <2> HIDE DEF t
  <2> DEFINE q == [client.requests EXCEPT ![k] = t]
             d == [client EXCEPT !.policy = TRUE, !.requests = q]
  <2>3. page' = page /\ client' = d
    BY <1>3, <2>1 DEF Continues, Shaped, Variables
  <2>4. Unchanged(client, client') /\ client'.requests = [client.requests EXCEPT ![k] = t]
    <3>1. Unchanged(client, d) /\ d.requests = q
      <4> HIDE DEF q
      <4> QED
        BY <2>1, RequestsFields, Zenon
    <3> HIDE DEF d
    <3> QED
      BY <2>3, <3>1
  <2> QED
    BY <2>2, <2>3, <2>4, OneGoesOn
<1> QED
  BY <1>1, <1>2, <1>3

-----------------------------------------------------------------------------
(* The reader: theorems.                                                    *)

Forgets == Retry \/ RetryStatus \/ ClearCache

LEMMA ReaderNextStep ==
    ASSUME ReaderInv, [ReaderNext]_readerVars
    PROVE  /\ ReaderInv' /\ (client'.generation # client.generation => OldAborted(client'))
           /\ Remembered \/ Forgets
<1>1. ASSUME Handled, Remembered \/ Forgets
      PROVE  /\ ReaderInv' /\ (client'.generation # client.generation => OldAborted(client'))
             /\ Remembered \/ Forgets
  BY <1>1, HandledKeeps DEF Handled, Moves
<1>2. CASE UNCHANGED readerVars
  <2>1. Handled /\ Remembered
    BY <1>2 DEF readerVars, ReaderInv, Handled, Moves, Remembered
  <2> QED
    BY <1>1, <2>1
<1>3. CASE ReaderStep
  <2>1. Handled /\ Remembered
    BY <1>3, TimerFiresStep, LimitEndsStep, PumpResumesStep, GapEndsStep, PolicyEndsStep, RejectStep,
       AnswerStep, UnauthorizedStep, RefreshedStep, StreamFailsStep DEF ReaderStep
  <2> QED
    BY <1>1, <2>1
<1>4. CASE Retry \/ RetryStatus \/ ClearCache
  <2>1. Handled
    BY <1>4, RetryStep, RetryStatusStep, ClearCacheStep
  <2> QED
    BY <1>1, <1>4, <2>1 DEF Forgets
<1>5. CASE \/ TurnPage \/ Relocated \/ SwitchOn \/ SwitchOff \/ SwitchMode \/ ChangeLanguage
           \/ LeaveRoute \/ EnterRoute \/ Mutation \/ TogglePrefetch \/ Poll
  <2>1. Handled /\ Remembered
    BY <1>5, TurnPageStep, RelocatedStep, SwitchOnStep, SwitchOffStep, SwitchModeStep, ChangeLanguageStep,
       LeaveRouteStep, EnterRouteStep, MutationStep, TogglePrefetchStep, PollStep
  <2> QED
    BY <1>1, <2>1
<1> QED
  BY <1>2, <1>3, <1>4, <1>5 DEF ReaderNext

LEMMA ReaderStarts == ReaderInit => ReaderInv
<1> SUFFICES ASSUME ReaderInit PROVE ReaderInv
  OBVIOUS
<1>1. PICK m, known : client = TranslateCurrentPage(Start(m, known), page)
  BY DEF ReaderInit
<1>2. page \in Pages
  BY DEF ReaderInit
<1>3. PICK d : d = Start(m, known)
  OBVIOUS
<1>4. /\ Shaped(d) /\ d.generation = 0 /\ d.lang \in Langs
      /\ d.translated = [h \in Hash |-> Null] /\ d.pump = "idle"
      /\ d.visible = << >> /\ d.prefetch = << >> /\ d.requests = << >>
  BY <1>3, ClientAssumption DEF Start, Shaped, Variables
<1>5. Good(d) /\ Pumping(d) /\ Quiet(d)
  <2>1. Texts(d)
    BY <1>4 DEF Texts
  <2>2. d.requests \in Seq(ReaderRequest) /\ DOMAIN d.requests = {}
    BY <1>4
  <2> QED
    BY <1>4, <2>1, <2>2, EmptyFits DEF Good, Pumping, NoBatch, Quiet
<1>6. Good(client) /\ Carries(d, client) /\ Pumping(client)
  BY <1>1, <1>2, <1>3, <1>5, PageKeeps
<1> QED
  BY <1>2, <1>5, <1>6 DEF ReaderInv, Carries

LEMMA ReaderInvHolds == ReaderSpec => []ReaderInv
<1>1. ReaderInv /\ [ReaderNext]_readerVars => ReaderInv'
  BY ReaderNextStep
<1> QED
  BY <1>1, ReaderStarts, PTL DEF ReaderSpec

\* What the reader shows under a key is a translation into the language of that
\* key, or the part of one that a broken stream left, whatever the user changed
\* while it was on its way (the stale-response guards of pumpQueue and of the rush).
THEOREM TextsAreInTheirLanguage == ReaderSpec => []RightLanguage
<1>1. ReaderInv => RightLanguage
  BY DEF ReaderInv, Good, Texts, RightLanguage
<1> QED
  BY <1>1, ReaderInvHolds, PTL

\* However many events start the pump, a batch is out exactly while the one
\* pump waits for it (isPumpRunning).
THEOREM ThereIsOnePump == ReaderSpec => []OnePump
<1>1. ReaderInv => OnePump
  <2> SUFFICES ASSUME ReaderInv PROVE OnePump
    OBVIOUS
  <2>1. CASE client.pump = "post"
    <3>1. PICK k \in DOMAIN client.requests :
            /\ client.requests[k].kind \notin Rush
            /\ \A j \in DOMAIN client.requests : client.requests[j].kind \notin Rush => j = k
      BY <2>1 DEF ReaderInv, Pumping, OneBatch
    <3>2. Batches = {k}
      BY <3>1 DEF Batches
    <3> QED
      BY <2>1, <3>2, FS_Singleton DEF OnePump
  <2>2. CASE client.pump # "post"
    <3>1. Batches = {}
      BY <2>2 DEF ReaderInv, Pumping, NoBatch, Batches
    <3> QED
      BY <2>2, <3>1, FS_EmptySet DEF OnePump
  <2> QED
    BY <2>1, <2>2
<1> QED
  BY <1>1, ReaderInvHolds, PTL

\* A new generation leaves no request of an older one at the API that is not
\* aborted (newGeneration, activeControllers).
THEOREM NewGenerationsCancel == ReaderSpec => CancelsWork
<1>1. ReaderInv /\ [ReaderNext]_readerVars =>
        [client'.generation > client.generation =>
           \A k \in DOMAIN client'.requests :
              LET r == client'.requests[k]
              IN  r.stage \in {"sent", "refresh"} /\ r.items[1].gen < client'.generation => r.aborted]_readerVars
  <2> SUFFICES ASSUME ReaderInv, [ReaderNext]_readerVars, client'.generation > client.generation
               PROVE  \A k \in DOMAIN client'.requests :
                        LET r == client'.requests[k]
                        IN  r.stage \in {"sent", "refresh"} /\ r.items[1].gen < client'.generation => r.aborted
    OBVIOUS
  <2>1. client'.generation \in Nat /\ client.generation \in Nat
    BY ReaderNextStep DEF ReaderInv, Good
  <2>2. OldAborted(client')
    BY <2>1, ReaderNextStep
  <2> QED
    BY <2>2 DEF OldAborted, AbortedIfOld
<1> QED
  BY <1>1, ReaderInvHolds, PTL DEF ReaderSpec, CancelsWork

\* Switched off, or away from the reader, nothing is queued, whatever answers
\* come in later (the guards of pumpQueue and of the rush).
THEOREM OffStaysQuiet == ReaderSpec => []OffIsQuiet
<1>1. ReaderInv => OffIsQuiet
  BY DEF ReaderInv, Quiet, OffIsQuiet
<1> QED
  BY <1>1, ReaderInvHolds, PTL

\* A paragraph that failed stays failed until the user asks again or clears the
\* cache (failedParagraphs).
THEOREM FailuresAreRemembered == ReaderSpec => FailedUntilRetry
<1>1. ReaderInv /\ [ReaderNext]_readerVars =>
        [~(client.failed \subseteq client'.failed) => Retry \/ RetryStatus \/ ClearCache]_readerVars
  <2> SUFFICES ASSUME ReaderInv, [ReaderNext]_readerVars, ~(client.failed \subseteq client'.failed)
               PROVE  Retry \/ RetryStatus \/ ClearCache
    OBVIOUS
  <2>1. ~Remembered
    BY DEF Remembered
  <2> QED
    BY <2>1, ReaderNextStep DEF Forgets
<1> QED
  BY <1>1, ReaderInvHolds, PTL DEF ReaderSpec, FailedUntilRetry
=============================================================================
