------------------------- MODULE LegacyUpgradeProofs -------------------------
(***************************************************************************)
(* Proofs about LegacyUpgrade for every number of commands, faults and     *)
(* writes.                                                                 *)
(*                                                                         *)
(* The invariant is told by the next effect of the running command.  What  *)
(* it says of the containers is enough for OneWriter; what it says of the  *)
(* journal and of the local variables explains where legacy is restarted,  *)
(* and the clauses about few faults why a single one never leaves the      *)
(* reader dark: without a fault the preflight cannot fail, and with one no *)
(* handler is itself interrupted.  The cleanup of an install may run       *)
(* beside the state it saved: what ties state and journal to legacy's data *)
(* is said of a stopped legacy only.                                       *)
(***************************************************************************)
EXTENDS LegacyUpgrade, SequenceTheorems, TLAPS

Here == Head(todo)

\* The suffixes of the plans.
UpgradeTails ==
    { << "set_aside", "prepare", "stop_legacy", "snapshot", "copy", "complete",
         "attempt", "create", "start", "commit", "drop", "upgraded" >>,
      << "prepare", "stop_legacy", "snapshot", "copy", "complete",
         "attempt", "create", "start", "commit", "drop", "upgraded" >>,
      << "stop_legacy", "snapshot", "copy", "complete",
         "attempt", "create", "start", "commit", "drop", "upgraded" >>,
      << "snapshot", "copy", "complete",
         "attempt", "create", "start", "commit", "drop", "upgraded" >>,
      << "copy", "complete", "attempt", "create", "start", "commit", "drop", "upgraded" >>,
      << "complete", "attempt", "create", "start", "commit", "drop", "upgraded" >>,
      << "attempt", "create", "start", "commit", "drop", "upgraded" >>,
      << "create", "start", "commit", "drop", "upgraded" >>,
      << "start", "commit", "drop", "upgraded" >>,
      << "commit", "drop", "upgraded" >>,
      << "drop", "upgraded" >>,
      << "upgraded" >> }
FailureTails ==
    { << "clean", "restore", "failed" >>, << "clean", "failed" >>, << "restore", "failed" >>,
      << "failed" >>, << "restore_only" >>, << "journal_failed" >> }
RollbackTails ==
    { << "uninstall", "uninstalled", "restore", "rolled_back", "close" >>,
      << "uninstalled", "restore", "rolled_back", "close" >>,
      << "restore", "rolled_back", "close" >>, << "rolled_back", "close" >>, << "close" >>,
      << "rollback_failed" >> }

Early == BeforeJournal \cup {"restore_only"}
Cutting == {"stop_legacy", "snapshot", "copy"}
Installing == {"attempt", "create", "start", "commit", "drop", "upgraded"}
Served == {"commit", "drop", "upgraded", "journal_failed"}
Handling == {"clean", "restore", "failed", "restore_only", "journal_failed"}
Uncommitted == BeforeJournal \cup Cutting \cup {"complete", "attempt", "create", "start", "commit"}

PlaceOK ==
    /\ op = "idle" => todo = << >>
    /\ op = "upgrade" => todo \in UpgradeTails \cup FailureTails
    /\ op = "rollback" => todo \in RollbackTails
    /\ op = "upgrade" /\ Here = "clean" =>
         todo = IF cur.restart THEN << "clean", "restore", "failed" >> ELSE << "clean", "failed" >>
    /\ op = "upgrade" /\ Here \in Handling => faults >= 1
    /\ op = "rollback" /\ Here = "rollback_failed" => faults >= 1

WasRunning == journal # None /\ journal.initial = "running"

\* The local variables of upgrade agree with the journal.
LocalsOK == op = "upgrade" =>
    /\ Here \in Early =>
         /\ cur.restart = (legacy = "running" \/ WasRunning)
         /\ cur.retrying = (journal # None /\ journal.status # "rolled_back")
    /\ Here \in BeforeJournal => cur.number = Len(snapshots) + 1
    /\ Here \notin Early =>
         /\ journal # None /\ journal.status # "rolled_back"
         /\ cur.restart = WasRunning
         /\ cur.number = Len(snapshots)
    /\ Here \in Cutting \cup {"complete"} => journal.status = "prepared"
    /\ Here \in Installing => journal.status = "snapshot-complete"
    /\ Here \in Cutting /\ ~cur.again => target = None

\* What is up, by the next effect.
ServiceOK ==
    /\ ~(legacy = "running" /\ RoleActive)
    /\ op = "upgrade" =>
         /\ Here \notin Early \cup Handling \cup {"stop_legacy"} => legacy = "exited"
         /\ Here = "journal_failed" => legacy = "exited"
         /\ Here \in Served => runtime = "live"
         /\ Here \in Uncommitted => state \notin Active
         /\ Here \in {"drop", "upgraded"} => state = "installed"
    /\ op = "rollback" =>
         /\ journal # None /\ state # None /\ journal.status # "rolled_back"
         /\ Here = "uninstall" => legacy = "exited" /\ state \in Active \cup {"uninstalling"}
         /\ Here \in {"restore", "rolled_back", "close"} =>
              runtime = "none" /\ state \in {"uninstalled", "rolled_back"}
         /\ Here \in {"rolled_back", "close"} => legacy = "running"
         /\ Here = "close" => state = "rolled_back"

\* What the journal vouches for.
Untouched == /\ state = None /\ runtime = "none" /\ attempt = None /\ target = None
             /\ snapshots = << >>
JournalOK ==
    /\ journal = None => Untouched
    /\ journal # None =>
         /\ snapshots # << >>
         /\ journal.status = "rolled_back" =>
              legacy = "running" /\ runtime = "none" /\ state = "rolled_back"
         /\ journal.status \in {"upgraded", "rollback-failed"} /\ state \in {"uninstalled", "rolled_back"} =>
              runtime = "none"
         /\ journal.status = "snapshot-complete" /\ legacy = "exited" => Recorded
         /\ state \in Active /\ legacy = "exited" => Recorded
    /\ op = "upgrade" /\ Here \in {"snapshot", "copy", "complete"} => journal.status = "prepared"
    /\ op = "upgrade" /\ Here \in {"copy", "complete"} => snapshots[cur.number] = legacyData
    /\ op = "upgrade" /\ Here \in {"attempt", "create", "start", "commit"} => Recorded

\* How the rollback of a runtime that is gone already starts.
GoneOK == op = "rollback" /\ state \in {"uninstalled", "rolled_back"} => runtime = "none"

\* Without a fault.
CalmOK == faults = 0 =>
    /\ ~failed
    /\ attempt = None \/ (op = "upgrade" /\ Here \in {"create", "start", "commit", "drop"})
    /\ op = "idle" /\ journal # None => journal.status \in {"upgraded", "rolled_back"}
    /\ op = "upgrade" /\ Here \in BeforeJournal => runtime = "none" /\ (~cur.again => target = None)
    /\ op = "rollback" => journal.status = "upgraded"
    /\ state \in Active => runtime = "live"

\* With at most one.
LightOK ==
    /\ NeverDark
    /\ op = "rollback" /\ Here \in {"uninstall", "rollback_failed"} /\ failed /\ faults <= 1 /\ WasRunning =>
         legacy = "running" \/ RoleActive
    /\ op = "upgrade" /\ Here = "failed" /\ faults <= 1 /\ WasRunning =>
         legacy = "running" \/ RoleActive

Typed ==
    /\ TypeOK
    /\ cur \in [again : BOOLEAN, retrying : BOOLEAN, restart : BOOLEAN,
                evidence : Evidence \cup {None}, number : Nat]
    /\ failed \in BOOLEAN /\ writes \in Nat /\ runs \in Nat /\ faults \in Nat

IInv == /\ Typed /\ PlaceOK /\ LocalsOK /\ ServiceOK /\ JournalOK /\ GoneOK /\ CalmOK /\ LightOK
-----------------------------------------------------------------------------
(* The plans.                                                               *)

Follows ==
    [set_aside |-> "prepare", prepare |-> "stop_legacy", stop_legacy |-> "snapshot",
     snapshot |-> "copy", copy |-> "complete", complete |-> "attempt", attempt |-> "create",
     create |-> "start", start |-> "commit", commit |-> "drop", drop |-> "upgraded"]

LEMMA UpgradeTail ==
    ASSUME NEW s \in UpgradeTails
    PROVE  /\ s # << >> /\ Head(s) \in DOMAIN Follows \cup {"upgraded"}
           /\ Head(s) # "upgraded" => Tail(s) \in UpgradeTails /\ Head(Tail(s)) = Follows[Head(s)]
<1>1. CASE s = << "set_aside", "prepare", "stop_legacy", "snapshot", "copy", "complete",
                  "attempt", "create", "start", "commit", "drop", "upgraded" >>
  BY <1>1 DEF UpgradeTails, Follows
<1>2. CASE s = << "prepare", "stop_legacy", "snapshot", "copy", "complete",
                  "attempt", "create", "start", "commit", "drop", "upgraded" >>
  BY <1>2 DEF UpgradeTails, Follows
<1>3. CASE s = << "stop_legacy", "snapshot", "copy", "complete",
                  "attempt", "create", "start", "commit", "drop", "upgraded" >>
  BY <1>3 DEF UpgradeTails, Follows
<1>4. CASE s = << "snapshot", "copy", "complete",
                  "attempt", "create", "start", "commit", "drop", "upgraded" >>
  BY <1>4 DEF UpgradeTails, Follows
<1>5. CASE s = << "copy", "complete", "attempt", "create", "start", "commit", "drop", "upgraded" >>
  BY <1>5 DEF UpgradeTails, Follows
<1>6. CASE s = << "complete", "attempt", "create", "start", "commit", "drop", "upgraded" >>
  BY <1>6 DEF UpgradeTails, Follows
<1>7. CASE s = << "attempt", "create", "start", "commit", "drop", "upgraded" >>
  BY <1>7 DEF UpgradeTails, Follows
<1>8. CASE s = << "create", "start", "commit", "drop", "upgraded" >>
  BY <1>8 DEF UpgradeTails, Follows
<1>9. CASE s = << "start", "commit", "drop", "upgraded" >>
  BY <1>9 DEF UpgradeTails, Follows
<1>10. CASE s = << "commit", "drop", "upgraded" >>
  BY <1>10 DEF UpgradeTails, Follows
<1>11. CASE s = << "drop", "upgraded" >>
  BY <1>11 DEF UpgradeTails, Follows
<1>12. CASE s = << "upgraded" >>
  BY <1>12 DEF UpgradeTails, Follows
<1> QED
  BY <1>1, <1>2, <1>3, <1>4, <1>5, <1>6, <1>7, <1>8, <1>9, <1>10, <1>11, <1>12 DEF UpgradeTails

LEMMA FailureTail ==
    ASSUME NEW s \in FailureTails
    PROVE  /\ s # << >> /\ Head(s) \in Handling
           /\ Head(s) = "restore" => s = << "restore", "failed" >>
           /\ Head(s) = "failed" => s = << "failed" >>
           /\ Head(s) = "restore_only" => s = << "restore_only" >>
           /\ Head(s) = "journal_failed" => s = << "journal_failed" >>
BY DEF FailureTails, Handling

LEMMA RollbackTail ==
    ASSUME NEW s \in RollbackTails
    PROVE  /\ s # << >>
           /\ Head(s) \in {"uninstall", "uninstalled", "restore", "rolled_back", "close", "rollback_failed"}
           /\ Head(s) = "uninstall" => Tail(s) \in RollbackTails /\ Head(Tail(s)) = "uninstalled"
           /\ Head(s) = "uninstalled" => Tail(s) \in RollbackTails /\ Head(Tail(s)) = "restore"
           /\ Head(s) = "restore" => Tail(s) \in RollbackTails /\ Head(Tail(s)) = "rolled_back"
           /\ Head(s) = "rolled_back" => Tail(s) \in RollbackTails /\ Head(Tail(s)) = "close"
<1>1. CASE s = << "uninstall", "uninstalled", "restore", "rolled_back", "close" >>
  BY <1>1 DEF RollbackTails
<1>2. CASE s = << "uninstalled", "restore", "rolled_back", "close" >>
  BY <1>2 DEF RollbackTails
<1>3. CASE s = << "restore", "rolled_back", "close" >>
  BY <1>3 DEF RollbackTails
<1>4. CASE s = << "rolled_back", "close" >>
  BY <1>4 DEF RollbackTails
<1>5. CASE s = << "close" >> \/ s = << "rollback_failed" >>
  BY <1>5 DEF RollbackTails
<1> QED
  BY <1>1, <1>2, <1>3, <1>4, <1>5 DEF RollbackTails

Labels == {"clean", "restore", "failed", "uninstall", "uninstalled", "rolled_back", "close"}

\* What a removal leaves is no more than there was.
LEMMA RemainsOf ==
    ASSUME NEW before \in {"none", "created", "active", "live"}
    PROVE  /\ before \in Remains[before] /\ "none" \in Remains[before]
           /\ Remains[before] \subseteq {"none", "created", "active", "live"}
           /\ before = "none" => Remains[before] = {"none"}
           /\ before \notin {"active", "live"} => "active" \notin Remains[before] /\ "live" \notin Remains[before]
BY DEF Remains

LEMMA Joined ==
    ASSUME NEW s \in Seq(Labels), NEW t \in Seq(Labels), NEW u \in Seq(Labels),
           Len(u) = Len(s) + Len(t),
           \A i \in 1 .. Len(s) : u[i] = s[i],
           \A i \in 1 .. Len(t) : u[Len(s) + i] = t[i]
    PROVE  s \o t = u
<1>1. /\ s \o t \in Seq(Labels) /\ Len(s \o t) = Len(s) + Len(t)
      /\ \A i \in 1 .. Len(s) + Len(t) : (s \o t)[i] = IF i <= Len(s) THEN s[i] ELSE t[i - Len(s)]
  BY ConcatProperties
<1>2. Len(s) \in Nat /\ Len(t) \in Nat
  OBVIOUS
<1>3. ASSUME NEW i \in 1 .. Len(u) PROVE (s \o t)[i] = u[i]
  <2>1. CASE i <= Len(s)
    BY <1>1, <1>2, <2>1
  <2>2. CASE ~(i <= Len(s))
    <3>1. i - Len(s) \in 1 .. Len(t) /\ Len(s) + (i - Len(s)) = i
      BY <1>2, <2>2
    <3> QED
      BY <1>1, <1>2, <2>2, <3>1
  <2> QED
    BY <2>1, <2>2
<1> QED
  BY <1>1, <1>3, SeqEqual

LEMMA OneAndOne ==
    ASSUME NEW a \in Labels, NEW b \in Labels
    PROVE  << a >> \o << b >> = << a, b >>
<1>1. << a >> \in Seq(Labels) /\ << b >> \in Seq(Labels) /\ << a, b >> \in Seq(Labels)
  OBVIOUS
<1>2. /\ Len(<< a, b >>) = Len(<< a >>) + Len(<< b >>)
      /\ \A i \in 1 .. Len(<< a >>) : << a, b >>[i] = << a >>[i]
      /\ \A i \in 1 .. Len(<< b >>) : << a, b >>[Len(<< a >>) + i] = << b >>[i]
  <2>1. /\ \A i \in 1 .. Len(<< a >>) : i = 1
        /\ \A i \in 1 .. Len(<< b >>) : i = 1
        /\ Len(<< a >>) + 1 = 2 /\ Len(<< a, b >>) = Len(<< a >>) + Len(<< b >>)
    OBVIOUS
  <2>2. << a, b >>[1] = << a >>[1] /\ << a, b >>[2] = << b >>[1]
    OBVIOUS
  <2> QED
    BY <2>1, <2>2
<1> QED
  BY ONLY <1>1, <1>2, Joined

LEMMA OneAndTwo ==
    ASSUME NEW a \in Labels, NEW b \in Labels, NEW c \in Labels
    PROVE  << a >> \o << b, c >> = << a, b, c >>
<1>1. << a >> \in Seq(Labels) /\ << b, c >> \in Seq(Labels) /\ << a, b, c >> \in Seq(Labels)
  OBVIOUS
<1>2. /\ Len(<< a, b, c >>) = Len(<< a >>) + Len(<< b, c >>)
      /\ \A i \in 1 .. Len(<< a >>) : << a, b, c >>[i] = << a >>[i]
      /\ \A i \in 1 .. Len(<< b, c >>) : << a, b, c >>[Len(<< a >>) + i] = << b, c >>[i]
  OBVIOUS
<1> QED
  BY ONLY <1>1, <1>2, Joined

LEMMA TwoAndThree ==
    ASSUME NEW a \in Labels, NEW b \in Labels, NEW c \in Labels, NEW d \in Labels, NEW e \in Labels
    PROVE  << a, b >> \o << c, d, e >> = << a, b, c, d, e >>
<1>1. /\ << a, b >> \in Seq(Labels) /\ << c, d, e >> \in Seq(Labels)
      /\ << a, b, c, d, e >> \in Seq(Labels)
  OBVIOUS
<1>2. /\ Len(<< a, b, c, d, e >>) = Len(<< a, b >>) + Len(<< c, d, e >>)
      /\ \A i \in 1 .. Len(<< a, b >>) : << a, b, c, d, e >>[i] = << a, b >>[i]
      /\ \A i \in 1 .. Len(<< c, d, e >>) : << a, b, c, d, e >>[Len(<< a, b >>) + i] = << c, d, e >>[i]
  OBVIOUS
<1> QED
  BY ONLY <1>1, <1>2, Joined

\* What the handlers of upgrade and the two plans of rollback are.
LEMMA PlansOfHandlers ==
    /\ AfterFailure = IF cur.restart THEN << "restore", "failed" >> ELSE << "failed" >>
    /\ << "clean" >> \o AfterFailure =
         IF cur.restart THEN << "clean", "restore", "failed" >> ELSE << "clean", "failed" >>
    /\ RollbackPlan = IF state \in {"uninstalled", "rolled_back"}
                        THEN << "restore", "rolled_back", "close" >>
                        ELSE << "uninstall", "uninstalled", "restore", "rolled_back", "close" >>
<1>0. {"clean", "restore", "failed", "uninstall", "uninstalled", "rolled_back", "close"} = Labels
  BY DEF Labels
<1>1. << "restore" >> \o << "failed" >> = << "restore", "failed" >>
  BY ONLY <1>0, OneAndOne
<1>2. << >> \o << "failed" >> = << "failed" >>
  OBVIOUS
<1>3. << "clean" >> \o << "restore", "failed" >> = << "clean", "restore", "failed" >>
  BY ONLY <1>0, OneAndTwo
<1>4. << "clean" >> \o << "failed" >> = << "clean", "failed" >>
  BY ONLY <1>0, OneAndOne
<1>5. << >> \o << "restore", "rolled_back", "close" >> = << "restore", "rolled_back", "close" >>
  OBVIOUS
<1>6. << "uninstall", "uninstalled" >> \o << "restore", "rolled_back", "close" >>
        = << "uninstall", "uninstalled", "restore", "rolled_back", "close" >>
  BY ONLY <1>0, TwoAndThree
<1>7. AfterFailure = IF cur.restart THEN << "restore", "failed" >> ELSE << "failed" >>
  BY <1>1, <1>2 DEF AfterFailure
<1>8. << "clean" >> \o AfterFailure =
         IF cur.restart THEN << "clean", "restore", "failed" >> ELSE << "clean", "failed" >>
  BY <1>3, <1>4, <1>7
<1>9. RollbackPlan = IF state \in {"uninstalled", "rolled_back"}
                        THEN << "restore", "rolled_back", "close" >>
                        ELSE << "uninstall", "uninstalled", "restore", "rolled_back", "close" >>
  BY <1>5, <1>6 DEF RollbackPlan
<1> QED
  BY <1>7, <1>8, <1>9

\* A step of upgrade's plan.
LEMMA UpgradePops ==
    ASSUME IInv, op = "upgrade", Here \in DOMAIN Follows, Pop, faults' \in Nat
    PROVE  /\ op' = "upgrade" /\ cur' = cur /\ failed' = failed
           /\ Here' = Follows[Here] /\ todo' # << >> /\ PlaceOK'
           /\ Typed /\ LocalsOK /\ ServiceOK /\ JournalOK /\ CalmOK /\ LightOK /\ todo # << >>
<1>1. Here \notin Handling
  BY DEF Follows, Handling
<1>2. todo \in UpgradeTails
  BY <1>1, FailureTail DEF IInv, PlaceOK, Here
<1>3. todo' = Tail(todo) /\ op' = op /\ cur' = cur /\ failed' = failed
  BY DEF Pop
<1>4. todo' \in UpgradeTails /\ Here' = Follows[Here]
  BY <1>2, <1>3, UpgradeTail DEF Here, Follows
<1>5. Here' \notin Handling
  BY <1>4 DEF Follows, Handling
<1>6. PlaceOK'
  BY <1>3, <1>4, <1>5 DEF PlaceOK, Handling
<1> QED
  BY <1>2, <1>3, <1>4, <1>6, UpgradeTail DEF IInv
-----------------------------------------------------------------------------
(* The steps of upgrade, one by one.                                        *)

LEMMA StopLegacyInv ==
    ASSUME IInv, StopLegacy
    PROVE  IInv'
<1>0. /\ op = "upgrade" /\ Here = "stop_legacy" /\ Pop
      /\ legacy' = "exited"
      /\ UNCHANGED <<legacyData, snapshots, target, preserved, runtime, attempt, state, journal, writes, runs, faults>>
  BY DEF StopLegacy, At, Here, data, Quiet
<1>1. /\ op' = "upgrade" /\ cur' = cur /\ failed' = failed
      /\ Here' = "snapshot" /\ todo' # << >> /\ PlaceOK'
      /\ Typed /\ LocalsOK /\ ServiceOK /\ JournalOK /\ CalmOK /\ LightOK /\ todo # << >>
  <2>1. Here \in DOMAIN Follows /\ Follows[Here] = "snapshot"
    BY <1>0 DEF Follows
  <2>2. faults' \in Nat
    BY <1>0 DEF IInv, Typed
  <2> QED
    BY <1>0, <2>1, <2>2, UpgradePops
<1>3. Typed'
  BY <1>0, <1>1 DEF Typed, TypeOK
<1>4. LocalsOK'
  BY <1>0, <1>1 DEF LocalsOK, Early, Cutting, Installing, BeforeJournal, WasRunning
<1>5. ServiceOK'
  BY <1>0, <1>1 DEF ServiceOK, Early, BeforeJournal, Handling, Served, Uncommitted, Cutting, RoleActive, Active
<1>2. state \notin Active /\ journal.status = "prepared"
  BY <1>0, <1>1 DEF ServiceOK, Uncommitted, Cutting, LocalsOK
<1>6. JournalOK'
  BY <1>0, <1>1, <1>2, <1>4 DEF JournalOK, Untouched, Recorded, SnapshotIntact, LocalsOK, Early, Cutting, Installing, BeforeJournal
<1>7. GoneOK' /\ CalmOK' /\ LightOK'
  BY <1>0, <1>1 DEF GoneOK, CalmOK, LightOK, NeverDark, BeforeJournal, WasRunning, RoleActive
<1> QED
  BY <1>1, <1>3, <1>4, <1>5, <1>6, <1>7 DEF IInv

LEMMA SnapshotInv ==
    ASSUME IInv, Snapshot
    PROVE  IInv'
<1>0. /\ op = "upgrade" /\ Here = "snapshot" /\ Pop
      /\ snapshots' = [snapshots EXCEPT ![cur.number] = legacyData]
      /\ UNCHANGED <<legacy, legacyData, target, preserved, runtime, attempt, state, journal, writes, runs, faults>>
  BY DEF Snapshot, At, Here, data, Quiet
<1>1. /\ op' = "upgrade" /\ cur' = cur /\ failed' = failed
      /\ Here' = "copy" /\ todo' # << >> /\ PlaceOK'
      /\ Typed /\ LocalsOK /\ ServiceOK /\ JournalOK /\ CalmOK /\ LightOK /\ todo # << >>
  <2>1. Here \in DOMAIN Follows /\ Follows[Here] = "copy"
    BY <1>0 DEF Follows
  <2>2. faults' \in Nat
    BY <1>0 DEF IInv, Typed
  <2> QED
    BY <1>0, <2>1, <2>2, UpgradePops
<1>2. /\ cur.number = Len(snapshots) /\ journal # None /\ journal.status = "prepared"
      /\ journal.evidence.attempt = Len(snapshots) /\ state \notin Active
      /\ snapshots \in Seq(Content \cup {None}) /\ snapshots' \in Seq(Content \cup {None})
      /\ Len(snapshots') = Len(snapshots) /\ snapshots'[cur.number] = legacyData
  <2>1. /\ cur.number = Len(snapshots) /\ journal # None /\ journal.status = "prepared"
        /\ journal.evidence.attempt = Len(snapshots) /\ snapshots \in Seq(Content \cup {None})
        /\ legacyData \in Content
    BY <1>0, <1>1 DEF LocalsOK, Early, BeforeJournal, Cutting, Typed, TypeOK
  <2>2. snapshots # << >>
    BY <1>0, <1>1, <2>1 DEF LocalsOK, JournalOK
  <2> QED
    BY <1>0, <1>1, <2>1, <2>2 DEF ServiceOK, Uncommitted, Cutting, Typed, TypeOK
<1>3. Typed'
  BY <1>0, <1>1, <1>2 DEF Typed, TypeOK
<1>4. LocalsOK'
  BY <1>0, <1>1, <1>2 DEF LocalsOK, Early, Cutting, Installing, BeforeJournal, WasRunning
<1>5. ServiceOK'
  BY <1>0, <1>1, <1>2 DEF ServiceOK, Early, BeforeJournal, Handling, Served, Uncommitted, Cutting, RoleActive, Active
<1>6. JournalOK'
  BY <1>0, <1>1, <1>2, <1>4 DEF JournalOK, Untouched, Recorded, SnapshotIntact, LocalsOK, Early, Cutting, Installing, BeforeJournal
<1>7. GoneOK' /\ CalmOK' /\ LightOK'
  BY <1>0, <1>1, <1>2 DEF GoneOK, CalmOK, LightOK, NeverDark, BeforeJournal, WasRunning, RoleActive
<1> QED
  BY <1>1, <1>3, <1>4, <1>5, <1>6, <1>7 DEF IInv

LEMMA CopyInv ==
    ASSUME IInv, Copy
    PROVE  IInv'
<1>0. /\ op = "upgrade" /\ Here = "copy" /\ Pop
      /\ target' = IF cur.again THEN target ELSE snapshots[cur.number]
      /\ UNCHANGED <<legacy, legacyData, snapshots, preserved, runtime, attempt, state, journal, writes, runs, faults>>
  BY DEF Copy, At, Here, data, Quiet
<1>1. /\ op' = "upgrade" /\ cur' = cur /\ failed' = failed
      /\ Here' = "complete" /\ todo' # << >> /\ PlaceOK'
      /\ Typed /\ LocalsOK /\ ServiceOK /\ JournalOK /\ CalmOK /\ LightOK /\ todo # << >>
  <2>1. Here \in DOMAIN Follows /\ Follows[Here] = "complete"
    BY <1>0 DEF Follows
  <2>2. faults' \in Nat
    BY <1>0 DEF IInv, Typed
  <2> QED
    BY <1>0, <2>1, <2>2, UpgradePops
<1>2. /\ journal # None /\ target' \in Content \cup {None}
  <2>1. /\ journal # None /\ snapshots[cur.number] = legacyData
    BY <1>0, <1>1 DEF LocalsOK, JournalOK, Early, BeforeJournal
  <2> QED
    BY <1>0, <1>1, <2>1 DEF Typed, TypeOK
<1>3. Typed'
  BY <1>0, <1>1, <1>2 DEF Typed, TypeOK
<1>4. LocalsOK'
  BY <1>0, <1>1, <1>2 DEF LocalsOK, Early, Cutting, Installing, BeforeJournal, WasRunning
<1>5. ServiceOK'
  BY <1>0, <1>1, <1>2 DEF ServiceOK, Early, BeforeJournal, Handling, Served, Uncommitted, Cutting, RoleActive, Active
<1>6. JournalOK'
  BY <1>0, <1>1, <1>2, <1>4 DEF JournalOK, Untouched, Recorded, SnapshotIntact, LocalsOK, Early, Cutting, Installing, BeforeJournal
<1>7. GoneOK' /\ CalmOK' /\ LightOK'
  BY <1>0, <1>1, <1>2 DEF GoneOK, CalmOK, LightOK, NeverDark, BeforeJournal, WasRunning, RoleActive
<1> QED
  BY <1>1, <1>3, <1>4, <1>5, <1>6, <1>7 DEF IInv

LEMMA InstallAttemptInv ==
    ASSUME IInv, InstallAttempt
    PROVE  IInv'
<1>0. /\ op = "upgrade" /\ Here = "attempt" /\ Pop
      /\ attempt' = "starting"
      /\ UNCHANGED <<legacy, legacyData, snapshots, target, preserved, runtime, state, journal, writes, runs, faults>>
  BY DEF InstallAttempt, At, Here, data, Quiet
<1>1. /\ op' = "upgrade" /\ cur' = cur /\ failed' = failed
      /\ Here' = "create" /\ todo' # << >> /\ PlaceOK'
      /\ Typed /\ LocalsOK /\ ServiceOK /\ JournalOK /\ CalmOK /\ LightOK /\ todo # << >>
  <2>1. Here \in DOMAIN Follows /\ Follows[Here] = "create"
    BY <1>0 DEF Follows
  <2>2. faults' \in Nat
    BY <1>0 DEF IInv, Typed
  <2> QED
    BY <1>0, <2>1, <2>2, UpgradePops
<1>3. Typed'
  BY <1>0, <1>1 DEF Typed, TypeOK
<1>4. LocalsOK'
  BY <1>0, <1>1 DEF LocalsOK, Early, Cutting, Installing, BeforeJournal, WasRunning
<1>5. ServiceOK'
  BY <1>0, <1>1 DEF ServiceOK, Early, BeforeJournal, Handling, Served, Uncommitted, Cutting, RoleActive, Active
<1>6. JournalOK'
  BY <1>0, <1>1, <1>4 DEF JournalOK, Untouched, Recorded, SnapshotIntact, LocalsOK, Early, Cutting, Installing, BeforeJournal
<1>7. GoneOK' /\ CalmOK' /\ LightOK'
  BY <1>0, <1>1 DEF GoneOK, CalmOK, LightOK, NeverDark, BeforeJournal, WasRunning, RoleActive
<1> QED
  BY <1>1, <1>3, <1>4, <1>5, <1>6, <1>7 DEF IInv

LEMMA InstallCreateInv ==
    ASSUME IInv, InstallCreate
    PROVE  IInv'
<1>0. /\ op = "upgrade" /\ Here = "create" /\ Pop
      /\ runtime' \in {"created", "active"}
      /\ UNCHANGED <<legacy, legacyData, snapshots, target, preserved, attempt, state, journal, writes, runs, faults>>
  BY DEF InstallCreate, At, Here, data, Quiet
<1>1. /\ op' = "upgrade" /\ cur' = cur /\ failed' = failed
      /\ Here' = "start" /\ todo' # << >> /\ PlaceOK'
      /\ Typed /\ LocalsOK /\ ServiceOK /\ JournalOK /\ CalmOK /\ LightOK /\ todo # << >>
  <2>1. Here \in DOMAIN Follows /\ Follows[Here] = "start"
    BY <1>0 DEF Follows
  <2>2. faults' \in Nat
    BY <1>0 DEF IInv, Typed
  <2> QED
    BY <1>0, <2>1, <2>2, UpgradePops
<1>3. Typed'
  BY <1>0, <1>1 DEF Typed, TypeOK
<1>4. LocalsOK'
  BY <1>0, <1>1 DEF LocalsOK, Early, Cutting, Installing, BeforeJournal, WasRunning
<1>5. ServiceOK'
  BY <1>0, <1>1 DEF ServiceOK, Early, BeforeJournal, Handling, Served, Uncommitted, Cutting, RoleActive, Active
<1>6. JournalOK'
  BY <1>0, <1>1, <1>4 DEF JournalOK, Untouched, Recorded, SnapshotIntact, LocalsOK, Early, Cutting, Installing, BeforeJournal
<1>7. GoneOK' /\ CalmOK' /\ LightOK'
  BY <1>0, <1>1, NoneAssumption DEF GoneOK, CalmOK, LightOK, NeverDark, BeforeJournal, WasRunning,
     RoleActive, ServiceOK, Served, Uncommitted, Cutting, Active
<1> QED
  BY <1>1, <1>3, <1>4, <1>5, <1>6, <1>7 DEF IInv

LEMMA InstallStartInv ==
    ASSUME IInv, InstallStart
    PROVE  IInv'
<1>0. /\ op = "upgrade" /\ Here = "start" /\ Pop
      /\ runtime' = "live"
      /\ UNCHANGED <<legacy, legacyData, snapshots, target, preserved, attempt, state, journal, writes, runs, faults>>
  BY DEF InstallStart, At, Here, data, Quiet
<1>1. /\ op' = "upgrade" /\ cur' = cur /\ failed' = failed
      /\ Here' = "commit" /\ todo' # << >> /\ PlaceOK'
      /\ Typed /\ LocalsOK /\ ServiceOK /\ JournalOK /\ CalmOK /\ LightOK /\ todo # << >>
  <2>1. Here \in DOMAIN Follows /\ Follows[Here] = "commit"
    BY <1>0 DEF Follows
  <2>2. faults' \in Nat
    BY <1>0 DEF IInv, Typed
  <2> QED
    BY <1>0, <2>1, <2>2, UpgradePops
<1>3. Typed'
  BY <1>0, <1>1 DEF Typed, TypeOK
<1>4. LocalsOK'
  BY <1>0, <1>1 DEF LocalsOK, Early, Cutting, Installing, BeforeJournal, WasRunning
<1>5. ServiceOK'
  BY <1>0, <1>1 DEF ServiceOK, Early, BeforeJournal, Handling, Served, Uncommitted, Cutting, RoleActive, Active
<1>6. JournalOK'
  BY <1>0, <1>1, <1>4 DEF JournalOK, Untouched, Recorded, SnapshotIntact, LocalsOK, Early, Cutting, Installing, BeforeJournal
<1>7. GoneOK' /\ CalmOK' /\ LightOK'
  BY <1>0, <1>1 DEF GoneOK, CalmOK, LightOK, NeverDark, BeforeJournal, WasRunning, RoleActive
<1> QED
  BY <1>1, <1>3, <1>4, <1>5, <1>6, <1>7 DEF IInv

LEMMA InstallCommitInv ==
    ASSUME IInv, InstallCommit
    PROVE  IInv'
<1>0. /\ op = "upgrade" /\ Here = "commit" /\ Pop
      /\ state' = "installed"
      /\ UNCHANGED <<legacy, legacyData, snapshots, target, preserved, runtime, attempt, journal, writes, runs, faults>>
  BY DEF InstallCommit, At, Here, data, Quiet
<1>1. /\ op' = "upgrade" /\ cur' = cur /\ failed' = failed
      /\ Here' = "drop" /\ todo' # << >> /\ PlaceOK'
      /\ Typed /\ LocalsOK /\ ServiceOK /\ JournalOK /\ CalmOK /\ LightOK /\ todo # << >>
  <2>1. Here \in DOMAIN Follows /\ Follows[Here] = "drop"
    BY <1>0 DEF Follows
  <2>2. faults' \in Nat
    BY <1>0 DEF IInv, Typed
  <2> QED
    BY <1>0, <2>1, <2>2, UpgradePops
<1>3. Typed'
  BY <1>0, <1>1 DEF Typed, TypeOK, Active
<1>4. LocalsOK'
  BY <1>0, <1>1 DEF LocalsOK, Early, Cutting, Installing, BeforeJournal, WasRunning
<1>5. ServiceOK'
  BY <1>0, <1>1 DEF ServiceOK, Early, BeforeJournal, Handling, Served, Uncommitted, Cutting, RoleActive, Active
<1>6. JournalOK'
  BY <1>0, <1>1, <1>4 DEF JournalOK, Untouched, Recorded, SnapshotIntact, LocalsOK, Early, Cutting, Installing, BeforeJournal, ServiceOK, Handling, Active
<1>7. GoneOK' /\ CalmOK' /\ LightOK'
  BY <1>0, <1>1, NoneAssumption DEF GoneOK, CalmOK, LightOK, NeverDark, BeforeJournal, WasRunning,
     RoleActive, ServiceOK, Served, Uncommitted, Cutting, Active
<1> QED
  BY <1>1, <1>3, <1>4, <1>5, <1>6, <1>7 DEF IInv

LEMMA InstallDropInv ==
    ASSUME IInv, InstallDrop
    PROVE  IInv'
<1>0. /\ op = "upgrade" /\ Here = "drop" /\ Pop
      /\ attempt' = None
      /\ UNCHANGED <<legacy, legacyData, snapshots, target, preserved, runtime, state, journal, writes, runs, faults>>
  BY DEF InstallDrop, At, Here, data, Quiet
<1>1. /\ op' = "upgrade" /\ cur' = cur /\ failed' = failed
      /\ Here' = "upgraded" /\ todo' # << >> /\ PlaceOK'
      /\ Typed /\ LocalsOK /\ ServiceOK /\ JournalOK /\ CalmOK /\ LightOK /\ todo # << >>
  <2>1. Here \in DOMAIN Follows /\ Follows[Here] = "upgraded"
    BY <1>0 DEF Follows
  <2>2. faults' \in Nat
    BY <1>0 DEF IInv, Typed
  <2> QED
    BY <1>0, <2>1, <2>2, UpgradePops
<1>3. Typed'
  BY <1>0, <1>1 DEF Typed, TypeOK
<1>4. LocalsOK'
  BY <1>0, <1>1 DEF LocalsOK, Early, Cutting, Installing, BeforeJournal, WasRunning
<1>5. ServiceOK'
  BY <1>0, <1>1 DEF ServiceOK, Early, BeforeJournal, Handling, Served, Uncommitted, Cutting, RoleActive, Active
<1>6. JournalOK'
  BY <1>0, <1>1, <1>4 DEF JournalOK, Untouched, Recorded, SnapshotIntact, LocalsOK, Early, Cutting, Installing, BeforeJournal
<1>7. GoneOK' /\ CalmOK' /\ LightOK'
  BY <1>0, <1>1 DEF GoneOK, CalmOK, LightOK, NeverDark, BeforeJournal, WasRunning, RoleActive
<1> QED
  BY <1>1, <1>3, <1>4, <1>5, <1>6, <1>7 DEF IInv

LEMMA SetAsideInv ==
    ASSUME IInv, SetAside
    PROVE  IInv'
<1>0. /\ op = "upgrade" /\ Here = "set_aside" /\ Pop
      /\ target' = target \/ target' = None
      /\ preserved' \in {preserved, preserved \cup {target}} /\ (preserved' # preserved => target # None)
      /\ UNCHANGED <<legacy, legacyData, snapshots, runtime, attempt, state, journal, writes, runs, faults>>
  BY DEF SetAside, At, Here, Quiet
<1>1. /\ op' = "upgrade" /\ cur' = cur /\ failed' = failed
      /\ Here' = "prepare" /\ todo' # << >> /\ PlaceOK'
      /\ Typed /\ LocalsOK /\ ServiceOK /\ JournalOK /\ CalmOK /\ LightOK /\ todo # << >>
  <2>1. Here \in DOMAIN Follows /\ Follows[Here] = "prepare"
    BY <1>0 DEF Follows
  <2>2. faults' \in Nat
    BY <1>0 DEF IInv, Typed
  <2> QED
    BY <1>0, <2>1, <2>2, UpgradePops
<1>3. Typed'
  BY <1>0, <1>1 DEF Typed, TypeOK
<1>4. LocalsOK'
  BY <1>0, <1>1 DEF LocalsOK, Early, Cutting, Installing, BeforeJournal, WasRunning
<1>5. ServiceOK'
  BY <1>0, <1>1 DEF ServiceOK, Early, BeforeJournal, Handling, Served, Uncommitted, Cutting, RoleActive, Active
<1>6. JournalOK'
  BY <1>0, <1>1 DEF JournalOK, Untouched, Recorded, SnapshotIntact
<1>7. GoneOK' /\ CalmOK' /\ LightOK'
  BY <1>0, <1>1 DEF GoneOK, CalmOK, LightOK, NeverDark, BeforeJournal, WasRunning, RoleActive
<1> QED
  BY <1>1, <1>3, <1>4, <1>5, <1>6, <1>7 DEF IInv

\* The journal of a new attempt.
LEMMA PreparedOK ==
    ASSUME IInv, op = "upgrade", Here = "prepare", Preflight, Prepared
    PROVE  /\ UNCHANGED <<legacy, legacyData, target, preserved, runtime, attempt, state>>
           /\ journal' \in Journal /\ journal' # None /\ journal'.status = "prepared"
           /\ journal'.evidence.attempt = Len(snapshots')
           /\ snapshots' \in Seq(Content \cup {None}) /\ snapshots' # << >> /\ cur.number = Len(snapshots')
           /\ cur.restart \in BOOLEAN /\ WasRunning' = cur.restart
           /\ cur.restart = (legacy = "running" \/ WasRunning)
           /\ runtime = "none" /\ (~cur.again => target = None) /\ state \notin Active
<1> DEFINE e == [attempt |-> cur.number, snapshot |-> None, target |-> None, reupgrade |-> "unknown"]
           j == [status |-> "prepared", initial |-> IF cur.restart THEN "running" ELSE legacy,
                 evidence |-> e, prior |-> cur.evidence]
<1>0. /\ journal' = j /\ snapshots' = Append(snapshots, None)
      /\ UNCHANGED <<legacy, legacyData, target, preserved, runtime, attempt, state>>
  BY DEF Prepared
<1>1. Typed /\ LocalsOK /\ ServiceOK
  BY DEF IInv
<1>2. /\ e \in Evidence /\ e.attempt = cur.number
      /\ j \in Journal /\ j.status = "prepared" /\ j.evidence = e
      /\ j.initial = IF cur.restart THEN "running" ELSE legacy
  <2>1. e \in Evidence
    BY <1>1 DEF Typed, Evidence
  <2> QED
    BY <1>1, <2>1 DEF Typed, TypeOK, Journal
<1>3. j # None
  BY <1>2, NoneAssumption
<1> HIDE DEF e, j
<1>4. /\ snapshots' \in Seq(Content \cup {None}) /\ snapshots' # << >>
      /\ Len(snapshots') = Len(snapshots) + 1 /\ cur.number = Len(snapshots) + 1
  BY <1>0, <1>1 DEF Typed, TypeOK, LocalsOK, Early, BeforeJournal
<1>5. /\ cur.restart = (legacy = "running" \/ WasRunning) /\ legacy \in {"running", "exited"}
      /\ cur.restart \in BOOLEAN
  BY <1>1 DEF Typed, TypeOK, LocalsOK, Early, BeforeJournal
<1>6. WasRunning' = cur.restart
  BY <1>0, <1>2, <1>3, <1>5 DEF WasRunning
<1>7. /\ runtime = "none" /\ (~cur.again => target = None) /\ state \notin Active
  BY <1>1 DEF Preflight, ServiceOK, Uncommitted, BeforeJournal
<1> QED
  BY <1>0, <1>2, <1>3, <1>4, <1>5, <1>6, <1>7

LEMMA PrepareInv ==
    ASSUME IInv, Prepare
    PROVE  IInv'
<1>0. /\ op = "upgrade" /\ Here = "prepare" /\ Pop /\ Preflight /\ Prepared
      /\ UNCHANGED <<writes, runs, faults>>
  BY DEF Prepare, At, Here, Quiet
<1>1. /\ op' = "upgrade" /\ cur' = cur /\ failed' = failed
      /\ Here' = "stop_legacy" /\ todo' # << >> /\ PlaceOK'
      /\ Typed /\ LocalsOK /\ ServiceOK /\ JournalOK /\ CalmOK /\ LightOK /\ todo # << >>
  <2>1. Here \in DOMAIN Follows /\ Follows[Here] = "stop_legacy"
    BY <1>0 DEF Follows
  <2>2. faults' \in Nat
    BY <1>0 DEF IInv, Typed
  <2> QED
    BY <1>0, <2>1, <2>2, UpgradePops
<1>2. /\ UNCHANGED <<legacy, legacyData, target, preserved, runtime, attempt, state>>
      /\ journal' \in Journal /\ journal' # None /\ journal'.status = "prepared"
      /\ journal'.evidence.attempt = Len(snapshots')
      /\ snapshots' \in Seq(Content \cup {None}) /\ snapshots' # << >> /\ cur.number = Len(snapshots')
      /\ WasRunning' = cur.restart
      /\ runtime = "none" /\ (~cur.again => target = None) /\ state \notin Active
  BY <1>0, PreparedOK
<1>8. Typed'
  BY <1>0, <1>1, <1>2 DEF Typed, TypeOK
<1>9. LocalsOK'
  BY <1>0, <1>1, <1>2 DEF LocalsOK, Early, Cutting, Installing, BeforeJournal
<1>10. ServiceOK'
  BY <1>0, <1>1, <1>2 DEF ServiceOK, Early, BeforeJournal, Handling, Served, Uncommitted, Cutting, RoleActive
<1>11. JournalOK'
  BY <1>0, <1>1, <1>2 DEF JournalOK
<1>12. GoneOK' /\ CalmOK' /\ LightOK'
  BY <1>0, <1>1, <1>2 DEF GoneOK, CalmOK, LightOK, NeverDark, BeforeJournal, RoleActive
<1> QED
  BY <1>1, <1>8, <1>9, <1>10, <1>11, <1>12 DEF IInv

LEMMA CompleteInv ==
    ASSUME IInv, Complete
    PROVE  IInv'
<1> DEFINE e == [journal.evidence EXCEPT !.snapshot = snapshots[cur.number], !.target = target]
           j == [journal EXCEPT !.status = "snapshot-complete",
                                !.evidence.snapshot = snapshots[cur.number],
                                !.evidence.target = target]
<1>0. /\ op = "upgrade" /\ Here = "complete" /\ Pop /\ journal' = j
      /\ UNCHANGED <<legacy, legacyData, snapshots, target, preserved, runtime, attempt, state, writes, runs, faults>>
  BY DEF Complete, At, Here, SaveJournal, data, Quiet
<1>1. /\ op' = "upgrade" /\ cur' = cur /\ failed' = failed
      /\ Here' = "attempt" /\ todo' # << >> /\ PlaceOK'
      /\ Typed /\ LocalsOK /\ ServiceOK /\ JournalOK /\ CalmOK /\ LightOK /\ todo # << >>
  <2>1. Here \in DOMAIN Follows /\ Follows[Here] = "attempt"
    BY <1>0 DEF Follows
  <2>2. faults' \in Nat
    BY <1>0 DEF IInv, Typed
  <2> QED
    BY <1>0, <2>1, <2>2, UpgradePops
<1>2. /\ journal # None /\ cur.number = Len(snapshots) /\ snapshots[cur.number] = legacyData
      /\ cur.restart = WasRunning /\ state \notin Active /\ legacy = "exited"
  BY <1>0, <1>1 DEF LocalsOK, Early, BeforeJournal, JournalOK, ServiceOK, Handling, Uncommitted
<1>3. /\ journal \in Journal /\ legacyData \in Content /\ journal.evidence.attempt = Len(snapshots)
      /\ snapshots # << >> /\ snapshots \in Seq(Content \cup {None}) /\ target \in Content \cup {None}
  BY <1>1, <1>2 DEF Typed, TypeOK, JournalOK
<1>4. journal.evidence \in Evidence
  BY <1>3 DEF Journal
<1>5. /\ e \in Evidence /\ e.attempt = journal.evidence.attempt /\ e.snapshot = legacyData
  BY <1>2, <1>3, <1>4 DEF Evidence
<1>6. /\ j \in Journal /\ j.status = "snapshot-complete" /\ j.evidence = e /\ j.initial = journal.initial
  BY <1>3, <1>5 DEF Journal
<1>7. j # None /\ legacyData # None
  BY <1>3, <1>6, NoneAssumption
<1> HIDE DEF e, j
<1>8. Recorded'
  BY <1>0, <1>1, <1>2, <1>3, <1>5, <1>6, <1>7 DEF Recorded, SnapshotIntact
<1>9. Typed'
  BY <1>0, <1>1, <1>3, <1>5, <1>6 DEF Typed, TypeOK
<1>10. LocalsOK'
  BY <1>0, <1>1, <1>2, <1>6, <1>7 DEF LocalsOK, Early, Cutting, Installing, BeforeJournal, WasRunning
<1>11. ServiceOK'
  BY <1>0, <1>1 DEF ServiceOK, Early, BeforeJournal, Handling, Served, Uncommitted, Cutting, RoleActive
<1>12. JournalOK'
  BY <1>0, <1>1, <1>2, <1>3, <1>6, <1>7, <1>8 DEF JournalOK
<1>13. GoneOK' /\ CalmOK' /\ LightOK'
  BY <1>0, <1>1 DEF GoneOK, CalmOK, LightOK, NeverDark, BeforeJournal, RoleActive
<1> QED
  BY <1>1, <1>9, <1>10, <1>11, <1>12, <1>13 DEF IInv

-----------------------------------------------------------------------------
(* The handlers of upgrade, and its ends.                                   *)

\* What a command that ends leaves: nothing is under way, and the last
\* upgrade failed or not.
LEMMA Stopped ==
    ASSUME IInv, NEW error \in BOOLEAN, Stop(error), Typed', JournalOK',
           ~(legacy = "running" /\ RoleActive)',
           faults' = 0 => ~error /\ attempt' = None /\ (state' \in Active => runtime' = "live")
                          /\ (journal' # None => journal'.status \in {"upgraded", "rolled_back"}),
           error /\ faults' <= 1 /\ WasRunning' => legacy' = "running" \/ RoleActive'
    PROVE  IInv'
<1>1. op' = "idle" /\ todo' = << >> /\ failed' = error
  BY DEF Stop
<1>2. PlaceOK' /\ LocalsOK' /\ ServiceOK' /\ GoneOK'
  BY <1>1 DEF PlaceOK, LocalsOK, ServiceOK, GoneOK
<1>3. CalmOK'
  BY <1>1 DEF CalmOK
<1>4. LightOK'
  BY <1>1 DEF LightOK, NeverDark, WasRunning
<1> QED
  BY <1>2, <1>3, <1>4 DEF IInv

\* Upgrade goes on to one of its handlers, by a fault or from the preflight.
LEMMA ToHandler ==
    ASSUME IInv, op = "upgrade", op' = "upgrade", cur' = cur, failed' = failed,
           todo' \in FailureTails, faults' \in Nat \ {0},
           Here' = "clean" => todo' = IF cur.restart THEN << "clean", "restore", "failed" >>
                                                     ELSE << "clean", "failed" >>,
           (Here \in BeforeJournal) = (Here' = "restore_only"), Here # "restore_only",
           Here' = "restore_only" => cur.restart,
           Here' = "journal_failed" => legacy = "exited" /\ runtime' = "live",
           Here' = "failed" /\ faults' <= 1 /\ WasRunning => legacy = "running" \/ RoleActive',
           runtime' \in Remains[runtime],
           UNCHANGED <<legacy, legacyData, snapshots, target, preserved, journal, writes, runs>>,
           state' = state \/ (Here = "commit" /\ state' = "installed"),
           attempt' \in {attempt, None, "starting", "cleaned", "cleanup-failed"},
           Here \in Early => attempt' = attempt
    PROVE  IInv'
<1>1. Typed /\ PlaceOK /\ LocalsOK /\ ServiceOK /\ JournalOK /\ CalmOK /\ LightOK
  BY DEF IInv
<1>0. /\ runtime' \in {"none", "created", "active", "live"} /\ (runtime = "none" => runtime' = "none")
      /\ RoleActive' => RoleActive
  BY <1>1, RemainsOf DEF Typed, TypeOK, RoleActive
<1>2. todo' # << >> /\ Here' \in Handling
  BY FailureTail DEF Here
<1>3. PlaceOK'
  BY <1>2 DEF PlaceOK
<1>4. Typed'
  BY <1>0, <1>1, <1>2 DEF Typed, TypeOK, Active
<1>5. LocalsOK'
  BY <1>1, <1>2 DEF LocalsOK, Early, Cutting, Installing, BeforeJournal, WasRunning, Handling
<1>6. ServiceOK'
  <2>1. ~(legacy = "running" /\ RoleActive)'
    BY <1>0, <1>1 DEF ServiceOK
  <2> QED
    BY <1>2, <2>1 DEF ServiceOK, Early, BeforeJournal, Handling, Served, Uncommitted, Cutting
<1>7. JournalOK'
  <2>1. journal = None => Untouched'
    BY <1>0, <1>1 DEF JournalOK, Untouched, LocalsOK, Early, BeforeJournal
  <2>2. Recorded' = Recorded
    BY DEF Recorded, SnapshotIntact
  <2>3. Here = "commit" => Recorded /\ journal # None /\ journal.status = "snapshot-complete"
    BY <1>1 DEF JournalOK, LocalsOK, Early, BeforeJournal, Installing
  <2>4. Here' \notin {"snapshot", "copy", "complete", "attempt", "create", "start", "commit"}
    BY <1>2 DEF Handling
  <2>5. journal # None =>
          /\ journal.status = "rolled_back" =>
               legacy = "running" /\ runtime' = "none" /\ state' = "rolled_back"
          /\ journal.status \in {"upgraded", "rollback-failed"} /\ state' \in {"uninstalled", "rolled_back"} =>
               runtime' = "none"
    BY <1>0, <1>1, <2>3 DEF JournalOK
  <2>6. journal # None /\ state' \in Active /\ legacy = "exited" => Recorded
    BY <1>1, <2>3 DEF JournalOK
  <2> QED
    BY <1>1, <2>1, <2>2, <2>4, <2>5, <2>6 DEF JournalOK
<1>8. GoneOK' /\ CalmOK'
  BY DEF GoneOK, CalmOK
<1>9. LightOK'
  BY <1>0, <1>1 DEF LightOK, NeverDark, WasRunning, RoleActive
<1> QED
  BY <1>3, <1>4, <1>5, <1>6, <1>7, <1>8, <1>9 DEF IInv

\* An effect of upgrade raises.
LEMMA UpgradeRaisesInv ==
    ASSUME IInv, op = "upgrade", UpgradeRaises, faults' \in Nat,
           faults' = faults + 1 \/ (Here = "prepare" /\ faults >= 1 /\ faults' = faults),
           UNCHANGED <<legacy, legacyData, snapshots, target, preserved, state, journal, writes, runs>>,
           IF Here = "clean" THEN runtime' \in Remains[runtime] /\ attempt' = "cleanup-failed"
                             ELSE UNCHANGED <<runtime, attempt>>
    PROVE  IInv'
<1>1. Typed /\ PlaceOK /\ LocalsOK /\ ServiceOK /\ JournalOK /\ CalmOK /\ LightOK
  BY DEF IInv
<1>2. /\ faults \in Nat /\ faults' \in Nat \ {0} /\ cur.restart \in BOOLEAN /\ cur.retrying \in BOOLEAN
      /\ faults' <= 1 => Here \notin Handling \/ Here = "prepare"
  BY <1>1 DEF Typed, PlaceOK
<1>3. Here \in DOMAIN Follows \cup {"upgraded"} \cup Handling
  BY <1>1, UpgradeTail, FailureTail DEF PlaceOK, Here
<1>4. runtime' \in Remains[runtime] /\ attempt' \in {attempt, "cleaned", "cleanup-failed"}
  BY <1>1, RemainsOf DEF Typed, TypeOK
<1>5. ASSUME Stop(TRUE), Here \in Early \cup Handling, Here # "clean",
             Here \in BeforeJournal => ~(cur.restart /\ cur.retrying)
      PROVE  IInv'
  <2>1. UNCHANGED <<runtime, attempt>>
    BY <1>5
  <2>2. op' = "idle" /\ todo' = << >> /\ failed' = TRUE /\ cur' = NoLocal
    BY <1>5 DEF Stop
  <2>3. Typed'
    <3>1. NoLocal \in [again : BOOLEAN, retrying : BOOLEAN, restart : BOOLEAN,
                       evidence : Evidence \cup {None}, number : Nat]
      BY DEF NoLocal
    <3> QED
      BY <1>1, <1>2, <2>1, <2>2, <3>1 DEF Typed, TypeOK
  <2>4. JournalOK'
    BY <1>1, <2>1, <2>2 DEF JournalOK, Untouched, Recorded, SnapshotIntact
  <2>5. faults' <= 1 /\ WasRunning => legacy = "running" \/ RoleActive
    <3>1. faults' <= 1 => Here \in BeforeJournal
      BY <1>2, <1>5 DEF Early, Handling, BeforeJournal
    <3>2. Here \in BeforeJournal /\ WasRunning => legacy = "running"
      BY <1>1, <1>5 DEF LocalsOK, Early, WasRunning, JournalOK
    <3> QED
      BY <3>1, <3>2
  <2>6. ~(legacy = "running" /\ RoleActive)' /\ (RoleActive' = RoleActive) /\ (WasRunning' = WasRunning)
    BY <1>1, <2>1 DEF ServiceOK, RoleActive, WasRunning
  <2> QED
    BY <1>2, <1>5, <2>3, <2>4, <2>5, <2>6, Stopped
<1>6. ASSUME NEW plan, Then(plan)
      PROVE  op' = "upgrade" /\ todo' = plan /\ cur' = cur /\ failed' = failed /\ Here' = Head(plan)
  BY <1>6 DEF Then, Here
<1>7. CASE Here \in BeforeJournal
  <2>1. CASE cur.restart /\ cur.retrying
    <3>1. Then(<< "restore_only" >>)
      BY <1>7, <2>1 DEF UpgradeRaises, Here, BeforeJournal, InstallSteps
    <3>2. todo' \in FailureTails /\ Here' = "restore_only"
      BY <3>1, <1>6 DEF FailureTails
    <3> QED
      BY <1>2, <1>4, <1>6, <1>7, <2>1, <3>1, <3>2, ToHandler DEF Early, BeforeJournal
  <2>2. CASE ~(cur.restart /\ cur.retrying)
    <3>1. Stop(TRUE)
      BY <1>7, <2>2 DEF UpgradeRaises, Here, BeforeJournal, InstallSteps
    <3> QED
      BY <1>5, <1>7, <2>2, <3>1 DEF Early, BeforeJournal
  <2> QED
    BY <2>1, <2>2
<1>8. CASE Here \in InstallSteps
  <2>1. Then(<< "clean" >> \o AfterFailure)
    BY <1>8 DEF UpgradeRaises, Here, BeforeJournal, InstallSteps
  <2>2. todo' = IF cur.restart THEN << "clean", "restore", "failed" >> ELSE << "clean", "failed" >>
    <3>1. todo' = << "clean" >> \o AfterFailure
      BY <2>1, <1>6
    <3> QED
      BY <3>1, PlansOfHandlers
  <2>3. todo' \in FailureTails /\ Here' = "clean"
    BY <2>2 DEF FailureTails, Here
  <2> QED
    BY <1>2, <1>4, <1>6, <1>8, <2>1, <2>2, <2>3, ToHandler DEF Early, BeforeJournal, InstallSteps
<1>9. CASE Here = "upgraded"
  <2>1. Then(<< "journal_failed" >>)
    BY <1>9 DEF UpgradeRaises, Here, BeforeJournal, InstallSteps
  <2>2. todo' \in FailureTails /\ Here' = "journal_failed"
    BY <2>1, <1>6 DEF FailureTails
  <2>3. legacy = "exited" /\ runtime' = "live"
    BY <1>1, <1>9 DEF ServiceOK, Early, BeforeJournal, Handling, Served
  <2> QED
    BY <1>2, <1>4, <1>6, <1>9, <2>1, <2>2, <2>3, ToHandler DEF Early, BeforeJournal
<1>10. CASE Here \in {"restore_only", "failed", "journal_failed"}
  <2>1. Stop(TRUE)
    BY <1>10 DEF UpgradeRaises, Here, BeforeJournal, InstallSteps
  <2> QED
    BY <1>5, <1>10, <2>1 DEF Early, BeforeJournal, Handling
<1>11. CASE Here = "restore"
  <2>1. Then(<< "failed" >>)
    BY <1>11 DEF UpgradeRaises, Here, BeforeJournal, InstallSteps
  <2>2. todo' \in FailureTails /\ Here' = "failed"
    BY <2>1, <1>6 DEF FailureTails
  <2>3. ~(faults' <= 1)
    BY <1>2, <1>11 DEF Handling
  <2> QED
    BY <1>2, <1>4, <1>6, <1>11, <2>1, <2>2, <2>3, ToHandler DEF Early, BeforeJournal
<1>12. CASE Here \in Cutting \cup {"complete", "attempt", "drop", "clean"}
  <2>1. Then(AfterFailure)
    BY <1>12 DEF UpgradeRaises, Here, BeforeJournal, InstallSteps, Cutting
  <2>2. todo' = IF cur.restart THEN << "restore", "failed" >> ELSE << "failed" >>
    BY <2>1, <1>6, PlansOfHandlers
  <2>3. todo' \in FailureTails /\ Here' = IF cur.restart THEN "restore" ELSE "failed"
    BY <2>2 DEF FailureTails, Here
  <2>4. cur.restart = WasRunning
    BY <1>1, <1>12 DEF LocalsOK, Early, BeforeJournal, Cutting
  <2>6. Here \notin Early /\ Here \notin BeforeJournal /\ Here # "restore_only"
    BY <1>12 DEF Early, BeforeJournal, Cutting
  <2>7. op' = "upgrade" /\ cur' = cur /\ failed' = failed
    BY <2>1, <1>6
  <2>8. Here' = "failed" => ~WasRunning
    BY <1>2, <2>3, <2>4
  <2>9. Here' \in {"restore", "failed"}
    BY <2>3
  <2> QED
    BY <1>2, <1>4, <2>3, <2>6, <2>7, <2>8, <2>9, ToHandler
<1> QED
  BY <1>3, <1>7, <1>8, <1>9, <1>10, <1>11, <1>12 DEF Follows, Handling, Cutting, InstallSteps, BeforeJournal

LEMMA NotPreparedInv ==
    ASSUME IInv, NotPrepared
    PROVE  IInv'
<1>0. /\ op = "upgrade" /\ Here = "prepare" /\ ~Preflight /\ UpgradeRaises
      /\ UNCHANGED <<legacy, legacyData, snapshots, target, preserved, runtime, attempt, state, journal, writes, runs, faults>>
  BY DEF NotPrepared, At, Here, data, Quiet
<1>1. faults \in Nat /\ CalmOK
  BY DEF IInv, Typed
<1>2. faults >= 1
  BY <1>0, <1>1 DEF CalmOK, Preflight, BeforeJournal
<1> QED
  BY <1>0, <1>1, <1>2, UpgradeRaisesInv

LEMMA CleanInv ==
    ASSUME IInv, Clean
    PROVE  IInv'
<1>0. /\ op = "upgrade" /\ Here = "clean" /\ Pop
      /\ runtime' = "none" /\ attempt' = "cleaned"
      /\ UNCHANGED <<legacy, legacyData, snapshots, target, preserved, state, journal, writes, runs, faults>>
  BY DEF Clean, At, Here, data, Quiet
<1>1. /\ Typed /\ PlaceOK /\ LocalsOK /\ ServiceOK
      /\ op' = "upgrade" /\ cur' = cur /\ failed' = failed /\ todo' = Tail(todo)
  BY <1>0 DEF IInv, Pop
<1>2. /\ todo = IF cur.restart THEN << "clean", "restore", "failed" >> ELSE << "clean", "failed" >>
      /\ cur.restart = WasRunning /\ faults \in Nat \ {0} /\ runtime' \in Remains[runtime]
  BY <1>0, <1>1, RemainsOf DEF PlaceOK, LocalsOK, Early, BeforeJournal, Handling, Typed, TypeOK
<1>3. todo' = IF cur.restart THEN << "restore", "failed" >> ELSE << "failed" >>
  BY <1>1, <1>2
<1>4. todo' \in FailureTails /\ Here' = IF cur.restart THEN "restore" ELSE "failed"
  BY <1>3 DEF FailureTails, Here
<1> QED
  BY <1>0, <1>1, <1>2, <1>4, ToHandler DEF Early, BeforeJournal

LEMMA RestoreInv ==
    ASSUME IInv, Restore
    PROVE  IInv'
<1>0. /\ op = "upgrade" /\ Here \in {"restore", "restore_only"}
      /\ IF Here = "restore" THEN Pop ELSE Stop(TRUE)
      /\ (RoleActive /\ legacy' = legacy) \/ (~RoleActive /\ legacy' = "running")
      /\ UNCHANGED <<legacyData, snapshots, target, preserved, runtime, attempt, state, journal, writes, runs, faults>>
  <2>1. CASE RestoreRefused
    BY <2>1 DEF Restore, RestoreRefused, Here, data, Quiet
  <2>2. CASE ~RestoreRefused
    BY <2>2 DEF Restore, RestoreRefused, Restored, Here, data, Quiet
  <2> QED
    BY ONLY <2>1, <2>2, Zenon
<1>1. Typed /\ PlaceOK /\ LocalsOK /\ ServiceOK /\ JournalOK /\ CalmOK /\ LightOK
  BY DEF IInv
<1>2. /\ faults \in Nat \ {0} /\ legacy' \in {"running", "exited"}
      /\ RoleActive' = RoleActive /\ WasRunning' = WasRunning
      /\ legacy' = "running" \/ RoleActive
  BY <1>0, <1>1 DEF Typed, TypeOK, PlaceOK, Handling, RoleActive, WasRunning
<1>3. ~(legacy = "running" /\ RoleActive)'
  BY <1>0, <1>1, <1>2 DEF ServiceOK
<1>6. /\ journal = None => Untouched'
      /\ journal # None => Recorded' = Recorded
  BY <1>0, <1>1 DEF JournalOK, Untouched, Recorded, SnapshotIntact
<1>7. journal # None =>
        /\ snapshots' # << >>
        /\ journal'.status = "rolled_back" => legacy' = "running" /\ runtime' = "none" /\ state' = "rolled_back"
        /\ journal'.status \in {"upgraded", "rollback-failed"} /\ state' \in {"uninstalled", "rolled_back"} =>
              runtime' = "none"
        /\ journal'.status = "snapshot-complete" /\ legacy' = "exited" => Recorded'
        /\ state' \in Active /\ legacy' = "exited" => Recorded'
  BY <1>0, <1>1, <1>2, <1>6 DEF JournalOK, RoleActive
<1>8. CASE Here = "restore"
  <2>1. op' = "upgrade" /\ cur' = cur /\ failed' = failed /\ todo' = << "failed" >>
    <3>1. todo = << "restore", "failed" >>
      BY <1>1, <1>8, <1>0, UpgradeTail, FailureTail DEF PlaceOK, Here, Follows
    <3> QED
      BY <1>0, <1>8, <3>1 DEF Pop
  <2>2. todo' \in FailureTails /\ Here' = "failed" /\ todo' # << >>
    BY <2>1 DEF FailureTails, Here
  <2>3. PlaceOK'
    BY <1>0, <1>2, <2>1, <2>2 DEF PlaceOK
  <2>4. Typed'
    BY <1>0, <1>1, <1>2, <2>1, <2>2 DEF Typed, TypeOK
  <2>5. LocalsOK'
    BY <1>0, <1>1, <1>2, <1>8, <2>1, <2>2 DEF LocalsOK, Early, Cutting, Installing, BeforeJournal
  <2>6. ServiceOK'
    BY <1>3, <2>1, <2>2 DEF ServiceOK, Early, BeforeJournal, Handling, Served, Uncommitted, Cutting
  <2>7. JournalOK'
    BY <1>0, <1>6, <1>7, <2>1, <2>2 DEF JournalOK
  <2>8. GoneOK' /\ CalmOK'
    BY <1>0, <1>2, <2>1 DEF GoneOK, CalmOK
  <2>9. LightOK'
    BY <1>2, <2>1 DEF LightOK, NeverDark
  <2> QED
    BY <2>3, <2>4, <2>5, <2>6, <2>7, <2>8, <2>9 DEF IInv
<1>9. CASE Here = "restore_only"
  <2>1. Stop(TRUE) /\ op' = "idle" /\ todo' = << >> /\ failed' = TRUE /\ cur' = NoLocal
    BY <1>0, <1>9 DEF Stop
  <2>2. Typed'
    <3>1. NoLocal \in [again : BOOLEAN, retrying : BOOLEAN, restart : BOOLEAN,
                       evidence : Evidence \cup {None}, number : Nat]
      BY DEF NoLocal
    <3> QED
      BY <1>0, <1>1, <1>2, <2>1, <3>1 DEF Typed, TypeOK
  <2>3. JournalOK'
    BY <1>0, <1>6, <1>7, <2>1 DEF JournalOK
  <2> QED
    BY <1>0, <1>2, <1>3, <2>1, <2>2, <2>3, Stopped
<1> QED
  BY <1>0, <1>8, <1>9

LEMMA FailedInv ==
    ASSUME IInv, Failed
    PROVE  IInv'
<1> DEFINE status == CASE Here = "journal_failed" -> "upgrade-journal-failed"
                       [] cur.again               -> "reupgrade-failed"
                       [] OTHER                   -> "upgrade-failed"
           j == [journal EXCEPT !.status = status]
<1>0. /\ op = "upgrade" /\ Here \in {"failed", "journal_failed"} /\ Stop(TRUE) /\ journal' = j
      /\ UNCHANGED <<legacy, legacyData, snapshots, target, preserved, runtime, attempt, state, writes, runs, faults>>
  BY DEF Failed, SaveJournal, data, Quiet, Here
<1>1. Typed /\ PlaceOK /\ LocalsOK /\ ServiceOK /\ JournalOK /\ CalmOK /\ LightOK
  BY DEF IInv
<1>2. /\ faults \in Nat \ {0} /\ journal # None /\ journal \in Journal
  BY <1>0, <1>1 DEF Typed, TypeOK, PlaceOK, LocalsOK, Handling, Early, BeforeJournal
<1>3. status \in {"upgrade-journal-failed", "reupgrade-failed", "upgrade-failed"}
  OBVIOUS
<1> HIDE DEF status
<1>4. /\ j \in Journal /\ j.status = status /\ j.evidence = journal.evidence /\ j.initial = journal.initial
  BY <1>2, <1>3 DEF Journal
<1>5. j # None
  BY <1>4, NoneAssumption
<1> HIDE DEF j
<1>6. op' = "idle" /\ todo' = << >> /\ failed' = TRUE /\ cur' = NoLocal
  BY <1>0 DEF Stop
<1>7. Typed'
  <2>1. NoLocal \in [again : BOOLEAN, retrying : BOOLEAN, restart : BOOLEAN,
                     evidence : Evidence \cup {None}, number : Nat]
    BY DEF NoLocal
  <2> QED
    BY <1>0, <1>1, <1>2, <1>4, <1>6, <2>1 DEF Typed, TypeOK
<1>8. JournalOK'
  BY <1>0, <1>1, <1>2, <1>3, <1>4, <1>5, <1>6 DEF JournalOK, Recorded, SnapshotIntact
<1>9. /\ WasRunning' = WasRunning /\ RoleActive' = RoleActive
      /\ ~(legacy = "running" /\ RoleActive)'
  BY <1>0, <1>1, <1>2, <1>4, <1>5 DEF WasRunning, RoleActive, ServiceOK
<1>10. faults <= 1 /\ WasRunning => legacy = "running" \/ RoleActive
  BY <1>0, <1>1 DEF LightOK, ServiceOK, Served, RoleActive
<1> QED
  BY <1>0, <1>2, <1>6, <1>7, <1>8, <1>9, <1>10, Stopped

LEMMA UpgradedInv ==
    ASSUME IInv, Upgraded
    PROVE  IInv'
<1> DEFINE j == [journal EXCEPT !.status = "upgraded"]
<1>0. /\ op = "upgrade" /\ Here = "upgraded" /\ Stop(FALSE) /\ journal' = j
      /\ UNCHANGED <<legacy, legacyData, snapshots, target, preserved, runtime, attempt, state, writes, runs, faults>>
  BY DEF Upgraded, At, SaveJournal, data, Quiet, Here
<1>1. Typed /\ PlaceOK /\ LocalsOK /\ ServiceOK /\ JournalOK /\ CalmOK /\ LightOK
  BY DEF IInv
<1>2. /\ journal # None /\ journal \in Journal /\ state = "installed"
  BY <1>0, <1>1 DEF Typed, TypeOK, LocalsOK, ServiceOK, Early, BeforeJournal
<1>4. /\ j \in Journal /\ j.status = "upgraded" /\ j.evidence = journal.evidence /\ j.initial = journal.initial
  BY <1>2 DEF Journal
<1>5. j # None
  BY <1>4, NoneAssumption
<1> HIDE DEF j
<1>6. op' = "idle" /\ todo' = << >> /\ failed' = FALSE /\ cur' = NoLocal
  BY <1>0 DEF Stop
<1>7. Typed'
  <2>1. NoLocal \in [again : BOOLEAN, retrying : BOOLEAN, restart : BOOLEAN,
                     evidence : Evidence \cup {None}, number : Nat]
    BY DEF NoLocal
  <2>2. journal' \in Journal /\ journal'.evidence.attempt = Len(snapshots)
    BY <1>0, <1>1, <1>2, <1>4 DEF Typed, TypeOK
  <2>3. TypeOK'
    BY <1>0, <1>1, <1>6, <2>2 DEF Typed, TypeOK
  <2> QED
    BY <1>0, <1>1, <1>6, <2>1, <2>3 DEF Typed
<1>8. JournalOK'
  BY <1>0, <1>1, <1>2, <1>4, <1>5, <1>6 DEF JournalOK, Recorded, SnapshotIntact
<1>9. ~(legacy = "running" /\ RoleActive)'
  BY <1>0, <1>1 DEF RoleActive, ServiceOK
<1>11. runtime' = "live"
  BY <1>0, <1>1 DEF ServiceOK, Served
<1>10. faults' = 0 => attempt' = None /\ journal'.status \in {"upgraded", "rolled_back"}
  BY <1>0, <1>1, <1>4 DEF CalmOK
<1> QED
  BY <1>0, <1>7, <1>8, <1>9, <1>10, <1>11, Stopped

-----------------------------------------------------------------------------
(* The commands begin.                                                      *)

LEMMA InitInv == Init => IInv
<1> SUFFICES ASSUME Init PROVE IInv
  OBVIOUS
<1>1. Typed
  <2>1. cur \in [again : BOOLEAN, retrying : BOOLEAN, restart : BOOLEAN,
                 evidence : Evidence \cup {None}, number : Nat]
    BY DEF Init, NoLocal
  <2>2. TypeOK
    BY DEF Init, TypeOK, Content
  <2> QED
    BY <2>1, <2>2 DEF Init, Typed
<1>2. PlaceOK /\ LocalsOK /\ GoneOK /\ CalmOK
  BY NoneAssumption DEF Init, PlaceOK, LocalsOK, GoneOK, CalmOK, Active
<1>3. ServiceOK /\ JournalOK /\ LightOK
  BY DEF Init, ServiceOK, JournalOK, LightOK, NeverDark, RoleActive, Untouched
<1> QED
  BY <1>1, <1>2, <1>3 DEF IInv

LEMMA UpgradeInv ==
    ASSUME IInv, Upgrade
    PROVE  IInv'
<1> DEFINE c == [again    |-> state = "rolled_back",
                 retrying |-> journal # None /\ journal.status # "rolled_back",
                 restart  |-> legacy = "running" \/ (journal # None /\ journal.initial = "running"),
                 evidence |-> IF state = "rolled_back" THEN RollbackEvidence ELSE None,
                 number   |-> NextAttempt]
<1>0. /\ op = "idle" /\ runs' = runs + 1
      /\ (journal = None /\ state = None) \/ RetryUpgrade \/ Reupgrade
      /\ op' = "upgrade" /\ todo' = UpgradePlan /\ failed' = FALSE /\ cur' = c
      /\ UNCHANGED <<legacy, legacyData, snapshots, target, preserved, runtime, attempt, state, journal, writes, faults>>
  BY DEF Upgrade, Begin, data
<1>1. Typed /\ PlaceOK /\ ServiceOK /\ JournalOK /\ CalmOK /\ LightOK
  BY DEF IInv
<1>2. todo' \in UpgradeTails /\ Here' = "set_aside" /\ todo' # << >>
  BY <1>0 DEF UpgradePlan, UpgradeTails, Here
<1>3. /\ NextAttempt \in Nat /\ NextAttempt = Len(snapshots) + 1
  <2>1. CASE journal = None
    <3>1. snapshots = << >>
      BY <1>1, <2>1 DEF JournalOK, Untouched
    <3> QED
      BY <2>1, <3>1 DEF NextAttempt
  <2>2. CASE journal # None
    BY <1>1, <2>2 DEF NextAttempt, Typed, TypeOK
  <2> QED
    BY <2>1, <2>2
<1>4. (IF state = "rolled_back" THEN RollbackEvidence ELSE None) \in Evidence \cup {None}
  <2>1. state = "rolled_back" => journal \in Journal
    BY <1>0, <1>1, NoneAssumption DEF Reupgrade, RetryUpgrade, Typed, TypeOK
  <2> QED
    BY <2>1 DEF RollbackEvidence, Journal
<1>5. /\ c \in [again : BOOLEAN, retrying : BOOLEAN, restart : BOOLEAN,
                evidence : Evidence \cup {None}, number : Nat]
      /\ c.again = (state = "rolled_back")
      /\ c.retrying = (journal # None /\ journal.status # "rolled_back")
      /\ c.restart = (legacy = "running" \/ (journal # None /\ journal.initial = "running"))
      /\ c.number = NextAttempt
  BY <1>3, <1>4
<1> HIDE DEF c
<1>6. Typed'
  <2>1. TypeOK'
    <3>1. (op' = "idle") = (todo' = << >>) /\ op' \in {"idle", "upgrade", "rollback"}
      BY <1>0, <1>2
    <3>2. journal' # None => journal'.evidence.attempt = Len(snapshots')
      BY <1>0, <1>1 DEF Typed, TypeOK
    <3>3. /\ legacy' \in {"running", "exited"} /\ legacyData' \in Content
          /\ snapshots' \in Seq(Content \cup {None}) /\ target' \in Content \cup {None}
          /\ preserved' \subseteq Content
          /\ runtime' \in {"none", "created", "active", "live"}
          /\ attempt' \in {None, "starting", "cleaned", "cleanup-failed"}
          /\ state' \in Active \cup {None, "uninstalling", "uninstalled", "rolled_back"}
          /\ journal' \in Journal \cup {None}
      BY <1>0, <1>1 DEF Typed, TypeOK
    <3> QED
      BY <3>1, <3>2, <3>3, Zenon DEF TypeOK
  <2>2. failed' \in BOOLEAN /\ writes' \in Nat /\ runs' \in Nat /\ faults' \in Nat
    <3>1. failed' \in BOOLEAN
      BY <1>0
    <3>2. writes' \in Nat /\ runs' \in Nat /\ faults' \in Nat
      <4>1. writes \in Nat /\ runs \in Nat /\ faults \in Nat
        BY <1>1 DEF Typed
      <4> QED
        BY <1>0, <4>1
    <3> QED
      BY <3>1, <3>2
  <2>3. cur' \in [again : BOOLEAN, retrying : BOOLEAN, restart : BOOLEAN,
                  evidence : Evidence \cup {None}, number : Nat]
    BY <1>0, <1>5
  <2> QED
    BY <2>1, <2>2, <2>3 DEF Typed
<1>7. PlaceOK' /\ GoneOK'
  BY <1>0, <1>2 DEF PlaceOK, GoneOK, Handling
<1>8. LocalsOK'
  BY <1>0, <1>2, <1>3, <1>5 DEF LocalsOK, Early, Cutting, Installing, BeforeJournal, WasRunning
<1>13. state \notin Active
  BY <1>0, NoneAssumption DEF RetryUpgrade, Reupgrade, Active
<1>9. ServiceOK'
  BY <1>0, <1>1, <1>2, <1>13 DEF ServiceOK, Early, BeforeJournal, Handling, Served, Uncommitted, Cutting, RoleActive
<1>10. JournalOK'
  BY <1>0, <1>1, <1>2 DEF JournalOK, Untouched, Recorded, SnapshotIntact
<1>11. CalmOK'
  <2>1. faults = 0 => attempt = None /\ (journal # None => journal.status \in {"upgraded", "rolled_back"})
    BY <1>0, <1>1 DEF CalmOK
  <2>2. CASE faults = 0 /\ journal = None
    <3>1. runtime = "none" /\ target = None
      BY <1>1, <2>2 DEF JournalOK, Untouched
    <3> QED
      BY <1>0, <1>2, <1>13, <2>1, <3>1 DEF CalmOK, BeforeJournal
  <2>3. CASE faults = 0 /\ journal # None
    <3>1. Reupgrade
      BY <1>0, <2>1, <2>3 DEF RetryUpgrade
    <3>2. journal.status = "rolled_back" /\ state = "rolled_back"
      BY <2>1, <2>3, <3>1 DEF Reupgrade
    <3>3. runtime = "none" /\ cur'.again
      BY <1>0, <1>1, <1>5, <2>3, <3>2 DEF JournalOK
    <3> QED
      BY <1>0, <1>2, <1>13, <2>1, <3>3 DEF CalmOK, BeforeJournal
  <2>4. CASE faults # 0
    BY <1>0, <2>4 DEF CalmOK
  <2> QED
    BY <2>2, <2>3, <2>4
<1>12. LightOK'
  BY <1>0, <1>2 DEF LightOK, NeverDark
<1> QED
  BY <1>6, <1>7, <1>8, <1>9, <1>10, <1>11, <1>12 DEF IInv

LEMMA RecoverUpgradeInv ==
    ASSUME IInv, RecoverUpgrade
    PROVE  IInv'
<1> DEFINE j == [journal EXCEPT !.status = "upgraded"]
<1>0. /\ op = "idle" /\ runs' = runs + 1 /\ (RecoverActive \/ RecoverRuntime)
      /\ state' = IF state = None THEN "adopted" ELSE state
      /\ journal' = j /\ failed' = FALSE
      /\ UNCHANGED <<legacy, legacyData, snapshots, target, preserved, runtime, attempt, op, todo, cur, writes, faults>>
  BY DEF RecoverUpgrade, Begin, data
<1>1. Typed /\ PlaceOK /\ ServiceOK /\ JournalOK /\ CalmOK /\ LightOK
  BY DEF IInv
<1>2. journal # None /\ journal \in Journal /\ legacy = "exited" /\ runtime = "live"
  BY <1>0, <1>1 DEF RecoverActive, RecoverRuntime, Verifiable, Typed, TypeOK
<1>3. state' \in Active /\ Recorded
  BY <1>0, <1>1, <1>2, NoneAssumption DEF RecoverActive, RecoverRuntime, JournalOK, Active
<1>4. /\ j \in Journal /\ j.status = "upgraded" /\ j.evidence = journal.evidence /\ j.initial = journal.initial
  BY <1>2 DEF Journal
<1>5. j # None
  BY <1>4, NoneAssumption
<1> HIDE DEF j
<1>6. Typed'
  <2>1. TypeOK'
    <3>1. op' \in {"idle", "upgrade", "rollback"} /\ (op' = "idle") = (todo' = << >>)
      BY <1>0, <1>1 DEF Typed, TypeOK
    <3>2. journal' # None => journal'.evidence.attempt = Len(snapshots')
      BY <1>0, <1>1, <1>2, <1>4 DEF Typed, TypeOK
    <3>3. /\ legacy' \in {"running", "exited"} /\ legacyData' \in Content
          /\ snapshots' \in Seq(Content \cup {None}) /\ target' \in Content \cup {None}
          /\ preserved' \subseteq Content
          /\ runtime' \in {"none", "created", "active", "live"}
          /\ attempt' \in {None, "starting", "cleaned", "cleanup-failed"}
          /\ state' \in Active \cup {None, "uninstalling", "uninstalled", "rolled_back"}
          /\ journal' \in Journal \cup {None}
      BY <1>0, <1>1, <1>3, <1>4 DEF Typed, TypeOK
    <3> QED
      BY <3>1, <3>2, <3>3, Zenon DEF TypeOK
  <2>2. failed' \in BOOLEAN /\ writes' \in Nat /\ runs' \in Nat /\ faults' \in Nat
    <3>1. failed' \in BOOLEAN
      BY <1>0
    <3>2. writes' \in Nat /\ runs' \in Nat /\ faults' \in Nat
      <4>1. writes \in Nat /\ runs \in Nat /\ faults \in Nat
        BY <1>1 DEF Typed
      <4> QED
        BY <1>0, <4>1
    <3> QED
      BY <3>1, <3>2
  <2>3. cur' \in [again : BOOLEAN, retrying : BOOLEAN, restart : BOOLEAN,
                  evidence : Evidence \cup {None}, number : Nat]
    BY <1>0, <1>1 DEF Typed
  <2> QED
    BY <2>1, <2>2, <2>3 DEF Typed
<1>7. PlaceOK' /\ LocalsOK' /\ GoneOK'
  BY <1>0, <1>1 DEF PlaceOK, LocalsOK, GoneOK
<1>8. ServiceOK'
  BY <1>0, <1>2 DEF ServiceOK
<1>9. JournalOK'
  BY <1>0, <1>1, <1>2, <1>3, <1>4, <1>5 DEF JournalOK, Recorded, SnapshotIntact, Active
<1>10. CalmOK' /\ LightOK'
  BY <1>0, <1>1, <1>2, <1>4 DEF CalmOK, LightOK, NeverDark
<1> QED
  BY <1>6, <1>7, <1>8, <1>9, <1>10 DEF IInv

LEMMA RollbackBeginInv ==
    ASSUME IInv, Rollback
    PROVE  IInv'
<1>0. /\ op = "idle" /\ runs' = runs + 1 /\ RollbackAllowed
      /\ op' = "rollback" /\ todo' = RollbackPlan /\ cur' = NoLocal
      /\ UNCHANGED <<legacy, legacyData, snapshots, target, preserved, runtime, attempt, state, journal, failed, writes, faults>>
  BY DEF Rollback, Begin, data
<1>1. Typed /\ PlaceOK /\ ServiceOK /\ JournalOK /\ CalmOK /\ LightOK
  BY DEF IInv
<1>2. /\ journal # None /\ state # None /\ journal.status # "rolled_back"
      /\ state \notin {"uninstalled", "rolled_back"} => legacy = "exited"
      /\ state \in Active \cup {"uninstalling", "uninstalled", "rolled_back"}
      /\ state \in {"uninstalled", "rolled_back"} => journal.status \in {"upgraded", "rollback-failed"}
  BY <1>0, <1>1 DEF RollbackAllowed, Active, Typed, TypeOK
<1>3. state \in {"uninstalled", "rolled_back"} => runtime = "none"
  BY <1>1, <1>2 DEF JournalOK
<1>4. /\ todo' \in RollbackTails /\ todo' # << >>
      /\ Here' = IF state \in {"uninstalled", "rolled_back"} THEN "restore" ELSE "uninstall"
  BY <1>0, PlansOfHandlers DEF RollbackTails, Here
<1>5. Typed'
  <2>1. NoLocal \in [again : BOOLEAN, retrying : BOOLEAN, restart : BOOLEAN,
                     evidence : Evidence \cup {None}, number : Nat]
    BY DEF NoLocal
  <2> QED
    BY <1>0, <1>1, <1>4, <2>1 DEF Typed, TypeOK
<1>6. PlaceOK' /\ LocalsOK' /\ GoneOK'
  BY <1>0, <1>3, <1>4 DEF PlaceOK, LocalsOK, GoneOK
<1>7. ServiceOK'
  BY <1>0, <1>1, <1>2, <1>3, <1>4 DEF ServiceOK, RoleActive
<1>8. JournalOK'
  BY <1>0, <1>1 DEF JournalOK, Untouched, Recorded, SnapshotIntact
<1>9. CalmOK' /\ LightOK'
  BY <1>0, <1>1, <1>2, <1>4 DEF CalmOK, LightOK, NeverDark, WasRunning, RoleActive
<1> QED
  BY <1>5, <1>6, <1>7, <1>8, <1>9 DEF IInv

LEMMA RollbackAgainInv ==
    ASSUME IInv, RollbackAgain
    PROVE  IInv'
<1>0. /\ op = "idle" /\ runs' = runs + 1 /\ journal # None /\ journal.status = "rolled_back"
      /\ state = "rolled_back" /\ ~RoleActive /\ legacy' = "running"
      /\ UNCHANGED <<legacyData, snapshots, target, preserved, runtime, attempt, state, journal, op, todo, cur, failed, writes, faults>>
  BY DEF RollbackAgain, RestoreRefused, Begin, data
<1>1. Typed /\ PlaceOK /\ ServiceOK /\ JournalOK /\ CalmOK /\ LightOK
  BY DEF IInv
<1>2. legacy = "running"
  BY <1>0, <1>1 DEF JournalOK
<1>3. Typed'
  BY <1>0, <1>1 DEF Typed, TypeOK
<1>4. PlaceOK' /\ LocalsOK' /\ ServiceOK' /\ GoneOK'
  BY <1>0, <1>1 DEF PlaceOK, LocalsOK, ServiceOK, GoneOK, RoleActive
<1>5. JournalOK'
  BY <1>0, <1>1, <1>2 DEF JournalOK, Untouched, Recorded, SnapshotIntact
<1>6. CalmOK' /\ LightOK'
  BY <1>0, <1>1 DEF CalmOK, LightOK, NeverDark
<1> QED
  BY <1>3, <1>4, <1>5, <1>6 DEF IInv

-----------------------------------------------------------------------------
(* The steps of rollback.                                                   *)

\* A step of its plan.
LEMMA RollbackPops ==
    ASSUME IInv, op = "rollback", Here \in {"uninstall", "uninstalled", "restore", "rolled_back"}, Pop
    PROVE  /\ op' = "rollback" /\ cur' = cur /\ failed' = failed
           /\ Here' = CASE Here = "uninstall"   -> "uninstalled"
                        [] Here = "uninstalled" -> "restore"
                        [] Here = "restore"     -> "rolled_back"
                        [] OTHER                -> "close"
           /\ todo' # << >> /\ PlaceOK' /\ LocalsOK'
           /\ Typed /\ PlaceOK /\ ServiceOK /\ JournalOK /\ GoneOK /\ CalmOK /\ LightOK
<1>1. todo \in RollbackTails /\ todo' = Tail(todo) /\ op' = op /\ cur' = cur /\ failed' = failed
  BY DEF IInv, PlaceOK, Pop
<1>2. /\ todo' \in RollbackTails
      /\ Here' = CASE Here = "uninstall"   -> "uninstalled"
                        [] Here = "uninstalled" -> "restore"
                        [] Here = "restore"     -> "rolled_back"
                        [] OTHER                -> "close"
  BY <1>1, RollbackTail DEF Here
<1>3. todo' # << >>
  BY <1>2, RollbackTail
<1>4. PlaceOK' /\ LocalsOK'
  BY <1>1, <1>2 DEF PlaceOK, LocalsOK
<1> QED
  BY <1>1, <1>2, <1>3, <1>4 DEF IInv

LEMMA UninstallStartInv ==
    ASSUME IInv, UninstallStart
    PROVE  IInv'
<1>0. /\ op = "rollback" /\ Here = "uninstall" /\ Pop /\ state' = "uninstalling"
      /\ runtime' \in Remains[runtime]
      /\ UNCHANGED <<legacy, legacyData, snapshots, target, preserved, attempt, journal, writes, runs, faults>>
  BY DEF UninstallStart, At, Here, data, Quiet
<1>1. /\ op' = "rollback" /\ cur' = cur /\ failed' = failed /\ Here' = "uninstalled"
      /\ todo' # << >> /\ PlaceOK' /\ LocalsOK'
      /\ Typed /\ PlaceOK /\ ServiceOK /\ JournalOK /\ GoneOK /\ CalmOK /\ LightOK
  BY <1>0, RollbackPops
<1>6. runtime' \in {"none", "created", "active", "live"} /\ (runtime = "none" => runtime' = "none")
  BY <1>0, <1>1, RemainsOf DEF Typed, TypeOK
<1>2. Typed'
  BY <1>0, <1>1, <1>6 DEF Typed, TypeOK
<1>3. ServiceOK'
  BY <1>0, <1>1, <1>6, NoneAssumption DEF ServiceOK
<1>4. JournalOK'
  BY <1>0, <1>1 DEF JournalOK, ServiceOK, Recorded, SnapshotIntact, Active
<1>5. GoneOK' /\ CalmOK' /\ LightOK'
  BY <1>0, <1>1, NoneAssumption DEF GoneOK, CalmOK, LightOK, NeverDark, Active
<1> QED
  BY <1>1, <1>2, <1>3, <1>4, <1>5 DEF IInv

\* The rollback goes on to its handler, refused or by a fault.
LEMMA ToRollbackFailed ==
    ASSUME IInv, op = "rollback", RollbackRaises, faults' \in Nat \ {0},
           faults' = faults + 1 \/ (Here = "uninstall" /\ faults' = faults),
           UNCHANGED <<legacy, legacyData, snapshots, target, preserved, runtime, attempt, state,
                       journal, writes, runs>>
    PROVE  IInv'
<1>1. Typed /\ PlaceOK /\ LocalsOK /\ ServiceOK /\ JournalOK /\ GoneOK /\ CalmOK /\ LightOK
  BY DEF IInv
<1>2. op' = "rollback" /\ todo' = << "rollback_failed" >> /\ cur' = cur /\ failed' = failed
  BY DEF RollbackRaises, Then
<1>3. todo' \in RollbackTails /\ Here' = "rollback_failed" /\ todo' # << >>
  BY <1>2 DEF RollbackTails, Here
<1>4. Typed'
  <2>1. TypeOK'
    BY <1>1, <1>2, <1>3 DEF Typed, TypeOK
  <2> QED
    BY <1>1, <1>2, <2>1 DEF Typed
<1>5. PlaceOK' /\ LocalsOK' /\ GoneOK'
  BY <1>1, <1>2, <1>3 DEF PlaceOK, LocalsOK, GoneOK
<1>6. ServiceOK'
  BY <1>1, <1>2, <1>3 DEF ServiceOK, RoleActive
<1>7. JournalOK'
  BY <1>1, <1>2 DEF JournalOK, Untouched, Recorded, SnapshotIntact
<1>8. CalmOK' /\ LightOK'
  <2>1. faults' <= 1 /\ failed /\ WasRunning => legacy = "running" \/ RoleActive
    <3>1. CASE faults' = faults + 1
      <4>1. faults' <= 1 => faults = 0
        BY <1>1, <3>1 DEF Typed
      <4> QED
        BY <1>1, <4>1 DEF CalmOK
    <3>2. CASE Here = "uninstall" /\ faults' = faults
      BY <1>1, <3>2 DEF LightOK
    <3> QED
      BY <3>1, <3>2
  <2> QED
    BY <1>2, <1>3, <2>1 DEF CalmOK, LightOK, NeverDark, WasRunning, RoleActive
<1> QED
  BY <1>4, <1>5, <1>6, <1>7, <1>8 DEF IInv

LEMMA UninstallRefusesInv ==
    ASSUME IInv, UninstallRefuses
    PROVE  IInv'
<1>0. /\ op = "rollback" /\ Here = "uninstall" /\ RollbackRaises
      /\ state # "uninstalling" /\ (runtime # "live" \/ attempt = "cleanup-failed")
      /\ UNCHANGED <<legacy, legacyData, snapshots, target, preserved, runtime, attempt, state,
                     journal, writes, runs, faults>>
  BY DEF UninstallRefuses, At, Here, data, Quiet
<1>1. Typed /\ ServiceOK /\ CalmOK /\ PlaceOK
  BY DEF IInv
<1>2. state \in Active
  BY <1>0, <1>1 DEF Typed, TypeOK, ServiceOK
<1>3. faults \in Nat \ {0}
  BY <1>0, <1>1, <1>2, NoneAssumption DEF Typed, CalmOK
<1> QED
  BY <1>0, <1>3, ToRollbackFailed

LEMMA UninstallEndInv ==
    ASSUME IInv, UninstallEnd
    PROVE  IInv'
<1>0. /\ op = "rollback" /\ Here = "uninstalled" /\ Pop /\ state' = "uninstalled" /\ runtime' = "none"
      /\ UNCHANGED <<legacy, legacyData, snapshots, target, preserved, attempt, journal, writes, runs, faults>>
  BY DEF UninstallEnd, At, Here, data, Quiet
<1>1. /\ op' = "rollback" /\ cur' = cur /\ failed' = failed /\ Here' = "restore"
      /\ todo' # << >> /\ PlaceOK' /\ LocalsOK'
      /\ Typed /\ PlaceOK /\ ServiceOK /\ JournalOK /\ GoneOK /\ CalmOK /\ LightOK
  BY <1>0, RollbackPops
<1>2. Typed'
  BY <1>0, <1>1 DEF Typed, TypeOK
<1>3. ServiceOK'
  BY <1>0, <1>1, NoneAssumption DEF ServiceOK, RoleActive
<1>4. JournalOK'
  BY <1>0, <1>1 DEF JournalOK, ServiceOK, Recorded, SnapshotIntact, Active
<1>5. GoneOK' /\ CalmOK' /\ LightOK'
  BY <1>0, <1>1, NoneAssumption DEF GoneOK, CalmOK, LightOK, NeverDark, Active
<1> QED
  BY <1>1, <1>2, <1>3, <1>4, <1>5 DEF IInv

LEMMA RollbackRestoreInv ==
    ASSUME IInv, RollbackRestore
    PROVE  IInv'
<1>0. /\ op = "rollback" /\ Here = "restore" /\ Pop /\ legacy' = "running" /\ ~RoleActive
      /\ UNCHANGED <<legacyData, snapshots, target, preserved, runtime, attempt, state, journal, writes, runs, faults>>
  BY DEF RollbackRestore, Restored, RestoreRefused, At, Here, data, Quiet
<1>1. /\ op' = "rollback" /\ cur' = cur /\ failed' = failed /\ Here' = "rolled_back"
      /\ todo' # << >> /\ PlaceOK' /\ LocalsOK'
      /\ Typed /\ PlaceOK /\ ServiceOK /\ JournalOK /\ GoneOK /\ CalmOK /\ LightOK
  BY <1>0, RollbackPops
<1>2. Typed'
  BY <1>0, <1>1 DEF Typed, TypeOK
<1>3. ServiceOK'
  BY <1>0, <1>1 DEF ServiceOK, RoleActive
<1>4. JournalOK'
  BY <1>0, <1>1 DEF JournalOK, ServiceOK, Recorded, SnapshotIntact, Active
<1>5. GoneOK' /\ CalmOK' /\ LightOK'
  BY <1>0, <1>1 DEF GoneOK, CalmOK, LightOK, NeverDark
<1> QED
  BY <1>1, <1>2, <1>3, <1>4, <1>5 DEF IInv

LEMMA RolledBackInv ==
    ASSUME IInv, RolledBack
    PROVE  IInv'
<1>0. /\ op = "rollback" /\ Here = "rolled_back" /\ Pop /\ state' = "rolled_back"
      /\ UNCHANGED <<legacy, legacyData, snapshots, target, preserved, runtime, attempt, journal, writes, runs, faults>>
  BY DEF RolledBack, At, Here, data, Quiet
<1>1. /\ op' = "rollback" /\ cur' = cur /\ failed' = failed /\ Here' = "close"
      /\ todo' # << >> /\ PlaceOK' /\ LocalsOK'
      /\ Typed /\ PlaceOK /\ ServiceOK /\ JournalOK /\ GoneOK /\ CalmOK /\ LightOK
  BY <1>0, RollbackPops
<1>2. Typed'
  BY <1>0, <1>1 DEF Typed, TypeOK
<1>3. ServiceOK'
  BY <1>0, <1>1, NoneAssumption DEF ServiceOK, RoleActive
<1>4. JournalOK'
  BY <1>0, <1>1 DEF JournalOK, ServiceOK, Recorded, SnapshotIntact, Active
<1>5. GoneOK' /\ CalmOK' /\ LightOK'
  BY <1>0, <1>1, NoneAssumption DEF GoneOK, ServiceOK, CalmOK, LightOK, NeverDark, Active
<1> QED
  BY <1>1, <1>2, <1>3, <1>4, <1>5 DEF IInv

LEMMA CloseRollbackInv ==
    ASSUME IInv, CloseRollback
    PROVE  IInv'
<1> DEFINE e == Capture(journal.evidence)
           j == [journal EXCEPT !.status = "rolled_back", !.evidence = e]
<1>0. /\ op = "rollback" /\ Here = "close" /\ Stop(failed) /\ journal' = j
      /\ UNCHANGED <<legacy, legacyData, snapshots, target, preserved, runtime, attempt, state, writes, runs, faults>>
  BY DEF CloseRollback, SaveJournal, At, Here, data, Quiet
<1>1. Typed /\ PlaceOK /\ ServiceOK /\ JournalOK /\ CalmOK /\ LightOK
  BY DEF IInv
<1>2. /\ journal # None /\ journal \in Journal /\ legacy = "running" /\ runtime = "none"
      /\ state = "rolled_back" /\ target \in Content \cup {None} /\ failed \in BOOLEAN
  BY <1>0, <1>1 DEF Typed, TypeOK, ServiceOK
<1>3. journal.evidence \in Evidence
  BY <1>2 DEF Journal
<1>4. e \in Evidence /\ e.attempt = journal.evidence.attempt
  BY <1>2, <1>3 DEF Capture, Evidence
<1> HIDE DEF e
<1>5. j \in Journal /\ j.status = "rolled_back" /\ j.evidence = e
  BY <1>2, <1>4 DEF Journal
<1>6. j # None
  BY <1>5, NoneAssumption
<1> HIDE DEF j
<1>7. op' = "idle" /\ todo' = << >> /\ failed' = failed /\ cur' = NoLocal
  BY <1>0 DEF Stop
<1>8. Typed'
  <2>1. NoLocal \in [again : BOOLEAN, retrying : BOOLEAN, restart : BOOLEAN,
                     evidence : Evidence \cup {None}, number : Nat]
    BY DEF NoLocal
  <2> QED
    BY <1>0, <1>1, <1>2, <1>4, <1>5, <1>7, <2>1 DEF Typed, TypeOK
<1>9. JournalOK'
  BY <1>0, <1>1, <1>2, <1>5, <1>6, <1>7 DEF JournalOK, Active
<1>10. ~(legacy = "running" /\ RoleActive)'
  BY <1>0, <1>2 DEF RoleActive
<1>11. faults' = 0 => ~failed /\ attempt' = None
  BY <1>0, <1>1 DEF CalmOK
<1> QED
  BY <1>0, <1>2, <1>5, <1>8, <1>9, <1>10, <1>11, NoneAssumption, Stopped DEF Active

LEMMA RollbackFailedInv ==
    ASSUME IInv, RollbackFailed
    PROVE  IInv'
<1> DEFINE j == [journal EXCEPT !.status = "rollback-failed"]
<1>0. /\ op = "rollback" /\ Here = "rollback_failed" /\ Stop(failed) /\ journal' = j
      /\ UNCHANGED <<legacy, legacyData, snapshots, target, preserved, runtime, attempt, state, writes, runs, faults>>
  BY DEF RollbackFailed, SaveJournal, At, Here, data, Quiet
<1>1. Typed /\ PlaceOK /\ ServiceOK /\ JournalOK /\ GoneOK /\ CalmOK /\ LightOK
  BY DEF IInv
<1>2. /\ journal # None /\ journal \in Journal /\ failed \in BOOLEAN /\ faults \in Nat \ {0}
      /\ state \in {"uninstalled", "rolled_back"} => runtime = "none"
  BY <1>0, <1>1 DEF Typed, TypeOK, ServiceOK, PlaceOK, GoneOK
<1>3. j \in Journal /\ j.status = "rollback-failed" /\ j.evidence = journal.evidence /\ j.initial = journal.initial
  BY <1>2 DEF Journal
<1>4. j # None
  BY <1>3, NoneAssumption
<1> HIDE DEF j
<1>5. op' = "idle" /\ todo' = << >> /\ failed' = failed /\ cur' = NoLocal
  BY <1>0 DEF Stop
<1>6. Typed'
  <2>1. NoLocal \in [again : BOOLEAN, retrying : BOOLEAN, restart : BOOLEAN,
                     evidence : Evidence \cup {None}, number : Nat]
    BY DEF NoLocal
  <2> QED
    BY <1>0, <1>1, <1>2, <1>3, <1>5, <2>1 DEF Typed, TypeOK
<1>7. JournalOK'
  BY <1>0, <1>1, <1>2, <1>3, <1>4, <1>5 DEF JournalOK, Recorded, SnapshotIntact
<1>8. ~(legacy = "running" /\ RoleActive)'
  BY <1>0, <1>1 DEF ServiceOK, RoleActive
<1>9. failed /\ faults <= 1 /\ WasRunning' => legacy = "running" \/ RoleActive
  BY <1>0, <1>1, <1>2, <1>3, <1>4 DEF LightOK, WasRunning
<1>10. RoleActive' = RoleActive
  BY <1>0 DEF RoleActive
<1> QED
  BY <1>0, <1>2, <1>6, <1>7, <1>8, <1>9, <1>10, Stopped

-----------------------------------------------------------------------------
(* Writes, faults, and every step.                                          *)

LEMMA LegacyWritesInv ==
    ASSUME IInv, LegacyWrites
    PROVE  IInv'
<1>0. /\ legacy = "running" /\ writes' = writes + 1
      /\ legacyData' = [by |-> "legacy", n |-> writes']
      /\ UNCHANGED <<legacy, snapshots, target, preserved, runtime, attempt, state, journal,
                     op, todo, cur, failed, runs, faults>>
  BY DEF LegacyWrites
<1>1. Typed /\ PlaceOK /\ LocalsOK /\ ServiceOK /\ JournalOK /\ GoneOK /\ CalmOK /\ LightOK
  BY DEF IInv
<1>2. writes \in Nat /\ writes' \in Nat
  BY <1>0, <1>1 DEF Typed
<1>3. legacyData' \in Content
  BY <1>0, <1>2 DEF Content
<1>4. Typed'
  <2>1. TypeOK'
    BY <1>0, <1>1, <1>3 DEF Typed, TypeOK
  <2>2. cur' = cur /\ failed' = failed /\ runs' = runs /\ faults' = faults
    BY <1>0
  <2> QED
    BY <1>1, <1>2, <2>1, <2>2 DEF Typed
<1>5. PlaceOK' /\ LocalsOK' /\ ServiceOK' /\ GoneOK'
  BY <1>0, <1>1 DEF PlaceOK, LocalsOK, WasRunning, ServiceOK, RoleActive, GoneOK, Here
<1>6. JournalOK'
  <2>1. op = "upgrade" => Here \notin {"copy", "complete", "attempt", "create", "start", "commit"}
    BY <1>0, <1>1 DEF ServiceOK, Early, BeforeJournal, Handling
  <2> QED
    BY <1>0, <1>1, <2>1 DEF JournalOK, Untouched, Here
<1>7. CalmOK' /\ LightOK'
  BY <1>0, <1>1 DEF CalmOK, LightOK, NeverDark, RoleActive, WasRunning, Here
<1> QED
  BY <1>4, <1>5, <1>6, <1>7 DEF IInv

LEMMA V2WritesInv ==
    ASSUME IInv, V2Writes
    PROVE  IInv'
<1>0. /\ RoleActive /\ target # None /\ writes' = writes + 1
      /\ target' = [by |-> "v2", n |-> writes']
      /\ UNCHANGED <<legacy, legacyData, snapshots, preserved, runtime, attempt, state, journal,
                     op, todo, cur, failed, runs, faults>>
  BY DEF V2Writes
<1>1. Typed /\ PlaceOK /\ LocalsOK /\ ServiceOK /\ JournalOK /\ GoneOK /\ CalmOK /\ LightOK
  BY DEF IInv
<1>2. writes \in Nat /\ writes' \in Nat
  BY <1>0, <1>1 DEF Typed
<1>3. target' \in Content
  BY <1>0, <1>2 DEF Content
<1>4. Typed'
  <2>1. TypeOK'
    BY <1>0, <1>1, <1>3 DEF Typed, TypeOK
  <2>2. cur' = cur /\ failed' = failed /\ runs' = runs /\ faults' = faults
    BY <1>0
  <2> QED
    BY <1>1, <1>2, <2>1, <2>2 DEF Typed
<1>5. PlaceOK' /\ LocalsOK' /\ ServiceOK' /\ GoneOK'
  BY <1>0, <1>1 DEF PlaceOK, LocalsOK, WasRunning, ServiceOK, RoleActive, GoneOK, Here
<1>6. JournalOK'
  <2>1. journal # None
    BY <1>0, <1>1 DEF JournalOK, Untouched
  <2> QED
    BY <1>0, <1>1, <2>1 DEF JournalOK, Recorded, SnapshotIntact, Here
<1>7. CalmOK' /\ LightOK'
  BY <1>0, <1>1 DEF CalmOK, LightOK, NeverDark, RoleActive, WasRunning, Here
<1> QED
  BY <1>4, <1>5, <1>6, <1>7 DEF IInv

\* A command that ends by a fault leaves everything as it is.
LEMMA FaultStops ==
    ASSUME IInv, NEW error \in BOOLEAN, Stop(error), faults' = faults + 1,
           UNCHANGED <<legacy, legacyData, snapshots, target, preserved, runtime, attempt, state,
                       journal, writes, runs>>,
           error => faults >= 1
    PROVE  IInv'
<1>1. Typed /\ ServiceOK /\ JournalOK
  BY DEF IInv
<1>2. op' = "idle" /\ todo' = << >> /\ failed' = error /\ cur' = NoLocal
  BY DEF Stop
<1>3. faults \in Nat /\ faults' \in Nat \ {0} /\ (error => faults' > 1)
  BY <1>1 DEF Typed
<1>4. Typed'
  <2>1. TypeOK'
    BY <1>1, <1>2 DEF Typed, TypeOK
  <2>2. NoLocal \in [again : BOOLEAN, retrying : BOOLEAN, restart : BOOLEAN,
                     evidence : Evidence \cup {None}, number : Nat]
    BY DEF NoLocal
  <2>3. writes' \in Nat /\ runs' \in Nat
    BY <1>1 DEF Typed
  <2> QED
    BY <1>2, <1>3, <2>1, <2>2, <2>3 DEF Typed
<1>5. JournalOK'
  BY <1>1, <1>2 DEF JournalOK, Untouched, Recorded, SnapshotIntact
<1>6. ~(legacy = "running" /\ RoleActive)'
  BY <1>1 DEF ServiceOK, RoleActive
<1> QED
  BY <1>3, <1>4, <1>5, <1>6, Stopped

LEMMA CrashInv ==
    ASSUME IInv, Crash
    PROVE  IInv'
<1>1. /\ faults' = faults + 1 /\ Stop(FALSE)
      /\ UNCHANGED <<legacy, legacyData, snapshots, target, preserved, runtime, attempt, state,
                     journal, writes, runs>>
  BY DEF Crash, data
<1> QED
  BY <1>1, FaultStops

LEMMA RaiseInv ==
    ASSUME IInv, Raise
    PROVE  IInv'
<1>0. /\ faults' = faults + 1
      /\ UNCHANGED <<legacy, legacyData, snapshots, target, preserved, journal, writes, runs>>
  BY DEF Raise, data
<1>1. Typed /\ PlaceOK /\ LocalsOK /\ ServiceOK /\ JournalOK /\ GoneOK /\ CalmOK /\ LightOK
  BY DEF IInv
<1>2. faults \in Nat /\ faults' \in Nat \ {0}
  BY <1>0, <1>1 DEF Typed
<1>3. CASE /\ op = "upgrade" /\ UpgradeRaises
           /\ IF Head(todo) = "clean" THEN CleanFails ELSE UNCHANGED <<runtime, attempt, state>>
  <2>1. state' = state
    BY <1>3 DEF CleanFails
  <2>2. IF Here = "clean" THEN runtime' \in Remains[runtime] /\ attempt' = "cleanup-failed"
                          ELSE UNCHANGED <<runtime, attempt>>
    BY <1>3 DEF CleanFails, Here
  <2> QED
    BY <1>0, <1>2, <1>3, <2>1, <2>2, UpgradeRaisesInv
<1>4. CASE /\ op = "rollback" /\ RollbackRaises /\ UNCHANGED <<runtime, attempt, state>>
           /\ Head(todo) # "rollback_failed"
  BY <1>0, <1>2, <1>4, ToRollbackFailed
<1>5. CASE /\ At("rollback", "rollback_failed") /\ Stop(failed)
           /\ UNCHANGED <<runtime, attempt, state>>
  <2>1. faults >= 1 /\ failed \in BOOLEAN
    BY <1>1, <1>5 DEF At, PlaceOK, Typed, Here
  <2> QED
    BY <1>0, <1>5, <2>1, FaultStops
<1> QED
  BY <1>3, <1>4, <1>5 DEF Raise

\* An effect of upgrade that raises is on disk.
LEMMA LatePrepareInv ==
    ASSUME IInv, op = "upgrade", LatePrepare, faults' = faults + 1, UNCHANGED <<writes, runs>>
    PROVE  IInv'
<1>0. Here = "prepare" /\ Preflight /\ Prepared /\ UpgradeRaises
  BY DEF LatePrepare, Here
<1>1. Typed /\ PlaceOK /\ LocalsOK /\ ServiceOK /\ JournalOK
  BY DEF IInv
<1>2. /\ UNCHANGED <<legacy, legacyData, target, preserved, runtime, attempt, state>>
      /\ journal' \in Journal /\ journal' # None /\ journal'.status = "prepared"
      /\ journal'.evidence.attempt = Len(snapshots')
      /\ snapshots' \in Seq(Content \cup {None}) /\ snapshots' # << >>
      /\ cur.restart \in BOOLEAN /\ WasRunning' = cur.restart
      /\ cur.restart = (legacy = "running" \/ WasRunning)
      /\ runtime = "none" /\ state \notin Active
  BY <1>0, PreparedOK
<1>3. faults' \in Nat \ {0}
  BY <1>1 DEF Typed
<1>4. ~(legacy = "running" /\ RoleActive)'
  BY <1>2 DEF RoleActive
<1>5. CASE cur.restart /\ cur.retrying
  <2>1. op' = "upgrade" /\ todo' = << "restore_only" >> /\ cur' = cur /\ failed' = failed
    BY <1>0, <1>5 DEF UpgradeRaises, Then, Here, BeforeJournal, InstallSteps
  <2>2. todo' \in FailureTails /\ Here' = "restore_only" /\ todo' # << >>
    BY <2>1 DEF FailureTails, Here
  <2>3. Typed'
    BY <1>1, <1>2, <1>3, <2>1, <2>2 DEF Typed, TypeOK
  <2>4. PlaceOK'
    BY <1>3, <2>1, <2>2 DEF PlaceOK
  <2>5. LocalsOK'
    BY <1>2, <1>5, <2>1, <2>2 DEF LocalsOK, Early, Cutting, Installing, BeforeJournal
  <2>6. ServiceOK'
    BY <1>4, <2>1, <2>2 DEF ServiceOK, Early, BeforeJournal, Handling, Served, Uncommitted, Cutting
  <2>7. JournalOK'
    BY <1>2, <2>1, <2>2 DEF JournalOK
  <2>8. GoneOK' /\ CalmOK' /\ LightOK'
    BY <1>3, <2>1, <2>2 DEF GoneOK, CalmOK, LightOK, NeverDark
  <2> QED
    BY <2>3, <2>4, <2>5, <2>6, <2>7, <2>8 DEF IInv
<1>6. CASE ~(cur.restart /\ cur.retrying)
  <2>1. Stop(TRUE)
    BY <1>0, <1>6 DEF UpgradeRaises, Here, BeforeJournal, InstallSteps
  <2>2. op' = "idle" /\ todo' = << >> /\ failed' = TRUE /\ cur' = NoLocal
    BY <2>1 DEF Stop
  <2>3. Typed'
    <3>1. NoLocal \in [again : BOOLEAN, retrying : BOOLEAN, restart : BOOLEAN,
                       evidence : Evidence \cup {None}, number : Nat]
      BY DEF NoLocal
    <3> QED
      BY <1>1, <1>2, <1>3, <2>2, <3>1 DEF Typed, TypeOK
  <2>4. JournalOK'
    BY <1>2, <2>2 DEF JournalOK
  <2>5. WasRunning' => legacy' = "running"
    <3>1. cur.retrying = (journal # None /\ journal.status # "rolled_back")
      BY <1>0, <1>1 DEF LocalsOK, Early, BeforeJournal
    <3>2. WasRunning /\ ~cur.retrying => legacy = "running"
      BY <3>1, <1>1 DEF WasRunning, JournalOK
    <3> QED
      BY <1>2, <1>6, <3>2
  <2> QED
    BY <1>3, <1>4, <2>1, <2>3, <2>4, <2>5, Stopped
<1> QED
  BY <1>5, <1>6

LEMMA RaiseLateInv ==
    ASSUME IInv, RaiseLate
    PROVE  IInv'
<1>0. op = "upgrade" /\ faults' = faults + 1 /\ UNCHANGED <<writes, runs>>
  BY DEF RaiseLate
<1>1. Typed /\ PlaceOK /\ LocalsOK
  BY DEF IInv
<1>2. faults' \in Nat \ {0}
  BY <1>0, <1>1 DEF Typed
<1>3. ASSUME Here \in {"attempt", "commit", "drop"},
             Then(AfterFailure) \/ Then(<< "clean" >> \o AfterFailure),
             UNCHANGED <<legacy, legacyData, snapshots, target, preserved, runtime, journal>>,
             state' = state \/ (Here = "commit" /\ state' = "installed"),
             attempt' \in {attempt, None, "starting"}
      PROVE  IInv'
  <2>1. op' = "upgrade" /\ cur' = cur /\ failed' = failed
    BY <1>0, <1>3 DEF Then
  <2>2. \/ todo' = IF cur.restart THEN << "restore", "failed" >> ELSE << "failed" >>
        \/ todo' = IF cur.restart THEN << "clean", "restore", "failed" >> ELSE << "clean", "failed" >>
    BY <1>3, PlansOfHandlers DEF Then
  <2>3. /\ todo' \in FailureTails /\ Here' \in {"clean", "restore", "failed"}
        /\ Here' = "clean" => todo' = IF cur.restart THEN << "clean", "restore", "failed" >>
                                                     ELSE << "clean", "failed" >>
        /\ Here' = "failed" => ~cur.restart
    BY <2>2 DEF FailureTails, Here
  <2>4. Here \notin Early /\ Here \notin BeforeJournal /\ Here # "restore_only"
    BY <1>3 DEF Early, BeforeJournal
  <2>5. cur.restart = WasRunning
    BY <1>0, <1>1, <2>4 DEF LocalsOK
  <2>6. runtime' \in Remains[runtime]
    BY <1>1, <1>3, RemainsOf DEF Typed, TypeOK
  <2> QED
    BY <1>0, <1>2, <1>3, <2>1, <2>3, <2>4, <2>5, <2>6, ToHandler
<1>4. CASE LatePrepare
  BY <1>0, <1>4, LatePrepareInv
<1>5. CASE LateAttempt \/ LateCommit \/ LateDrop
  BY <1>3, <1>5 DEF LateAttempt, LateCommit, LateDrop, Here, data
<1> QED
  BY <1>4, <1>5 DEF RaiseLate

LEMMA NextInv == IInv /\ [Next]_vars => IInv'
<1> SUFFICES ASSUME IInv, [Next]_vars PROVE IInv'
  OBVIOUS
<1>1. CASE Upgrade \/ RecoverUpgrade \/ Rollback \/ RollbackAgain
  BY <1>1, UpgradeInv, RecoverUpgradeInv, RollbackBeginInv, RollbackAgainInv
<1>2. CASE Step
  <2>1. CASE SetAside \/ Prepare \/ NotPrepared \/ StopLegacy \/ Snapshot \/ Copy \/ Complete
    BY <2>1, SetAsideInv, PrepareInv, NotPreparedInv, StopLegacyInv, SnapshotInv, CopyInv, CompleteInv
  <2>2. CASE InstallAttempt \/ InstallCreate \/ InstallStart \/ InstallCommit \/ InstallDrop \/ Upgraded
    BY <2>2, InstallAttemptInv, InstallCreateInv, InstallStartInv, InstallCommitInv, InstallDropInv, UpgradedInv
  <2>3. CASE Clean \/ Restore \/ Failed
    BY <2>3, CleanInv, RestoreInv, FailedInv
  <2>4. CASE UninstallStart \/ UninstallRefuses \/ UninstallEnd \/ RollbackRestore \/ RolledBack \/ CloseRollback
             \/ RollbackFailed
    BY <2>4, UninstallStartInv, UninstallRefusesInv, UninstallEndInv, RollbackRestoreInv,
       RolledBackInv, CloseRollbackInv, RollbackFailedInv
  <2> QED
    BY <1>2, <2>1, <2>2, <2>3, <2>4 DEF Step
<1>3. CASE LegacyWrites \/ V2Writes \/ Raise \/ RaiseLate \/ Crash
  BY <1>3, LegacyWritesInv, V2WritesInv, RaiseInv, RaiseLateInv, CrashInv
<1>4. CASE UNCHANGED vars
  <2>1. UNCHANGED <<legacy, legacyData, snapshots, target, preserved, runtime, attempt, state, journal,
                    op, todo, cur, failed, writes, runs, faults>>
    BY <1>4 DEF vars, data
  <2>2. Typed' /\ PlaceOK' /\ LocalsOK' /\ GoneOK' /\ CalmOK'
    BY <2>1 DEF IInv, Typed, TypeOK, PlaceOK, LocalsOK, WasRunning, GoneOK, CalmOK, Here
  <2>3. ServiceOK' /\ LightOK' /\ JournalOK'
    BY <2>1 DEF IInv, ServiceOK, LightOK, NeverDark, JournalOK, WasRunning, RoleActive, Untouched,
                Recorded, SnapshotIntact, Here
  <2> QED
    BY <2>2, <2>3 DEF IInv
<1> QED
  BY <1>1, <1>2, <1>3, <1>4 DEF Next

LEMMA Invariant == Spec => []IInv
BY InitInv, NextInv, PTL DEF Spec

-----------------------------------------------------------------------------
(* The theorems.                                                            *)

\* "never start both versions": _restore_legacy_service and the order of
\* upgrade's and rollback's effects keep the two runtimes apart, whichever
\* fail or are killed.
THEOREM OneRuntimeServes == Spec => []OneWriter
<1>1. IInv => OneWriter
  BY DEF IInv, ServiceOK, OneWriter
<1> QED
  BY <1>1, Invariant, PTL

\* The except clauses of upgrade: after a single fault the service that was
\* running runs again, or a role of the new one does.
THEOREM OneFaultIsNotDark == Spec => []NeverDark
<1>1. IInv => NeverDark
  BY DEF IInv, LightOK
<1> QED
  BY <1>1, Invariant, PTL

\* The order of rollback's saves: a journal closed as "rolled_back" is true
\* of the container, of the runtime and of state.json.
THEOREM ClosedJournalsAreTrue == Spec => []RolledBackIsLegacy
<1>1. IInv => RolledBackIsLegacy
  BY DEF IInv, JournalOK, RolledBackIsLegacy
<1> QED
  BY <1>1, Invariant, PTL

\* While a role of an installed cutover is up, the snapshot its journal
\* records is what legacy wrote last: a rollback returns to all of legacy's
\* data.  (A state saved late, beside which the runtime was cleaned up, has
\* no role that is up.)
THEOREM CutoversKeepLegacyData == Spec => []SnapshotIsLegacy
<1>1. IInv => SnapshotIsLegacy
  <2> SUFFICES ASSUME IInv, journal # None, state \in Active, RoleActive PROVE Recorded
    BY DEF SnapshotIsLegacy
  <2>1. legacy = "exited"
    BY DEF IInv, ServiceOK, Typed, TypeOK
  <2> QED
    BY <2>1 DEF IInv, JournalOK
<1> QED
  BY <1>1, Invariant, PTL

\* _prepare_failed_upgrade_retry and the copy: the translated data of a
\* failed attempt or of a rolled back runtime is set aside or kept, never
\* overwritten by a command.
THEOREM CommandsKeepTheTarget == Spec => TargetPreserved
<1> DEFINE Kept == target # None /\ target' # target /\ writes' = writes => target \in preserved'
<1>1. ASSUME IInv, [Next]_vars PROVE Kept
  <2>1. CASE SetAside
    BY <2>1 DEF SetAside
  <2>2. CASE Copy
    <3>1. Here \in Cutting /\ op = "upgrade" /\ target' = IF cur.again THEN target ELSE snapshots[cur.number]
      BY <2>2 DEF Copy, At, Here, Cutting
    <3>2. ~cur.again => target = None
      BY <1>1, <3>1 DEF IInv, LocalsOK
    <3> QED
      BY <3>1, <3>2
  <2>3. CASE V2Writes
    <3>1. writes \in Nat /\ writes' = writes + 1
      BY <1>1, <2>3 DEF V2Writes, IInv, Typed
    <3> QED
      BY <3>1
  <2>4. CASE Upgrade \/ RecoverUpgrade \/ Rollback \/ RollbackAgain \/ LegacyWrites \/ Raise \/ RaiseLate \/ Crash
    BY <2>4 DEF Upgrade, RecoverUpgrade, Rollback, RollbackAgain, LegacyWrites, Raise, RaiseLate,
       LatePrepare, Prepared, LateAttempt, LateCommit, LateDrop, Crash, data
  <2>5. CASE \/ Prepare \/ NotPrepared \/ StopLegacy \/ Snapshot \/ Complete
             \/ InstallAttempt \/ InstallCreate \/ InstallStart \/ InstallCommit \/ InstallDrop
             \/ Upgraded \/ Clean \/ Restore \/ Failed
    BY <2>5 DEF Prepare, Prepared, NotPrepared, StopLegacy, Snapshot, Complete, SaveJournal,
       InstallAttempt, InstallCreate, InstallStart, InstallCommit, InstallDrop, Upgraded,
       Clean, Restore, Restored, Failed, data
  <2>6. CASE UninstallStart \/ UninstallRefuses \/ UninstallEnd \/ RollbackRestore \/ RolledBack \/ CloseRollback
             \/ RollbackFailed
    BY <2>6 DEF UninstallStart, UninstallRefuses, UninstallEnd, RollbackRestore, Restored, RolledBack, CloseRollback,
       RollbackFailed, SaveJournal, data
  <2>7. CASE UNCHANGED vars
    BY <2>7 DEF vars, data
  <2> QED
    BY <1>1, <2>1, <2>2, <2>3, <2>4, <2>5, <2>6, <2>7 DEF Next, Step
<1>2. IInv /\ [Next]_vars => [Kept]_vars
  BY <1>1
<1> QED
  BY <1>2, Invariant, PTL DEF Spec, TargetPreserved
=============================================================================
