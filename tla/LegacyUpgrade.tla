---------------------------- MODULE LegacyUpgrade ----------------------------
(***************************************************************************)
(* "btctl upgrade" and "btctl rollback" (LegacyUpgrade of                  *)
(* btctl_lifecycle.py): move the data of a v2.1.4 container into the split *)
(* runtime, and back.  Both run under OperationLock and keep their         *)
(* progress in migration-v214.json.  A command is a list of durable        *)
(* effects; it may be killed between any two, and any of them may raise    *)
(* with its effect not made, or made (RaiseLate).                          *)
(*                                                                         *)
(* A data tree is known by its content: the version that legacy last       *)
(* wrote, or that the new runtime last wrote.  A manifest is the content   *)
(* it was made of.  Copies are published by a rename; a tree that was not  *)
(* published has a name of its own and is only ever set aside.  The        *)
(* install and the uninstall inside are those of module Deployment, with   *)
(* fewer steps.                                                            *)
(***************************************************************************)
EXTENDS Naturals, Sequences, FiniteSets

CONSTANTS MaxRuns,     \* bound: commands issued
          MaxFaults,   \* bound: crashes and exceptions
          MaxWrites,   \* bound: writes of either runtime
          None

ASSUME BoundsAssumption == {MaxRuns, MaxFaults, MaxWrites} \subseteq Nat

VARIABLES legacy,     \* the legacy container: "running" or "exited"
          legacyData, \* content of its data directory
          snapshots,  \* attempt -> content of the published snapshot
          target,     \* content of BT_DATA_DIR, or None
          preserved,  \* contents set aside under a .preserved name
          runtime,    \* v2.2: "none", "created", "active" (in part) or "live"
          attempt,    \* status of install-attempt.json, or None
          state,      \* status of state.json, or None
          journal,    \* migration-v214.json, or None
          op, todo,   \* the running command and the effects it has left
          cur,        \* its local variables
          failed,     \* the last upgrade ended with an error
          writes, runs, faults

data == <<legacyData, snapshots, target, preserved>>
vars == <<legacy, data, runtime, attempt, state, journal, op, todo, cur, failed,
          writes, runs, faults>>

Content == [by : {"legacy", "v2"}, n : Nat]
Evidence == [attempt : Nat, snapshot : Content \cup {None},
             target : Content \cup {None}, reupgrade : {"unknown", "verified", "unavailable"}]
Journal == [status : {"prepared", "snapshot-complete", "upgraded", "upgrade-failed",
                      "reupgrade-failed", "upgrade-journal-failed", "rolled_back",
                      "rollback-failed"},
            initial : {"running", "exited"}, evidence : Evidence, prior : Evidence \cup {None}]
Active == {"installed", "adopted"}
ASSUME NoneAssumption ==
    /\ None \notin Content \cup Evidence \cup Journal \cup Active
    /\ None \notin {"uninstalling", "uninstalled", "rolled_back", "starting", "cleaned", "cleanup-failed"}

NoLocal == [again |-> FALSE, retrying |-> FALSE, restart |-> FALSE, evidence |-> None,
            number |-> 0]

Init ==
    /\ legacy \in {"running", "exited"}
    /\ legacyData = [by |-> "legacy", n |-> 0]
    /\ snapshots = << >> /\ target = None /\ preserved = {}
    /\ runtime = "none" /\ attempt = None /\ state = None /\ journal = None
    /\ op = "idle" /\ todo = << >> /\ cur = NoLocal /\ failed = FALSE
    /\ writes = 0 /\ runs = 0 /\ faults = 0

At(command, effect) == op = command /\ Head(todo) = effect
Pop == todo' = Tail(todo) /\ UNCHANGED <<op, cur, failed>>
Then(plan) == todo' = plan /\ UNCHANGED <<op, cur, failed>>
Stop(error) == op' = "idle" /\ todo' = << >> /\ cur' = NoLocal /\ failed' = error
Begin == op = "idle" /\ runs < MaxRuns /\ runs' = runs + 1 /\ UNCHANGED <<writes, faults>>
Quiet == UNCHANGED <<writes, runs, faults>>

\* _verify_recorded_snapshot, _verify_recorded_target
SnapshotIntact(e) ==
    /\ e.attempt \in DOMAIN snapshots /\ snapshots[e.attempt] # None
    /\ snapshots[e.attempt] = e.snapshot
TargetIntact(e) == e.reupgrade = "verified" /\ target # None /\ target = e.target

-----------------------------------------------------------------------------
(* upgrade: which of its branches applies *)

\* A journal without state.json and without a runtime.
RetryUpgrade == /\ state = None /\ journal # None /\ runtime = "none"
                /\ journal.status \in {"prepared", "snapshot-complete", "upgrade-failed"}

\* After a rollback: the evidence of that rollback, from the journal or from
\* what an interrupted re-upgrade carried along.
RollbackEvidence == IF journal.status = "rolled_back" THEN journal.evidence ELSE journal.prior
Reupgrade == /\ state = "rolled_back" /\ journal # None
             /\ journal.status \in {"rolled_back", "prepared", "snapshot-complete", "reupgrade-failed"}
             /\ RollbackEvidence # None
             /\ SnapshotIntact(RollbackEvidence) /\ TargetIntact(RollbackEvidence)

\* _recover_active_upgrade
Verifiable == /\ legacy = "exited" /\ SnapshotIntact(journal.evidence)
              /\ target # None /\ runtime = "live"
RecoverActive == /\ state \in Active /\ journal # None
                 /\ journal.status \in {"snapshot-complete", "upgrade-journal-failed", "upgraded"}
                 /\ Verifiable

\* _recover_journal_only_runtime: adopt, then the same.
RecoverRuntime == /\ state = None /\ journal # None /\ runtime # "none"
                  /\ journal.status = "snapshot-complete"
                  /\ Verifiable

UpgradePlan ==
    << "set_aside", "prepare", "stop_legacy", "snapshot", "copy", "complete",
       "attempt", "create", "start", "commit", "drop", "upgraded" >>

NextAttempt == IF journal = None THEN 1 ELSE journal.evidence.attempt + 1

Upgrade ==
    /\ Begin
    /\ \/ journal = None /\ state = None
       \/ RetryUpgrade \/ Reupgrade
    /\ op' = "upgrade" /\ todo' = UpgradePlan /\ failed' = FALSE
    /\ cur' = [again    |-> state = "rolled_back",
               retrying |-> journal # None /\ journal.status # "rolled_back",
               restart  |-> legacy = "running" \/ (journal # None /\ journal.initial = "running"),
               evidence |-> IF state = "rolled_back" THEN RollbackEvidence ELSE None,
               number   |-> NextAttempt]
    /\ UNCHANGED <<legacy, data, runtime, attempt, state, journal>>

RecoverUpgrade ==
    /\ Begin /\ (RecoverActive \/ RecoverRuntime)
    /\ state' = IF state = None THEN "adopted" ELSE state
    /\ journal' = [journal EXCEPT !.status = "upgraded"]
    /\ failed' = FALSE
    /\ UNCHANGED <<legacy, data, runtime, attempt, op, todo, cur>>

\* _prepare_failed_upgrade_retry; a re-upgrade keeps its target.
SetAsideDeletes ==                          \* mutant: the failed target is removed
    /\ At("upgrade", "set_aside") /\ Pop
    /\ target' = IF cur.retrying /\ ~cur.again THEN None ELSE target
    /\ UNCHANGED <<legacy, legacyData, snapshots, preserved, runtime, attempt, state, journal>> /\ Quiet

SetAside ==
    /\ At("upgrade", "set_aside") /\ Pop
    /\ IF cur.retrying /\ ~cur.again /\ target # None
         THEN target' = None /\ preserved' = preserved \cup {target}
         ELSE UNCHANGED <<target, preserved>>
    /\ UNCHANGED <<legacy, legacyData, snapshots, runtime, attempt, state, journal>> /\ Quiet

\* The rest of _prepare_upgrade_attempt.
Preflight == /\ runtime = "none" /\ attempt \in {None, "cleaned"}
             /\ ~cur.again => target = None

Prepared ==
    /\ journal' = [status   |-> "prepared",
                   initial  |-> IF cur.restart THEN "running" ELSE legacy,
                   evidence |-> [attempt |-> cur.number, snapshot |-> None, target |-> None,
                                 reupgrade |-> "unknown"],
                   prior    |-> cur.evidence]
    /\ snapshots' = Append(snapshots, None)
    /\ UNCHANGED <<legacy, legacyData, target, preserved, runtime, attempt, state>>

Prepare == At("upgrade", "prepare") /\ Preflight /\ Pop /\ Prepared /\ Quiet

StopLegacy ==
    /\ At("upgrade", "stop_legacy") /\ Pop
    /\ legacy' = "exited"
    /\ UNCHANGED <<data, runtime, attempt, state, journal>> /\ Quiet

Snapshot ==
    /\ At("upgrade", "snapshot") /\ Pop
    /\ snapshots' = [snapshots EXCEPT ![cur.number] = legacyData]
    /\ UNCHANGED <<legacy, legacyData, target, preserved, runtime, attempt, state, journal>> /\ Quiet

Copy ==
    /\ At("upgrade", "copy") /\ Pop
    /\ target' = IF cur.again THEN target ELSE snapshots[cur.number]
    /\ UNCHANGED <<legacy, legacyData, snapshots, preserved, runtime, attempt, state, journal>> /\ Quiet

SaveJournal(j) == journal' = j /\ UNCHANGED <<legacy, data, runtime, attempt, state>> /\ Quiet

Complete ==
    /\ At("upgrade", "complete") /\ Pop
    /\ SaveJournal([journal EXCEPT !.status = "snapshot-complete",
                                   !.evidence.snapshot = snapshots[cur.number],
                                   !.evidence.target = target])

\* installer.install, by its own journal.
InstallAttempt ==
    /\ At("upgrade", "attempt") /\ Pop
    /\ attempt' = "starting"
    /\ UNCHANGED <<legacy, data, runtime, state, journal>> /\ Quiet

InstallCreate ==
    /\ At("upgrade", "create") /\ Pop
    /\ runtime' \in {"created", "active"}
    /\ UNCHANGED <<legacy, data, attempt, state, journal>> /\ Quiet

InstallStart ==
    /\ At("upgrade", "start") /\ Pop
    /\ runtime' = "live"
    /\ UNCHANGED <<legacy, data, attempt, state, journal>> /\ Quiet

InstallCommit ==
    /\ At("upgrade", "commit") /\ Pop
    /\ state' = "installed"
    /\ UNCHANGED <<legacy, data, runtime, attempt, journal>> /\ Quiet

InstallDrop ==
    /\ At("upgrade", "drop") /\ Pop
    /\ attempt' = None
    /\ UNCHANGED <<legacy, data, runtime, state, journal>> /\ Quiet

Upgraded ==
    /\ At("upgrade", "upgraded") /\ Stop(FALSE)
    /\ SaveJournal([journal EXCEPT !.status = "upgraded"])

-----------------------------------------------------------------------------
(* upgrade: what its except clauses do *)

BeforeJournal == {"set_aside", "prepare"}
InstallSteps == {"create", "start", "commit"}

AfterFailureDark == << "failed" >>          \* mutant: legacy is not restarted
AfterFailure == (IF cur.restart THEN << "restore" >> ELSE << >>) \o << "failed" >>

UpgradeRaises ==
    LET next == Head(todo)
    IN  CASE next \in BeforeJournal ->
               IF cur.restart /\ cur.retrying THEN Then(<< "restore_only" >>) ELSE Stop(TRUE)
          [] next \in InstallSteps          -> Then(<< "clean" >> \o AfterFailure)
          [] next = "upgraded"              -> Then(<< "journal_failed" >>)
          [] next = "restore_only"          -> Stop(TRUE)
          [] next = "restore"               -> Then(<< "failed" >>)
          [] next \in {"failed", "journal_failed"} -> Stop(TRUE)
          [] OTHER                          -> Then(AfterFailure)

\* installer._preflight refuses the attempt.
NotPrepared ==
    /\ At("upgrade", "prepare") /\ ~Preflight /\ UpgradeRaises
    /\ UNCHANGED <<legacy, data, runtime, attempt, state, journal>> /\ Quiet

\* The cleanup inside install: all of it, or errors.
Clean ==
    /\ At("upgrade", "clean") /\ Pop
    /\ runtime' = "none" /\ attempt' = "cleaned"
    /\ UNCHANGED <<legacy, data, state, journal>> /\ Quiet

\* What may be left of the runtime while it is taken away.
Remains == [none |-> {"none"}, created |-> {"none", "created"},
            active |-> {"none", "created", "active"},
            live |-> {"none", "created", "active", "live"}]

CleanFails ==
    /\ runtime' \in Remains[runtime] /\ attempt' = "cleanup-failed"
    /\ UNCHANGED state

\* _restore_legacy_service refuses while a role of v2.2 is active.
RoleActive == runtime \in {"active", "live"}
RestoreAnyway == FALSE                      \* mutant: the roles are not looked at
RestoreRefused == RoleActive

Restored(next) ==
    /\ legacy' = "running" /\ next
    /\ UNCHANGED <<data, runtime, attempt, state, journal>> /\ Quiet

Restore ==
    /\ op = "upgrade" /\ Head(todo) \in {"restore", "restore_only"}
    /\ IF RestoreRefused
         THEN /\ IF Head(todo) = "restore" THEN Pop ELSE Stop(TRUE)
              /\ UNCHANGED <<legacy, data, runtime, attempt, state, journal>> /\ Quiet
         ELSE Restored(IF Head(todo) = "restore" THEN Pop ELSE Stop(TRUE))

Failed ==
    /\ op = "upgrade" /\ Head(todo) \in {"failed", "journal_failed"} /\ Stop(TRUE)
    /\ SaveJournal([journal EXCEPT !.status =
                      CASE Head(todo) = "journal_failed" -> "upgrade-journal-failed"
                        [] cur.again                     -> "reupgrade-failed"
                        [] OTHER                         -> "upgrade-failed"])

-----------------------------------------------------------------------------
(* rollback *)

\* The checks of rollback() before anything is changed.
RollbackAllowed ==
    /\ journal # None /\ state # None
    /\ \/ journal.status \in {"snapshot-complete", "upgrade-journal-failed"} /\ state \in Active
       \/ journal.status \in {"upgraded", "rollback-failed"}
    /\ state \notin {"uninstalled", "rolled_back"} =>
         legacy = "exited" /\ legacyData = journal.evidence.snapshot
    /\ SnapshotIntact(journal.evidence)

\* mutant: rolled back without a legacy service
RollbackPlanEarly ==
    (IF state \in {"uninstalled", "rolled_back"} THEN << >>
                                                 ELSE << "uninstall", "uninstalled" >>)
    \o << "rolled_back", "close" >>

RollbackPlan ==
    (IF state \in {"uninstalled", "rolled_back"} THEN << >>
                                                 ELSE << "uninstall", "uninstalled" >>)
    \o << "restore", "rolled_back", "close" >>

Rollback ==
    /\ Begin /\ RollbackAllowed
    /\ op' = "rollback" /\ todo' = RollbackPlan /\ cur' = NoLocal
    /\ UNCHANGED <<legacy, data, runtime, attempt, state, journal, failed>>

\* A journal that is closed already: only the service is checked and started.
RollbackAgain ==
    /\ Begin /\ journal # None /\ journal.status = "rolled_back" /\ state = "rolled_back"
    /\ ~RestoreRefused
    /\ legacy' = "running"
    /\ UNCHANGED <<data, runtime, attempt, state, journal, op, todo, cur, failed>>

RollbackRaises == Then(<< "rollback_failed" >>)

\* RuntimeUninstaller.uninstall: proxy and API go one after the other.  Only
\* one that was begun before tolerates that something is missing, a role or
\* a template that a failed cleanup has removed.
UninstallStart ==
    /\ At("rollback", "uninstall") /\ Pop
    /\ state = "uninstalling" \/ runtime # "none"
    /\ state' = "uninstalling"
    /\ runtime' \in Remains[runtime]
    /\ UNCHANGED <<legacy, data, attempt, journal>> /\ Quiet

UninstallRefuses ==
    /\ At("rollback", "uninstall") /\ RollbackRaises
    /\ state # "uninstalling"
    /\ runtime # "live" \/ attempt = "cleanup-failed"
    /\ UNCHANGED <<legacy, data, runtime, attempt, state, journal>> /\ Quiet

UninstallEnd ==
    /\ At("rollback", "uninstalled") /\ Pop
    /\ runtime' = "none" /\ state' = "uninstalled"
    /\ UNCHANGED <<legacy, data, attempt, journal>> /\ Quiet

RollbackRestore == At("rollback", "restore") /\ ~RestoreRefused /\ Restored(Pop)

\* _capture_target_status; the deployment state comes before the journal.
Capture(e) == [e EXCEPT !.target = target,
                        !.reupgrade = IF target = None THEN "unavailable" ELSE "verified"]

RolledBack ==
    /\ At("rollback", "rolled_back") /\ Pop
    /\ state' = "rolled_back"
    /\ UNCHANGED <<legacy, data, runtime, attempt, journal>> /\ Quiet

CloseRollback ==
    /\ At("rollback", "close") /\ Stop(failed)
    /\ SaveJournal([journal EXCEPT !.status = "rolled_back", !.evidence = Capture(@)])

RollbackFailed ==
    /\ At("rollback", "rollback_failed") /\ Stop(failed)
    /\ SaveJournal([journal EXCEPT !.status = "rollback-failed"])

-----------------------------------------------------------------------------
\* Either runtime serves readers and writes its own data.
LegacyWrites ==
    /\ legacy = "running" /\ writes < MaxWrites /\ writes' = writes + 1
    /\ legacyData' = [by |-> "legacy", n |-> writes']
    /\ UNCHANGED <<legacy, snapshots, target, preserved, runtime, attempt, state, journal,
                   op, todo, cur, failed, runs, faults>>

V2Writes ==
    /\ RoleActive /\ target # None /\ writes < MaxWrites /\ writes' = writes + 1
    /\ target' = [by |-> "v2", n |-> writes']
    /\ UNCHANGED <<legacy, legacyData, snapshots, preserved, runtime, attempt, state, journal,
                   op, todo, cur, failed, runs, faults>>

Raise ==
    /\ op # "idle" /\ faults < MaxFaults /\ faults' = faults + 1
    /\ \/ /\ op = "upgrade" /\ UpgradeRaises
          /\ IF Head(todo) = "clean" THEN CleanFails ELSE UNCHANGED <<runtime, attempt, state>>
       \/ /\ op = "rollback" /\ Head(todo) # "rollback_failed" /\ RollbackRaises
          /\ UNCHANGED <<runtime, attempt, state>>
       \/ /\ At("rollback", "rollback_failed") /\ Stop(failed)
          /\ UNCHANGED <<runtime, attempt, state>>
    /\ UNCHANGED <<legacy, data, journal, writes, runs>>

\* An effect that is on disk although it raises: a save syncs its directory
\* after the rename, and an interrupt may come before the next statement.
\* Then the handlers work beside it: the install cleans up a runtime whose
\* state it saved, unless the removal of its journal was all that was left.
\* Every other effect, late, leaves what a kill leaves, or what is left when
\* the next one raises and is not made.
LatePrepare == Head(todo) = "prepare" /\ Preflight /\ Prepared /\ UpgradeRaises

LateAttempt ==
    /\ Head(todo) = "attempt" /\ attempt' = "starting"
    /\ Then(AfterFailure) \/ Then(<< "clean" >> \o AfterFailure)
    /\ UNCHANGED <<legacy, data, runtime, state, journal>>

LateCommit ==
    /\ Head(todo) = "commit" /\ state' = "installed"
    /\ Then(<< "clean" >> \o AfterFailure)
    /\ UNCHANGED <<legacy, data, runtime, attempt, journal>>

LateDrop ==
    /\ Head(todo) = "drop" /\ attempt' = None
    /\ Then(AfterFailure)
    /\ UNCHANGED <<legacy, data, runtime, state, journal>>

RaiseLate ==
    /\ op = "upgrade" /\ faults < MaxFaults /\ faults' = faults + 1
    /\ LatePrepare \/ LateAttempt \/ LateCommit \/ LateDrop
    /\ UNCHANGED <<writes, runs>>

Crash ==
    /\ op # "idle" /\ faults < MaxFaults /\ faults' = faults + 1
    /\ Stop(FALSE)
    /\ UNCHANGED <<legacy, data, runtime, attempt, state, journal, writes, runs>>

Step ==
    \/ SetAside \/ Prepare \/ NotPrepared \/ StopLegacy \/ Snapshot \/ Copy \/ Complete
    \/ InstallAttempt \/ InstallCreate \/ InstallStart \/ InstallCommit \/ InstallDrop \/ Upgraded
    \/ Clean \/ Restore \/ Failed
    \/ UninstallStart \/ UninstallRefuses \/ UninstallEnd \/ RollbackRestore \/ RolledBack \/ CloseRollback \/ RollbackFailed

Next == \/ Upgrade \/ RecoverUpgrade \/ Rollback \/ RollbackAgain
        \/ Step \/ LegacyWrites \/ V2Writes \/ Raise \/ RaiseLate \/ Crash

Spec == Init /\ [][Next]_vars

-----------------------------------------------------------------------------
(* Properties *)

\* What the commands leave on disk and in Docker is well formed.
TypeOK ==
    /\ legacy \in {"running", "exited"} /\ legacyData \in Content
    /\ snapshots \in Seq(Content \cup {None}) /\ target \in Content \cup {None}
    /\ preserved \subseteq Content
    /\ runtime \in {"none", "created", "active", "live"}
    /\ attempt \in {None, "starting", "cleaned", "cleanup-failed"}
    /\ state \in Active \cup {None, "uninstalling", "uninstalled", "rolled_back"}
    /\ journal \in Journal \cup {None}
    /\ op \in {"idle", "upgrade", "rollback"} /\ (op = "idle") = (todo = << >>)
    /\ journal # None => journal.evidence.attempt = Len(snapshots)

\* "never start both versions": whatever fails or is killed, the legacy
\* container and a role of the new runtime are never up together
\* (_restore_legacy_service looks for active roles before it starts legacy).
OneWriter == ~(legacy = "running" /\ RoleActive)

\* A journal that says "rolled_back" is the truth: legacy serves, nothing of
\* the new runtime is left, and state.json agrees (the order of the saves in
\* rollback).
RolledBackIsLegacy ==
    journal # None /\ journal.status = "rolled_back" =>
        legacy = "running" /\ runtime = "none" /\ state = "rolled_back"

\* After an upgrade that failed by a single fault the service that was
\* running is running again, unless a role of the new one is up (the except
\* clauses of upgrade).
NeverDark ==
    op = "idle" /\ failed /\ faults <= 1 /\ journal # None /\ journal.initial = "running" =>
        legacy = "running" \/ RoleActive

\* While a role of an installed cutover is up, the snapshot the cutover is
\* measured by is what legacy last wrote, so a rollback loses none of
\* legacy's data (the order of upgrade's effects and of its handlers).
Recorded ==
    SnapshotIntact(journal.evidence) /\ legacyData = journal.evidence.snapshot
SnapshotIsLegacy ==
    journal # None /\ state \in Active /\ RoleActive => Recorded

\* docs/operations/lifecycle.md: "State is committed only after live
\* postconditions pass", so the state alone would vouch for the cutover.
\* (Does not hold after a save of the state that raises late, see README.)
StateIsCutover ==
    journal # None /\ state \in Active => Recorded

\* No command drops translated data: a target changes under a runtime that
\* writes it, or it is set aside (_prepare_failed_upgrade_retry).
TargetPreserved ==
    [][target # None /\ target' # target /\ writes' = writes => target \in preserved']_vars

\* docs/operations/troubleshooting.md on a host stop during a re-upgrade:
\* "When a complete healthy v2.2 runtime already exists, the command adopts
\* that exact labeled cutover".  (Does not hold, see README.)
AdoptsLiveCutover ==
    op = "idle" /\ journal # None /\ journal.status = "snapshot-complete" /\ Verifiable
        => RecoverActive \/ RecoverRuntime

\* docs/operations/lifecycle.md: the journal "makes interrupted preparation,
\* snapshot and cutover steps retryable"; an active runtime can be finished
\* or rolled back.  (Does not hold, see README.)
ActiveIsRecoverable ==
    op = "idle" /\ state \in Active => RecoverActive \/ RollbackAllowed

\* A rollback that was interrupted can be run again.  (Does not hold after a
\* recovered cutover, see README.)
RollbackResumes ==
    op = "idle" /\ state \in {"uninstalling", "uninstalled"} => RollbackAllowed
=============================================================================
