---------------------------- MODULE HubMigration -----------------------------
(***************************************************************************)
(* The managed life of the universal hub (btctl_hub.py): install,          *)
(* uninstall, the migration of the split runtimes into one hub and its     *)
(* rollback.  Every command holds the lifecycle locks of all directories   *)
(* it touches, so one runs at a time.  As in Deployment a command is a     *)
(* sequence of durable effects, of which pc is the next; it may be killed  *)
(* between any two and any of them may raise.  Here commands nest: migrate *)
(* runs install inside a try, and its handler and rollback run uninstall.  *)
(*                                                                         *)
(* Both profiles make the same effects: "compose up" creates and starts    *)
(* the container, "compose down" removes it.  A tree is what               *)
(* _tree_manifest digests of a data directory: its database and whether a  *)
(* session key is in it.                                                   *)
(***************************************************************************)
EXTENDS Naturals, Sequences, FiniteSets

CONSTANTS ReaderSeq,   \* the enabled readers, in the order of the configuration
          MaxRuns,     \* bound: commands issued
          MaxFaults,   \* bound: crashes and exceptions
          MaxWrites,   \* bound: translations written by the sources and by the hub
          None

Readers == { ReaderSeq[i] : i \in DOMAIN ReaderSeq }
Roles == {"api", "proxy"}
Sources == Readers \X Roles

ASSUME ReadersAssumption == ReaderSeq \in Seq(Readers) /\ ReaderSeq # << >>
ASSUME BoundsAssumption == MaxRuns \in Nat /\ MaxFaults \in Nat /\ MaxWrites \in Nat

VARIABLES up,       \* source containers that run
          src,      \* writes made to the database of each source
          tree,     \* data_root/<reader>, or None
          work,     \* data_root/.<reader>.migration.partial, or None
          hub,      \* the hub container, or None
          attempt,  \* install-attempt.json, or None
          state,    \* state.json of the hub, or None
          journal,  \* topology-migration.json, or None
          history,  \* install ids archived
          cmd, pc, cur,     \* the running command, its next effect, its locals
          migrated, \* install ids made by migrate (history variable)
          excused,  \* the last migration was killed or its own recovery failed, or the
                    \* operator has uninstalled the hub since (history variable)
          lastId, runs, faults

disk == <<tree, work, attempt, state, journal, history>>
world == <<up, src, hub>>
vars == <<disk, world, cmd, pc, cur, migrated, excused, lastId, runs, faults>>

Database == [from : Nat \cup {None}, hub : Nat]
Manifest == [db : {None} \cup Database, key : BOOLEAN]
EmptyTree == [db |-> None, key |-> FALSE]
SourceTree(r) == [db |-> [from |-> src[r], hub |-> 0], key |-> TRUE]
Partial == EmptyTree                        \* a copy under way: not all files yet
NoCopies == [r \in Readers |-> None]

Container == [id : Nat, up : BOOLEAN]
Attempt == [id : Nat, status : {"prepared", "starting", "cleaned", "cleanup-failed"}]
State == [id : Nat, status : {"installed", "uninstalling", "uninstalled", "rolled_back"}]
Journal == [status : {"prepared", "copying", "failed", "committed", "rolled_back"},
            initial : SUBSET Sources, copied : [Readers -> Manifest \cup {None}]]

ASSUME NoneAssumption ==
    None \notin Nat \cup Database \cup Manifest \cup Container \cup Attempt \cup State \cup Journal

\* The order of a loop over readers or over sources, in which one role is first.
Pos(r) == CHOOSE i \in DOMAIN ReaderSeq : ReaderSeq[i] = r
FirstReader(r, rest) == \A q \in rest : Pos(r) <= Pos(q)
FirstSource(s, rest, role) ==
    \A u \in rest : Pos(s[1]) < Pos(u[1]) \/ (s[1] = u[1] /\ (s[2] = role \/ s = u))

\* The locals of a command; left is what its loop has still to do.
Local == [id : Nat, keysBefore : SUBSET Readers, started : BOOLEAN, errors : BOOLEAN,
          installed : BOOLEAN, unclean : BOOLEAN, copied : [Readers -> Manifest \cup {None}],
          left : SUBSET (Readers \cup Sources)]
NoLocal == [id |-> 0, keysBefore |-> {}, started |-> FALSE, errors |-> FALSE,
            installed |-> FALSE, unclean |-> FALSE, copied |-> NoCopies, left |-> {}]

Init ==
    /\ up \in SUBSET Sources /\ src = [r \in Readers |-> 0]
    /\ tree = NoCopies /\ work = NoCopies /\ hub = None
    /\ attempt = None /\ state = None /\ journal = None /\ history = {}
    /\ cmd = "idle" /\ pc = "idle" /\ cur = NoLocal
    /\ migrated = {} /\ excused = FALSE
    /\ lastId = 0 /\ runs = 0 /\ faults = 0

At(do) == pc = do
Stop == pc' = "idle" /\ cmd' = "idle" /\ cur' = NoLocal
Go(do, local) == IF do = "idle" THEN Stop ELSE pc' = do /\ cur' = local /\ UNCHANGED cmd
To(do) == Go(do, cur)
Begin(command) == /\ cmd = "idle" /\ runs < MaxRuns /\ runs' = runs + 1
                  /\ cmd' = command
                  /\ excused' = (command = "uninstall" \/ (command = "install" /\ excused))
Quiet == UNCHANGED <<excused, lastId, runs, faults>>   \* what no effect changes

Active == state # None /\ state.status = "installed"

-----------------------------------------------------------------------------
(* HubInstaller *)

\* The gate of install: only the evidence of a completed cleanup may be there.
CleanEvidence == attempt # None => attempt.status = "cleaned"

\* _preflight
Preflight(allowExisting) ==
    /\ hub = None
    /\ state # None => state.status \in {"uninstalled", "rolled_back"}
    /\ (\E r \in Readers : tree[r] # None \/ work[r] # None) =>
           allowExisting \/ attempt # None \/ state # None

\* A state that is there is archived before the new one is saved.
AfterStart == IF state = None THEN "commit" ELSE "archive"

\* What install returns to, and what it and its cleanup raise into.
Installed == IF cmd = "migrate" THEN "leave" ELSE "idle"
Raised == IF cmd = "migrate" THEN "handle" ELSE "idle"

\* The head of install: a new id, and install-attempt.json before anything else.
OpenAttempt ==
    /\ lastId' = lastId + 1
    /\ attempt' = [id |-> lastId', status |-> "prepared"]

Install ==
    /\ Begin("install") /\ CleanEvidence /\ Preflight(FALSE)
    /\ OpenAttempt /\ cur' = [NoLocal EXCEPT !.id = lastId'] /\ pc' = "arm"
    /\ UNCHANGED <<world, tree, work, state, journal, history, migrated, faults>>

Arm ==
    /\ At("arm") /\ To("prepare")
    /\ attempt' = [attempt EXCEPT !.status = "starting"]
    /\ UNCHANGED <<world, tree, work, state, journal, history, migrated>> /\ Quiet

\* prepare_hub_data_directory: a directory for every reader, what is in one stays.
PreparedTrees == [r \in Readers |-> IF tree[r] = None THEN EmptyTree ELSE tree[r]]

\* inspect_hub_data_credentials
KeysIn(trees) == { r \in Readers : trees[r].key }

\* build_image, _verify_image, and the two above.
Prepare ==
    /\ At("prepare")
    /\ tree' = PreparedTrees
    /\ Go("create", [cur EXCEPT !.keysBefore = KeysIn(PreparedTrees)])
    /\ UNCHANGED <<world, work, attempt, state, journal, history, migrated>> /\ Quiet

\* create_hub_container, with the labels of this attempt.
NewContainer == [id |-> cur.id, up |-> FALSE]

\* compose_up, or the creation and connect_network.
Create ==
    /\ At("create") /\ Go("start", [cur EXCEPT !.started = TRUE])
    /\ hub' = NewContainer
    /\ UNCHANGED <<up, src, disk, migrated>> /\ Quiet

\* start_container, wait_healthy, _probe, _verify_hub: each API has opened its
\* database and has a key.
Start ==
    /\ At("start") /\ To(AfterStart)
    /\ hub' = [hub EXCEPT !.up = TRUE]
    /\ tree' = [r \in Readers |->
                  [db |-> IF tree[r].db = None THEN [from |-> None, hub |-> 0] ELSE tree[r].db,
                   key |-> TRUE]]
    /\ UNCHANGED <<up, src, work, attempt, state, journal, history, migrated>> /\ Quiet

\* HubStateStore.archive
Archive ==
    /\ At("archive") /\ To("commit")
    /\ history' = history \cup {state.id}
    /\ UNCHANGED <<world, tree, work, attempt, state, journal, migrated>> /\ Quiet

\* HubStateStore.save
SaveInstalled ==
    /\ state' = [id |-> cur.id, status |-> "installed"]
    /\ migrated' = IF cmd = "migrate" THEN migrated \cup {cur.id} ELSE migrated

Commit ==
    /\ At("commit") /\ To("drop")
    /\ SaveInstalled
    /\ UNCHANGED <<world, tree, work, attempt, journal, history>> /\ Quiet

\* InstallAttemptStore.remove
Drop ==
    /\ At("drop") /\ Go(Installed, [cur EXCEPT !.installed = TRUE])
    /\ attempt' = None
    /\ UNCHANGED <<world, tree, work, state, journal, history, migrated>> /\ Quiet

\* The except clause of install, by how far it got.
CleanPlan == IF At("create") \/ cur.started THEN "remove" ELSE "close"

InstallEffects == {"arm", "prepare", "create", "start", "archive", "commit", "drop"}

\* compose_down or remove_container of the container by its name.
Remove ==
    /\ At("remove") /\ To("drop_keys")
    /\ hub' = None
    /\ UNCHANGED <<up, src, disk, migrated>> /\ Quiet

\* _remove_new_session_keys
OldKeys == [r \in Readers |-> [tree[r] EXCEPT !.key = r \in KeysIn(tree) \cap cur.keysBefore]]

DropKeys ==
    /\ At("drop_keys") /\ To("close")
    /\ tree' = OldKeys
    /\ UNCHANGED <<world, work, attempt, state, journal, history, migrated>> /\ Quiet

CloseAsCleaned ==                           \* mutant: the errors of the cleanup are dropped
    /\ At("close") /\ To(Raised)
    /\ attempt' = [id |-> cur.id, status |-> "cleaned"]
    /\ UNCHANGED <<world, tree, work, state, journal, history, migrated>> /\ Quiet

\* The evidence of the failed attempt.
Close ==
    /\ At("close") /\ To(Raised)
    /\ attempt' = [id |-> cur.id, status |-> IF cur.errors THEN "cleanup-failed" ELSE "cleaned"]
    /\ UNCHANGED <<world, tree, work, state, journal, history, migrated>> /\ Quiet

-----------------------------------------------------------------------------
(* HubUninstaller *)

\* An attempt left behind a commit: it is reconciled, any other is refused.
CommittedAttempt == attempt # None /\ attempt.status = "starting" /\ attempt.id = state.id

UninstallAllowed ==
    /\ state # None /\ state.status \in {"installed", "uninstalling", "uninstalled"}
    /\ attempt # None => CommittedAttempt
    /\ state.status # "uninstalled" /\ hub # None =>
           hub.id = state.id /\ (state.status = "installed" => hub.up)

UninstallPlan(after) ==
    CASE state.status = "installed"    -> "mark"
      [] state.status = "uninstalling" -> "down"
      [] OTHER                         -> IF attempt = None THEN after ELSE "reconcile"

\* What uninstall returns to: the handler of migrate, or the rest of rollback.
RestartPlan(after) == IF journal.initial = {} THEN after ELSE "restart"
Uninstalled == CASE cmd = "migrate"  -> "fail"
                 [] cmd = "rollback" -> RestartPlan("roll_back_state")
                 [] OTHER            -> "idle"

UninstallEffects == {"mark", "down", "drop_credentials", "finish", "reconcile"}

Uninstall ==
    /\ Begin("uninstall") /\ UninstallAllowed
    /\ UninstallPlan("idle") # "idle" /\ pc' = UninstallPlan("idle") /\ cur' = NoLocal
    /\ UNCHANGED <<world, disk, migrated, lastId, faults>>

Mark ==
    /\ At("mark") /\ To("down")
    /\ state' = [state EXCEPT !.status = "uninstalling"]
    /\ UNCHANGED <<world, tree, work, attempt, journal, history, migrated>> /\ Quiet

Down ==
    /\ At("down") /\ To("drop_credentials")
    /\ hub' = None
    /\ UNCHANGED <<up, src, disk, migrated>> /\ Quiet

\* remove_hub_data_credentials; it accepts a key that is gone.
DropCredentials ==
    /\ At("drop_credentials") /\ To("finish")
    /\ tree' = [r \in Readers |-> IF tree[r] = None THEN None ELSE [tree[r] EXCEPT !.key = FALSE]]
    /\ UNCHANGED <<world, work, attempt, state, journal, history, migrated>> /\ Quiet

Finish ==
    /\ At("finish") /\ To(IF attempt = None THEN Uninstalled ELSE "reconcile")
    /\ state' = [state EXCEPT !.status = "uninstalled"]
    /\ UNCHANGED <<world, tree, work, attempt, journal, history, migrated>> /\ Quiet

Reconcile ==
    /\ At("reconcile") /\ To(Uninstalled)
    /\ attempt' = None
    /\ UNCHANGED <<world, tree, work, state, journal, history, migrated>> /\ Quiet

-----------------------------------------------------------------------------
(* HubTopologyMigration.migrate *)

\* The sources that run are stopped, then every reader is copied.
StopPlan == IF up = {} THEN "check" ELSE "stop"

TryEffects == {"stop", "check", "copy", "fill", "publish", "note", "enter_install", "leave"}

\* A hub whose state commit completed before the journal commit is recovered.
HubVerified == hub # None /\ hub.id = state.id /\ hub.up
MigratePlan == IF Active THEN "committed" ELSE "copying"

\* _validate_target_root without a journal
TargetRootEmpty == \A r \in Readers : tree[r] = None /\ work[r] = None

\* _save_journal, _write_private_json
SaveJournal(j) == journal' = j

Migrate ==
    /\ Begin("migrate") /\ journal = None /\ TargetRootEmpty
    /\ SaveJournal([status |-> "prepared", initial |-> up, copied |-> NoCopies])
    /\ Active => HubVerified
    /\ pc' = MigratePlan /\ cur' = [NoLocal EXCEPT !.left = Readers]
    /\ UNCHANGED <<world, tree, work, attempt, state, history, migrated, lastId, faults>>

MigrateAgain ==
    /\ Begin("migrate") /\ journal # None
    /\ journal.status \in {"prepared", "copying", "failed"}
    /\ Active => HubVerified
    /\ pc' = MigratePlan /\ cur' = [NoLocal EXCEPT !.copied = journal.copied, !.left = Readers]
    /\ UNCHANGED <<world, disk, migrated, lastId, faults>>

Copying ==
    /\ At("copying") /\ To(StopPlan)
    /\ SaveJournal([journal EXCEPT !.status = "copying"])
    /\ UNCHANGED <<world, tree, work, attempt, state, history, migrated>> /\ Quiet

\* The next source that runs, a proxy before its API.
StopSource ==
    /\ At("stop")
    /\ \E s \in up :
          /\ FirstSource(s, up, "proxy")
          /\ up' = up \ {s}
          /\ To(IF up' = {} THEN "check" ELSE "stop")
    /\ UNCHANGED <<src, hub, disk, migrated>> /\ Quiet

\* _copy_reader_data, up to its first effect: what is there must be exactly
\* what the source holds now.
CopyPlan(r) ==
    CASE tree[r] # None -> "note"
      [] tree[r] = None /\ work[r] = SourceTree(r) -> "publish"
      [] OTHER -> "copy"

DriftedNever(r) == FALSE                    \* mutant: the copy is not compared again

Drifted(r) ==
    \/ cur.copied[r] # None /\ ~(cur.copied[r] = SourceTree(r) /\ work[r] = None
                                                               /\ tree[r] = SourceTree(r))
    \/ cur.copied[r] = None /\ tree[r] # None /\ ~(work[r] = None /\ tree[r] = SourceTree(r))

\* The reader whose turn it is in the loop.
Turn(r) == r \in cur.left /\ FirstReader(r, cur.left)
Done(local, r) == [local EXCEPT !.left = @ \ {r}]
\* The loop goes on while there are others.
Onward(r, loop, after) == IF cur.left = {r} THEN after ELSE loop

Check ==
    /\ At("check")
    /\ \E r \in Readers :
          /\ Turn(r)
          /\ IF Drifted(r) THEN Go(Raised, cur)
             ELSE IF cur.copied[r] # None THEN Go(Onward(r, "check", "enter_install"), Done(cur, r))
             ELSE Go(CopyPlan(r),
                     IF tree[r] = None THEN cur ELSE [cur EXCEPT !.copied[r] = SourceTree(r)])
    /\ UNCHANGED <<world, disk, migrated>> /\ Quiet

\* _secure_copy_atomic: a partial tree, the whole tree, its final name.
Copy ==
    /\ At("copy") /\ To("fill")
    /\ \E r \in Readers : Turn(r) /\ work' = [work EXCEPT ![r] = Partial]
    /\ UNCHANGED <<world, tree, attempt, state, journal, history, migrated>> /\ Quiet

Fill ==
    /\ At("fill") /\ To("publish")
    /\ \E r \in Readers : Turn(r) /\ work' = [work EXCEPT ![r] = SourceTree(r)]
    /\ UNCHANGED <<world, tree, attempt, state, journal, history, migrated>> /\ Quiet

Publish ==
    /\ At("publish")
    /\ \E r \in Readers :
          /\ Turn(r)
          /\ Go("note", [cur EXCEPT !.copied[r] = work[r]])
          /\ tree' = [tree EXCEPT ![r] = work[r]] /\ work' = [work EXCEPT ![r] = None]
    /\ UNCHANGED <<world, attempt, state, journal, history, migrated>> /\ Quiet

\* The evidence of one copy.
Note ==
    /\ At("note")
    /\ \E r \in Readers : Turn(r) /\ Go(Onward(r, "check", "enter_install"), Done(cur, r))
    /\ SaveJournal([journal EXCEPT !.copied = cur.copied])
    /\ UNCHANGED <<world, tree, work, attempt, state, history, migrated>> /\ Quiet

\* install(allow_existing_data=True)
EnterInstall ==
    /\ At("enter_install")
    /\ IF CleanEvidence /\ Preflight(TRUE)
         THEN OpenAttempt /\ Go("arm", [cur EXCEPT !.id = lastId'])
         ELSE Go(Raised, cur) /\ UNCHANGED <<attempt, lastId>>
    /\ UNCHANGED <<world, tree, work, state, journal, history, migrated, excused, runs, faults>>

\* The end of the try block.
Leave == At("leave") /\ To("committed") /\ UNCHANGED <<world, disk, migrated>> /\ Quiet

Committed ==
    /\ At("committed") /\ To("idle")
    /\ SaveJournal([journal EXCEPT !.status = "committed"])
    /\ UNCHANGED <<world, tree, work, attempt, state, history, migrated>> /\ Quiet

-----------------------------------------------------------------------------
(* the handler of migrate *)

\* An installed hub is uninstalled; else it is looked whether one was left.
Handle ==
    /\ At("handle")
    /\ IF cur.installed THEN To("enter_uninstall")
                        ELSE Go("fail", [cur EXCEPT !.unclean = hub # None])
    /\ UNCHANGED <<world, disk, migrated>> /\ Quiet

\* uninstall inside the handler or inside rollback.
EnterUninstall ==
    /\ At("enter_uninstall")
    /\ IF UninstallAllowed THEN To(UninstallPlan(Uninstalled))
         ELSE IF cmd = "migrate" THEN Go("fail", [cur EXCEPT !.unclean = TRUE]) ELSE Stop
    /\ UNCHANGED <<world, disk, migrated>> /\ Quiet

AfterFailAlways == RestartPlan("idle")            \* mutant: the hub may still be there

AfterFailNever == "idle"                    \* mutant: the sources stay stopped

\* After the journal: sources restart only when no hub is left.
AfterFail == IF cur.unclean THEN "idle" ELSE RestartPlan("idle")

Restarting == [cur EXCEPT !.left = journal.initial]

Fail ==
    /\ At("fail") /\ Go(AfterFail, Restarting)
    /\ SaveJournal([journal EXCEPT !.status = "failed", !.copied = cur.copied])
    /\ UNCHANGED <<world, tree, work, attempt, state, history, migrated>> /\ Quiet

\* Of a rollback that is repeated after its end only the restart is left.
Restarted == IF cmd = "rollback" /\ journal.status = "committed" THEN "roll_back_state" ELSE "idle"

\* _restart_sources: the roles recorded as running, the API first.
Restart ==
    /\ At("restart")
    /\ \E s \in cur.left :
          /\ FirstSource(s, cur.left, "api")
          /\ up' = up \cup {s}
          /\ Go(Onward(s, "restart", Restarted), Done(cur, s))
    /\ UNCHANGED <<src, hub, disk, migrated>> /\ Quiet

-----------------------------------------------------------------------------
(* HubTopologyMigration.rollback *)

Rollback ==
    /\ Begin("rollback") /\ journal # None
    /\ \/ journal.status = "committed" /\ pc' = "enter_uninstall"
       \/ journal.status = "rolled_back" /\ journal.initial # {} /\ pc' = "restart"
    /\ cur' = [NoLocal EXCEPT !.left = journal.initial]
    /\ UNCHANGED <<world, disk, migrated, lastId, faults>>

RollBackState ==
    /\ At("roll_back_state") /\ To("roll_back_journal")
    /\ state' = [state EXCEPT !.status = "rolled_back"]
    /\ UNCHANGED <<world, tree, work, attempt, journal, history, migrated>> /\ Quiet

RollBackJournal ==
    /\ At("roll_back_journal") /\ To("idle")
    /\ SaveJournal([journal EXCEPT !.status = "rolled_back"])
    /\ UNCHANGED <<world, tree, work, attempt, state, history, migrated>> /\ Quiet

-----------------------------------------------------------------------------
(* faults and the running containers *)

\* The next effect raises and is not made.
Stray == [cur EXCEPT !.errors = TRUE]
Unsure == [cur EXCEPT !.unclean = TRUE]
Unguarded == {"copying", "committed", "enter_uninstall", "restart",
              "roll_back_state", "roll_back_journal"}

Raises ==
    \/ pc \in InstallEffects \ {"drop"} /\ To(CleanPlan)
    \/ pc \in {"remove", "drop_keys"} /\ Go("close", Stray)
    \/ pc = "close" /\ IF cur.errors THEN To(Raised) ELSE Go("close", Stray)
    \/ pc \in TryEffects \cup {"drop"} /\ To(Raised)
    \/ pc = "handle" /\ Go("fail", Unsure)
    \/ pc = "fail" /\ Go(AfterFail, Restarting)
    \/ pc \in UninstallEffects /\ cmd = "migrate" /\ Go("fail", Unsure)
    \/ pc \in UninstallEffects /\ cmd # "migrate" /\ Stop
    \/ pc \in Unguarded /\ Stop

Raise ==
    /\ cmd # "idle" /\ faults < MaxFaults /\ faults' = faults + 1
    /\ Raises
    /\ excused' = (excused \/ pc \notin InstallEffects \cup TryEffects)
    /\ UNCHANGED <<world, disk, migrated, lastId, runs>>

\* The next effect is made and raises after that: a write that fails when it
\* syncs the directory, an interrupt before its result is taken.  The effects not
\* listed leave what the next one leaves that raises and is not made, or what a
\* kill leaves.
RaisesLate ==
    \/ /\ pc = "enter_install" /\ CleanEvidence /\ Preflight(TRUE)
       /\ OpenAttempt /\ To(Raised) /\ UNCHANGED <<hub, tree, work, state, migrated>>
    \/ /\ pc = "commit" /\ SaveInstalled /\ To(CleanPlan)
       /\ UNCHANGED <<hub, tree, work, attempt, lastId>>
    \/ /\ pc = "drop" /\ attempt' = None /\ To(Raised)
       /\ UNCHANGED <<hub, tree, work, state, migrated, lastId>>
    \/ /\ pc = "remove" /\ hub' = None /\ Go("close", Stray)
       /\ UNCHANGED <<tree, work, attempt, state, migrated, lastId>>
    \/ /\ pc = "drop_keys" /\ tree' = OldKeys /\ Go("close", Stray)
       /\ UNCHANGED <<hub, work, attempt, state, migrated, lastId>>
    \/ /\ pc = "publish" /\ To(Raised)
       /\ \E r \in Readers : /\ Turn(r) /\ tree' = [tree EXCEPT ![r] = work[r]]
                             /\ work' = [work EXCEPT ![r] = None]
       /\ UNCHANGED <<hub, attempt, state, migrated, lastId>>
    \/ /\ pc = "finish" /\ cmd = "migrate" /\ state' = [state EXCEPT !.status = "uninstalled"]
       /\ Go("fail", Unsure) /\ UNCHANGED <<hub, tree, work, attempt, migrated, lastId>>
    \/ /\ pc = "reconcile" /\ cmd = "migrate" /\ attempt' = None
       /\ Go("fail", Unsure) /\ UNCHANGED <<hub, tree, work, state, migrated, lastId>>

RaiseLate ==
    /\ cmd # "idle" /\ faults < MaxFaults /\ faults' = faults + 1
    /\ RaisesLate
    /\ excused' = (excused \/ pc \notin InstallEffects \cup TryEffects)
    /\ UNCHANGED <<up, src, journal, history, runs>>

Crash ==
    /\ cmd # "idle" /\ faults < MaxFaults /\ faults' = faults + 1
    /\ Stop /\ excused' = TRUE
    /\ UNCHANGED <<world, disk, migrated, lastId, runs>>

\* Readers translate: a running API writes its database.
SourceWrite(r) ==
    /\ <<r, "api">> \in up /\ src[r] < MaxWrites
    /\ src' = [src EXCEPT ![r] = @ + 1]
    /\ UNCHANGED <<up, hub, disk, cmd, pc, cur, migrated, excused, lastId, runs, faults>>

HubWrite(r) ==
    /\ hub # None /\ hub.up /\ tree[r].db.hub < MaxWrites
    /\ tree' = [tree EXCEPT ![r].db.hub = @ + 1]
    /\ UNCHANGED <<world, work, attempt, state, journal, history, cmd, pc, cur, migrated,
                   excused, lastId, runs, faults>>

Step ==
    \/ Arm \/ Prepare \/ Create \/ Start \/ Archive \/ Commit \/ Drop
    \/ Remove \/ DropKeys \/ Close
    \/ Mark \/ Down \/ DropCredentials \/ Finish \/ Reconcile
    \/ Copying \/ StopSource \/ Check \/ Copy \/ Fill \/ Publish \/ Note
    \/ EnterInstall \/ Leave \/ Committed
    \/ Handle \/ EnterUninstall \/ Fail \/ Restart \/ RollBackState \/ RollBackJournal

Next ==
    \/ Install \/ Uninstall \/ Migrate \/ MigrateAgain \/ Rollback
    \/ Step \/ Raise \/ RaiseLate \/ Crash
    \/ \E r \in Readers : SourceWrite(r) \/ HubWrite(r)

Spec == Init /\ [][Next]_vars

-----------------------------------------------------------------------------
Effects == InstallEffects \cup TryEffects \cup UninstallEffects \cup Unguarded \cup
           {"remove", "drop_keys", "close", "handle", "fail"}

TypeOK ==
    /\ up \subseteq Sources /\ src \in [Readers -> 0 .. MaxWrites]
    /\ tree \in [Readers -> Manifest \cup {None}]
    /\ work \in [Readers -> Manifest \cup {None}]
    /\ hub \in Container \cup {None}
    /\ attempt \in Attempt \cup {None} /\ state \in State \cup {None}
    /\ journal \in Journal \cup {None} /\ history \subseteq Nat
    /\ cmd \in {"idle", "install", "uninstall", "migrate", "rollback"}
    /\ pc \in Effects \cup {"idle"} /\ (cmd = "idle") = (pc = "idle")
    /\ cur \in Local /\ migrated \subseteq Nat /\ excused \in BOOLEAN
    /\ lastId \in Nat /\ runs \in 0 .. MaxRuns /\ faults \in 0 .. MaxFaults

\* migrate and rollback: the one topology is started only when the other is
\* down, at every point at which a migration can fail, be killed and be run
\* again (a rollback that is repeated after its end is no longer a change of
\* topology).
OneTopology ==
    [][ /\ cmd = "migrate" /\ hub' # None /\ hub'.up /\ (hub = None \/ ~hub.up) => up = {}
        /\ cmd \in {"migrate", "rollback"} /\ journal.status # "rolled_back" /\ up' # up /\ up \subseteq up'
              => hub = None ]_vars

\* A hub that migrate installed holds every translation of its sources:
\* whatever was copied by an earlier attempt and however the sources changed
\* since, nothing is left behind when the migration commits.  A save that raises
\* after its rename leaves the state of a hub that its cleanup then removes, and
\* the sources write again: of that state alone nothing is said.
CutoverComplete ==
    Active /\ state.id \in migrated /\ hub # None =>
        \A r \in Readers : tree[r].db # None /\ tree[r].db.from = src[r]

\* The same of the state file alone, which such a save refutes.
StateIsCutover ==
    Active /\ state.id \in migrated =>
        \A r \in Readers : tree[r].db # None /\ tree[r].db.from = src[r]

\* A migration that fails leaves readers served: the sources that ran before
\* are up again or the hub is still there, unless the command was killed or
\* its own recovery failed.
ReadersStayServed ==
    cmd = "idle" /\ journal # None /\ journal.status \in {"failed", "rolled_back"} /\ ~excused =>
        journal.initial \subseteq up \/ hub # None

\* HubDoctor.run: the state, the container, each database and each key.
DoctorHealthy ==
    /\ Active /\ HubVerified
    /\ \A r \in Readers : tree[r] # None /\ tree[r].db # None /\ tree[r].key

\* Ownership of ADR-010 for the hub: a container that is there is known to an
\* attempt that is not closed or to a state that is not uninstalled, and one
\* that doctor calls healthy is one that uninstall (and so rollback) accepts,
\* whatever an interrupted or failed install left beside it, unless the cleanup
\* of its own install has failed.
HubAccountedFor ==
    /\ hub # None =>
        \/ attempt # None /\ attempt.id = hub.id /\ attempt.status \in {"starting", "cleanup-failed"}
        \/ state # None /\ state.id = hub.id /\ state.status \in {"installed", "uninstalling"}
    /\ cmd = "idle" /\ DoctorHealthy /\ (attempt # None => attempt.status # "cleanup-failed") =>
           UninstallAllowed

\* The same of every attempt: refuted by a save that raises after its rename and a
\* removal that fails.
HealthyIsRemovable == cmd = "idle" /\ DoctorHealthy => UninstallAllowed

\* btctl_hub.py, when the attempt cannot be removed after the commit: "run doctor
\* before further lifecycle operations".
DoctorSeesAttempt == cmd = "idle" /\ DoctorHealthy => attempt = None

\* install's cleanup "Remove[s] only credentials created by this uncommitted
\* attempt": keys that were copied from the sources survive a failed install.
CopiedKeysKept ==
    [][ \A r \in Readers : tree[r] # None /\ tree[r].key /\ ~tree'[r].key =>
          At("drop_credentials") \/ r \notin cur.keysBefore ]_vars

\* docs/decisions/ADR-015: "Its topology migration stops exact schema-1/2
\* source roles".
CommittedStopsSources == Active /\ journal # None /\ journal.status = "committed" => up = {}

=============================================================================
