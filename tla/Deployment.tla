----------------------------- MODULE Deployment ------------------------------
(***************************************************************************)
(* The managed life of the split runtime: install (btctl_compose.py,       *)
(* btctl_unraid.py), adopt and uninstall (btctl_lifecycle.py), each under  *)
(* OperationLock, so one command runs at a time.  A command is a list of   *)
(* durable effects on Docker objects, on install-attempt.json and on       *)
(* state.json; it may be killed between any two and any of them may raise. *)
(*                                                                         *)
(* A Docker object or file is known by the install id in its labels.       *)
(* "compose up" and "compose down" make and remove the same objects one    *)
(* after another and may stop between two of them.  The plan (checkout,    *)
(* configuration, names) is the same in all commands.                      *)
(***************************************************************************)
EXTENDS Naturals, Sequences, FiniteSets

CONSTANTS MaxCommands,     \* bound: commands issued
          MaxFailures,     \* bound: crashes and exceptions
          LateFailure,     \* an effect may raise after it was made
          Nothing

ASSUME BoundsAssumption == MaxCommands \in Nat /\ MaxFailures \in Nat
ASSUME FaultAssumption == LateFailure \in BOOLEAN

VARIABLES onUnraid,  \* the install profile is "unraid", else Compose
          session,   \* uses_reader_session
          live,      \* the install id each object carries, 0 by hand, or Nothing
          stray,     \* ghost: templates that copied_templates does not name
          up,        \* the containers that run
          dirty,     \* the data directory holds files
          attempt,   \* install-attempt.json, or Nothing
          stateJson, \* state.json, or Nothing
          history,   \* install ids archived
          op, todo,  \* the running command and the effects it has left
          cur,       \* its local variables
          lastInstall, commands, failures

profile == <<onUnraid, session>>
counters == <<lastInstall, commands, failures>>
deployVars == <<profile, live, stray, up, dirty, attempt, stateJson, history, op, todo, cur, counters>>

Runtime == {"network", "api", "proxy"}
Templates == {"api_template", "proxy_template"}
Key == "session_key"
Objects == Runtime \cup Templates \cup {Key}
Present(r) == live[r] # Nothing
Files == IF onUnraid THEN Templates ELSE {}

Effect(do, r) == [do |-> do, on |-> r]
Effects == {"arm", "create", "start", "archive", "commit", "drop", "remove", "drop_key",
            "close", "restore", "remove_owned", "record", "finish"}
EffectRecords == [do : Effects, on : Objects \cup {"attempt", "state"}]

Attempt == [id : Nat, status : {"prepared", "starting", "cleaned", "cleanup-failed"}]
State == [id : Nat, status : {"installed", "adopted", "uninstalling", "uninstalled"},
          removed : SUBSET Objects]
Local == [id : Nat, retry : Attempt \cup {Nothing}, keyBefore : BOOLEAN, errors : BOOLEAN]
ASSUME NothingAssumption == Nothing \notin Nat \cup Attempt \cup State

NoLocal == [id |-> 0, retry |-> Nothing, keyBefore |-> FALSE, errors |-> FALSE]

DeployInit ==
    /\ onUnraid \in BOOLEAN /\ session \in BOOLEAN
    /\ live = [r \in Objects |-> Nothing] /\ stray = {} /\ up = {} /\ dirty = FALSE
    /\ attempt = Nothing /\ stateJson = Nothing /\ history = {}
    /\ op = "idle" /\ todo = << >> /\ cur = NoLocal
    /\ lastInstall = 0 /\ commands = 0 /\ failures = 0

At(command, do) == op = command /\ Head(todo).do = do
This == Head(todo).on
Pop == todo' = Tail(todo) /\ UNCHANGED <<op, cur>>
Stop == op' = "idle" /\ todo' = << >> /\ cur' = NoLocal
Command == op = "idle" /\ commands < MaxCommands /\ commands' = commands + 1

-----------------------------------------------------------------------------
(* install *)

\* _preflight with _completed_uninstall_for_reinstall,
\* _cleaned_attempt_matches and _validate_data_destination.
Preflight ==
    /\ stateJson # Nothing => /\ stateJson.status = "uninstalled"
                              /\ Runtime \cup Files \subseteq stateJson.removed
    /\ \A r \in Runtime \cup Files : ~Present(r)
    /\ attempt # Nothing => attempt.status = "cleaned"
    /\ dirty => stateJson # Nothing \/ attempt # Nothing

InstallPlan ==
    << Effect("arm", "attempt"), Effect("create", "network"),
       Effect("create", "api"), Effect("start", "api"),
       Effect("create", "proxy"), Effect("start", "proxy") >>
    \o (IF onUnraid THEN << Effect("create", "api_template"), Effect("create", "proxy_template") >>
                  ELSE << >>)
    \o (IF stateJson = Nothing THEN << >> ELSE << Effect("archive", "state") >>)
    \o << Effect("commit", "state"), Effect("drop", "attempt") >>

\* Preflight, then install-attempt.json before anything is built or made.
Install ==
    /\ Command /\ Preflight
    /\ lastInstall' = lastInstall + 1
    /\ attempt' = [id |-> lastInstall', status |-> "prepared"]
    /\ cur' = [id |-> lastInstall', retry |-> attempt, keyBefore |-> Present(Key), errors |-> FALSE]
    /\ op' = "install" /\ todo' = InstallPlan
    /\ UNCHANGED <<profile, live, stray, up, dirty, stateJson, history, failures>>

ArmRemoves ==                               \* mutant: the attempt is closed too early
    /\ At("install", "arm") /\ Pop
    /\ attempt' = Nothing
    /\ UNCHANGED <<profile, live, stray, up, dirty, stateJson, history, counters>>

Arm ==
    /\ At("install", "arm") /\ Pop
    /\ attempt' = [attempt EXCEPT !.status = "starting"]
    /\ UNCHANGED <<profile, live, stray, up, dirty, stateJson, history, counters>>

CreateObject ==
    /\ At("install", "create") /\ Pop
    /\ live' = [live EXCEPT ![This] = cur.id]
    /\ UNCHANGED <<profile, stray, up, dirty, attempt, stateJson, history, counters>>

\* start_container, wait_healthy: the API makes its database and its key.
Start ==
    /\ At("install", "start") /\ Pop
    /\ up' = up \cup {This}
    /\ IF This = "api"
         THEN /\ dirty' = TRUE
              /\ live' = IF session /\ ~Present(Key) THEN [live EXCEPT ![Key] = cur.id] ELSE live
         ELSE UNCHANGED <<dirty, live>>
    /\ UNCHANGED <<profile, stray, attempt, stateJson, history, counters>>

\* StateStore.archive
Archive ==
    /\ At("install", "archive") /\ Pop
    /\ history' = history \cup {stateJson.id}
    /\ UNCHANGED <<profile, live, stray, up, dirty, attempt, stateJson, counters>>

Installed == [id |-> cur.id, status |-> "installed", removed |-> {}]

Commit ==
    /\ At("install", "commit") /\ Pop
    /\ stateJson' = Installed
    /\ UNCHANGED <<profile, live, stray, up, dirty, attempt, history, counters>>

\* InstallAttemptStore.remove
Drop ==
    /\ At("install", "drop") /\ Stop
    /\ attempt' = Nothing
    /\ UNCHANGED <<profile, live, stray, up, dirty, stateJson, history, counters>>

-----------------------------------------------------------------------------
(* the cleanup of a failed install *)

CleanPlan ==
    (IF onUnraid THEN << Effect("remove", "proxy_template"), Effect("remove", "api_template") >>
               ELSE << >>)
    \o << Effect("remove", "proxy"), Effect("remove", "api"), Effect("remove", "network"),
          Effect("drop_key", Key), Effect("close", "attempt") >>

Clean(plan) == op' = "clean" /\ todo' = plan /\ UNCHANGED <<cur, attempt>>
Restoring == << Effect("restore", "attempt") >>

\* What the except clauses of install do, by how far it got.
InstallRaises ==
    \/ Head(todo).do = "arm" /\ Clean(Restoring)
    \/ Head(todo).do = "arm" /\ onUnraid /\ Clean(CleanPlan)
    \/ Head(todo).do \notin {"arm", "drop"} /\ Clean(CleanPlan)
    \/ Head(todo).do = "drop" /\ Stop /\ UNCHANGED attempt

\* Nothing was started: the attempt goes, or the earlier evidence is back.
Restore ==
    /\ At("clean", "restore") /\ Stop
    /\ attempt' = cur.retry
    /\ UNCHANGED <<profile, live, stray, up, dirty, stateJson, history, counters>>

\* Only an object with the labels of this attempt, or a template that
\* copied_templates names.
RemoveNew ==
    /\ At("clean", "remove") /\ Pop
    /\ IF live[This] = cur.id /\ This \notin stray
         THEN live' = [live EXCEPT ![This] = Nothing] /\ up' = up \ {This}
         ELSE UNCHANGED <<live, up>>
    /\ UNCHANGED <<profile, stray, dirty, attempt, stateJson, history, counters>>

\* _remove_new_session_key
DropKeyAlways ==                            \* mutant: preexisting is not looked at
    /\ At("clean", "drop_key") /\ Pop
    /\ live' = IF session /\ ~cur.errors THEN [live EXCEPT ![Key] = Nothing] ELSE live
    /\ UNCHANGED <<profile, stray, up, dirty, attempt, stateJson, history, counters>>

DropKeyNever ==                             \* mutant: the key is forgotten
    /\ At("clean", "drop_key") /\ Pop
    /\ UNCHANGED <<profile, live, stray, up, dirty, attempt, stateJson, history, counters>>

DropKey ==
    /\ At("clean", "drop_key") /\ Pop
    /\ live' = IF session /\ ~cur.errors /\ ~cur.keyBefore THEN [live EXCEPT ![Key] = Nothing] ELSE live
    /\ UNCHANGED <<profile, stray, up, dirty, attempt, stateJson, history, counters>>

Close ==
    /\ At("clean", "close") /\ Stop
    /\ attempt' = [id |-> cur.id, status |-> IF cur.errors THEN "cleanup-failed" ELSE "cleaned"]
    /\ UNCHANGED <<profile, live, stray, up, dirty, stateJson, history, counters>>

\* An error of one step is noted and the next one is tried; the evidence is
\* then written as cleanup-failed.
CleanRaises ==
    \/ /\ Head(todo).do \in {"remove", "drop_key"}
       /\ todo' = Tail(todo) /\ cur' = [cur EXCEPT !.errors = TRUE] /\ UNCHANGED <<op, attempt>>
    \/ /\ Head(todo).do = "close" /\ ~cur.errors
       /\ cur' = [cur EXCEPT !.errors = TRUE] /\ UNCHANGED <<op, todo, attempt>>
    \/ Head(todo).do = "close" /\ cur.errors /\ Stop /\ UNCHANGED attempt
    \/ /\ Head(todo).do = "restore"
       /\ Stop /\ attempt' = [id |-> cur.id, status |-> "cleanup-failed"]

-----------------------------------------------------------------------------
(* adopt and uninstall *)

\* ComposeAdopter.adopt, UnraidAdopter.adopt
Adopt ==
    /\ Command /\ stateJson = Nothing
    /\ {"api", "proxy"} \subseteq up
    /\ live["proxy"] = live["api"] /\ live["network"] = live["api"]
    /\ \A r \in {"api"} \cup Files : live[r] \notin {Nothing, 0}
    /\ stateJson' = [id |-> live["api"], status |-> "adopted", removed |-> {}]
    /\ stray' = {}
    /\ UNCHANGED <<profile, live, up, dirty, attempt, history, op, todo, cur, lastInstall, failures>>

\* _verify_owned_runtime, and the templates have the content btctl gives them.
OwnershipProvedOnce ==                      \* mutant: a retry verifies nothing
    stateJson.status # "uninstalling" =>
        /\ \A r \in Runtime : live[r] = stateJson.id
        /\ \A r \in Files : live[r] \notin {Nothing, 0}
OwnershipProved ==
    LET retry == stateJson.status = "uninstalling"
        gone(r) == ~Present(r) /\ (r \in stateJson.removed \/ retry)
    IN  /\ \A r \in Runtime : gone(r) \/ live[r] = stateJson.id
        /\ \A r \in Files : gone(r) \/ live[r] \notin {Nothing, 0}

Both(r) == << Effect("remove_owned", r), Effect("record", r) >>
UninstallPlan ==
    Both("proxy") \o Both("api")
    \o (IF session /\ Key \notin stateJson.removed THEN Both(Key) ELSE << >>)
    \o Both("network")
    \o (IF onUnraid THEN Both("api_template") \o Both("proxy_template") ELSE << >>)
    \o << Effect("finish", "state") >>

Uninstall ==
    /\ Command /\ stateJson # Nothing
    /\ stateJson.status \in {"installed", "adopted", "uninstalling"}
    /\ OwnershipProved
    /\ stateJson' = [stateJson EXCEPT !.status = "uninstalling"]
    /\ op' = "uninstall" /\ todo' = UninstallPlan /\ cur' = [NoLocal EXCEPT !.id = stateJson.id]
    /\ UNCHANGED <<profile, live, stray, up, dirty, attempt, history, lastInstall, failures>>

\* A container is stopped and removed; the key must be there.
RemoveOwned ==
    /\ At("uninstall", "remove_owned")
    /\ This = Key => Present(Key)
    /\ Pop
    /\ live' = [live EXCEPT ![This] = Nothing] /\ up' = up \ {This}
    /\ UNCHANGED <<profile, stray, dirty, attempt, stateJson, history, counters>>

\* _verify_session_key raises.
KeyMissingWaits ==                          \* mutant: waits for the key to appear
    /\ At("uninstall", "remove_owned") /\ This = Key /\ ~Present(Key) /\ UNCHANGED deployVars

KeyMissing ==
    /\ At("uninstall", "remove_owned") /\ This = Key /\ ~Present(Key)
    /\ Stop
    /\ UNCHANGED <<profile, live, stray, up, dirty, attempt, stateJson, history, counters>>

Record ==
    /\ At("uninstall", "record") /\ Pop
    /\ stateJson' = [stateJson EXCEPT !.removed = @ \cup {This}]
    /\ UNCHANGED <<profile, live, stray, up, dirty, attempt, history, counters>>

Finish ==
    /\ At("uninstall", "finish") /\ Stop
    /\ stateJson' = [stateJson EXCEPT !.status = "uninstalled"]
    /\ UNCHANGED <<profile, live, stray, up, dirty, attempt, history, counters>>

-----------------------------------------------------------------------------
\* The operator puts a backup of the data directory back, key included.
RestoreBackup ==
    /\ Command /\ session /\ ~Present(Key) /\ \A r \in Runtime : ~Present(r)
    /\ live' = [live EXCEPT ![Key] = 0] /\ dirty' = TRUE
    /\ UNCHANGED <<profile, stray, up, attempt, stateJson, history, op, todo, cur, lastInstall, failures>>

\* Between two commands somebody makes an object of that name by hand.
Recreate ==
    /\ Command
    /\ \E r \in Runtime \cup Files : ~Present(r) /\ live' = [live EXCEPT ![r] = 0]
    /\ UNCHANGED <<profile, stray, up, dirty, attempt, stateJson, history, op, todo, cur, lastInstall, failures>>

\* The next effect raises and is not made.
CommandRaises ==
    /\ op # "idle" /\ failures < MaxFailures /\ failures' = failures + 1
    /\ CASE op = "install"   -> InstallRaises
         [] op = "clean"     -> CleanRaises
         [] op = "uninstall" -> Stop /\ UNCHANGED attempt
    /\ UNCHANGED <<profile, live, stray, up, dirty, stateJson, history, lastInstall, commands>>

\* The next effect is made and raises after that, as a write does that fails
\* when it syncs the directory.  The effects not listed leave what the next one
\* leaves that raises and is not made, or what a kill leaves.
LateInInstall ==
    \/ /\ Head(todo).do = "arm" /\ ~onUnraid
       /\ attempt' = [attempt EXCEPT !.status = "starting"]
       /\ op' = "clean" /\ todo' = Restoring
       /\ UNCHANGED <<cur, live, stray, stateJson>>
    \/ /\ Head(todo).do = "create" /\ This \in Templates
       /\ live' = [live EXCEPT ![This] = cur.id] /\ stray' = stray \cup {This}
       /\ Clean(CleanPlan) /\ UNCHANGED stateJson
    \/ /\ Head(todo).do = "commit"
       /\ stateJson' = Installed /\ Clean(CleanPlan) /\ UNCHANGED <<live, stray>>

LateInClean ==
    /\ \/ Head(todo).do = "remove" /\ live[This] = cur.id /\ This \notin stray
       \/ Head(todo).do = "drop_key" /\ session /\ ~cur.errors /\ ~cur.keyBefore
    /\ live' = [live EXCEPT ![This] = Nothing] /\ up' = up \ {This}
    /\ todo' = Tail(todo) /\ cur' = [cur EXCEPT !.errors = TRUE]
    /\ UNCHANGED <<op, attempt, stray, stateJson>>

RaiseLate ==
    /\ LateFailure /\ failures < MaxFailures /\ failures' = failures + 1
    /\ \/ op = "install" /\ LateInInstall /\ UNCHANGED up
       \/ op = "clean" /\ LateInClean
    /\ UNCHANGED <<profile, dirty, history, lastInstall, commands>>

CommandKilled ==
    /\ op # "idle" /\ failures < MaxFailures /\ failures' = failures + 1
    /\ Stop
    /\ UNCHANGED <<profile, live, stray, up, dirty, attempt, stateJson, history, lastInstall, commands>>

DeployStep ==
    \/ Arm \/ CreateObject \/ Start \/ Archive \/ Commit \/ Drop
    \/ Restore \/ RemoveNew \/ DropKey \/ Close
    \/ RemoveOwned \/ KeyMissing \/ Record \/ Finish

DeployNext ==
    \/ Install \/ Adopt \/ Uninstall \/ RestoreBackup \/ Recreate
    \/ DeployStep \/ CommandRaises \/ RaiseLate \/ CommandKilled

DeploySpec == DeployInit /\ [][DeployNext]_deployVars

\* A command that was started runs until it ends or is killed.
FairDeploySpec == DeploySpec /\ WF_deployVars(DeployStep)

-----------------------------------------------------------------------------
DeployTypeOK ==
    /\ onUnraid \in BOOLEAN /\ session \in BOOLEAN /\ dirty \in BOOLEAN
    /\ live \in [Objects -> Nat \cup {Nothing}] /\ stray \subseteq Templates /\ up \subseteq Runtime
    /\ attempt \in Attempt \cup {Nothing} /\ stateJson \in State \cup {Nothing}
    /\ history \subseteq Nat
    /\ op \in {"idle", "install", "clean", "uninstall"}
    /\ (op = "idle") = (todo = << >>)
    /\ todo \in Seq(EffectRecords)
    /\ cur \in Local
    /\ lastInstall \in Nat /\ commands \in 0 .. MaxCommands /\ failures \in 0 .. MaxFailures

\* Ownership of ADR-010: whatever a command leaves in Docker or in the
\* template directory, the files beside it say so: either an attempt that is
\* not closed as "cleaned", or a state that has not recorded its removal.
\* Only a template whose write raised after its rename is not accounted for.
NothingOrphaned ==
    \A r \in (Runtime \cup Templates) \ stray : live[r] \notin {Nothing, 0} =>
        \/ attempt # Nothing /\ attempt.id = live[r] /\ attempt.status \in {"starting", "cleanup-failed"}
        \/ /\ stateJson # Nothing /\ stateJson.id = live[r] /\ r \notin stateJson.removed
           /\ stateJson.status # "uninstalled"

\* install, adopt: state.json says installed only of a runtime that is
\* complete and carries its install id.
ActiveStateIsWhole ==
    stateJson # Nothing /\ stateJson.status \in {"installed", "adopted"} =>
        /\ \A r \in Runtime \cup Files : live[r] = stateJson.id
        /\ {"api", "proxy"} \subseteq up
        /\ session => Present(Key)

\* "cleaned" authorizes a retry on the retained data: nothing of the failed
\* attempt is left, its key included, but such a template.
CleanedIsClean ==
    attempt # Nothing /\ attempt.status = "cleaned" => \A r \in Objects \ stray : live[r] # attempt.id

\* Cleanup removes what its own attempt made, and uninstall what carries the id
\* of its state: a key or an object that was there before an install stays when
\* it fails, and what was made by hand in place of an object stays too.  The
\* key alone goes with an uninstall that has not recorded its removal, whoever
\* put it there.
OnlyOwnRemoved ==
    [][ \A r \in Objects : Present(r) /\ live'[r] = Nothing =>
          \/ /\ op = "uninstall"
             /\ live[r] = stateJson.id \/ (r = Key /\ Key \notin stateJson.removed)
          \/ op = "clean" /\ live[r] = cur.id ]_deployVars

\* Every command ends, though its cleanup fails.
EveryCommandEnds == op # "idle" ~> op = "idle"

\* docs/operations/lifecycle.md: "Reinstalling the same identity and data
\* path after a completed uninstall is supported".
ReinstallSupported ==
    op = "idle" /\ stateJson # Nothing /\ stateJson.status = "uninstalled" => Preflight

\* docs/operations/troubleshooting.md: uninstall "is retryable after an
\* interrupted removal".
UninstallRetryable ==
    op = "idle" /\ stateJson # Nothing /\ stateJson.status = "uninstalling" =>
        /\ OwnershipProved
        /\ session /\ Key \notin stateJson.removed => Present(Key)

\* The same of every object: what is refuted without the exception for stray.
CleanedLeavesNothing ==
    attempt # Nothing /\ attempt.status = "cleaned" => \A r \in Objects : live[r] # attempt.id

\* docs/operations/troubleshooting.md: "A failed fresh install removes only
\* newly created translator runtime resources [...] and writes no successful
\* state.json".
FailedInstallLeavesNoState ==
    attempt # Nothing /\ attempt.status = "cleaned" => stateJson = Nothing \/ stateJson.id # attempt.id
=============================================================================
