----------------------------- MODULE Reconfigure -----------------------------
(***************************************************************************)
(* "btctl reconfigure" (btctl_reconfigure.py): replace the environment of  *)
(* the API container as a journalled transaction over files and one        *)
(* container, under the lock of OperationLock.  A run is a sequence of     *)
(* durable effects; between any two of them the process may be killed, and *)
(* any of them may raise.  The next run recovers from the journal.         *)
(*                                                                         *)
(* An environment stands for the text of api.env, a snapshot's digest for  *)
(* its content.  Two environments that differ in a credential only have    *)
(* the same Fingerprint.  _write_private and StateStore.save replace a     *)
(* file atomically.                                                        *)
(***************************************************************************)
EXTENDS Naturals, FiniteSets

CONSTANTS Operators,      \* processes that run the command
          Environments,   \* contents api.env may have
          Fingerprint,    \* config_fingerprint of each
          MaxRuns,        \* bound: commands issued
          MaxFaults,      \* bound: crashes and exceptions
          None

ASSUME ConstantsAssumption ==
    /\ DOMAIN Fingerprint = Environments
    /\ MaxRuns \in Nat /\ MaxFaults \in Nat
    /\ None \notin Environments /\ None \notin Operators /\ None \notin Nat

VARIABLES unraid,     \* the install profile: "unraid", or Compose
          active,     \* api.env
          old, new,   \* api.env.reconfigure-old and -new, or None
          journal,    \* reconfigure.json, or None
          state,      \* state.json: config_fingerprint and the API's Id
          api,        \* the live API container [id, env], or None
          lastId,     \* Ids given out by Docker
          lock,       \* holder of the flock, or None
          pc,         \* next effect of each process
          mode,       \* the phase it is in
          target,     \* the environment it was asked for
          mine,       \* its copy of the journal
          result,     \* what its last run reported
          runs, faults

files == <<active, old, new, journal, state>>
procs == <<pc, mode, target, mine, result>>
vars == <<unraid, files, api, lastId, lock, procs, runs, faults>>

Fingerprints == {Fingerprint[e] : e \in Environments}
Modes == {"cutover", "rollback", "recover", "finish"}
Steps == {"recover", "load", "snapshot_old", "snapshot_new", "prepare", "mark", "remove",
          "write", "create", "probe", "verified", "save", "unlink_old", "unlink_new",
          "unlink_journal", "record_failure"}
Cleaning == {"unlink_old", "unlink_new", "unlink_journal"}
Status == {"prepared", "replacing", "verified", "rolling-back", "rollback-failed"}
Results == {"none", "ok", "busy", "refused", "rolled_back", "rollback_failed",
            "cleanup_failed"}

Journal == [status : Status, oldFp : Fingerprints, newFp : Fingerprints,
            old : Environments, new : Environments, oldApi : Nat, newApi : Nat \cup {None}]
Container == [id : Nat, env : Environments]

ASSUME NoneAssumption == None \notin Journal /\ None \notin Container

Init ==
    /\ unraid \in BOOLEAN
    /\ active \in Environments /\ old = None /\ new = None /\ journal = None
    /\ state = [fp |-> Fingerprint[active], api |-> 0]
    /\ api = [id |-> 0, env |-> active] /\ lastId = 0
    /\ lock = None
    /\ pc = [p \in Operators |-> "idle"] /\ mode = [p \in Operators |-> "cutover"]
    /\ target = [p \in Operators |-> active] /\ mine = [p \in Operators |-> None]
    /\ result = [p \in Operators |-> "none"]
    /\ runs = 0 /\ faults = 0

Go(p, step) == pc' = [pc EXCEPT ![p] = step]

\* The run ends, with a result or with an exception, and leaves the lock.
Leave(p, r) ==
    /\ Go(p, "idle") /\ lock' = None
    /\ mine' = [mine EXCEPT ![p] = None]
    /\ result' = [result EXCEPT ![p] = r]

Refuse(p) == Leave(p, "refused") /\ UNCHANGED <<unraid, files, api, lastId, mode, target, runs, faults>>

-----------------------------------------------------------------------------
\* OperationLock.__enter__: without waiting.
LockIgnored == TRUE                                     \* mutant: flock not taken
LockFree == lock = None

Begin(p, e) ==
    /\ pc[p] = "idle" /\ runs < MaxRuns
    /\ runs' = runs + 1
    /\ IF LockFree
         THEN /\ Go(p, "recover") /\ lock' = p
              /\ mode' = [mode EXCEPT ![p] = "recover"]
              /\ target' = [target EXCEPT ![p] = e]
              /\ result' = [result EXCEPT ![p] = "none"]
         ELSE /\ result' = [result EXCEPT ![p] = "busy"]
              /\ UNCHANGED <<pc, lock, mode, target>>
    /\ UNCHANGED <<unraid, files, api, lastId, mine, faults>>

\* _recover_if_needed, the checks before anything is changed: the journal
\* is of this plan and this state, and both snapshots are intact.
Evidence(e) ==
    /\ journal.newFp = Fingerprint[e]
    /\ state.fp \in {journal.oldFp, journal.newFp}
    /\ old = journal.old /\ new = journal.new

Committed ==
    /\ journal.status = "verified" /\ journal.newApi # None
    /\ state.api = journal.newApi
CommittedFor(e) == Committed /\ state.fp = Fingerprint[e]
Live(e) == api # None /\ api.id = journal.newApi /\ api.env = e
OldState == state.fp = journal.oldFp /\ state.api = journal.oldApi

Recoverable(e) == Evidence(e) /\ (IF CommittedFor(e) THEN Live(e) ELSE OldState)

Recover(p) ==
    /\ pc[p] = "recover"
    /\ IF journal = None
         THEN /\ Go(p, "load") /\ UNCHANGED <<mode, mine>>
         ELSE /\ Recoverable(target[p])
              /\ mine' = [mine EXCEPT ![p] = [journal EXCEPT !.status =
                             IF CommittedFor(target[p]) THEN @ ELSE "rolling-back"]]
              /\ mode' = [mode EXCEPT ![p] = IF CommittedFor(target[p]) THEN "finish" ELSE "recover"]
              /\ Go(p, IF CommittedFor(target[p]) THEN "probe" ELSE "mark")
    /\ UNCHANGED <<unraid, files, api, lastId, lock, target, result, runs, faults>>

NotRecoverable(p) ==
    /\ pc[p] = "recover" /\ journal # None /\ ~Recoverable(target[p])
    /\ Refuse(p)

\* _load_current: the live container is the one in the state file, runs the
\* active environment, and the target differs from it.
Current(p) == /\ journal = None
              /\ api # None /\ api.id = state.api /\ api.env = active
              /\ target[p] # active

Load(p) ==
    /\ pc[p] = "load" /\ Current(p)
    /\ mine' = [mine EXCEPT ![p] =
                  [status |-> "prepared", oldFp |-> state.fp, newFp |-> Fingerprint[target[p]],
                   old |-> active, new |-> target[p], oldApi |-> api.id, newApi |-> None]]
    /\ mode' = [mode EXCEPT ![p] = "cutover"]
    /\ Go(p, "snapshot_old")
    /\ UNCHANGED <<unraid, files, api, lastId, lock, target, result, runs, faults>>

NotCurrent(p) == pc[p] = "load" /\ ~Current(p) /\ Refuse(p)

SnapshotOld(p) ==
    /\ pc[p] = "snapshot_old"
    /\ old' = mine[p].old /\ Go(p, "snapshot_new")
    /\ UNCHANGED <<unraid, active, new, journal, state, api, lastId, lock, mode, target, mine, result, runs, faults>>

\* mutant: the journal is written before the second snapshot
SnapshotLate(p) ==
    /\ pc[p] = "snapshot_new"
    /\ journal' = mine[p] /\ Go(p, "prepare")
    /\ UNCHANGED <<unraid, active, old, new, state, api, lastId, lock, mode, target, mine, result, runs, faults>>

SnapshotNew(p) ==
    /\ pc[p] = "snapshot_new"
    /\ new' = mine[p].new /\ Go(p, "prepare")
    /\ UNCHANGED <<unraid, active, old, journal, state, api, lastId, lock, mode, target, mine, result, runs, faults>>

\* _save_journal, with the status that the phase sets before it.
SaveJournal(p, from, status, next) ==
    /\ pc[p] = from
    /\ mine' = [mine EXCEPT ![p].status = status]
    /\ journal' = mine'[p] /\ Go(p, next)
    /\ UNCHANGED <<unraid, active, old, new, state, api, lastId, lock, mode, target, result, runs, faults>>

Prepare(p) == SaveJournal(p, "prepare", "prepared", "mark")
Mark(p) == SaveJournal(p, "mark", IF mode[p] = "cutover" THEN "replacing" ELSE "rolling-back",
                       IF unraid THEN "remove" ELSE "write")

\* _remove_owned_api (Unraid only; Compose recreates the service in place).
Remove(p) ==
    /\ pc[p] = "remove"
    /\ api' = None /\ Go(p, "write")
    /\ UNCHANGED <<unraid, files, lastId, lock, mode, target, mine, result, runs, faults>>

Write(p) ==
    /\ pc[p] = "write"
    /\ active' = (IF mode[p] = "cutover" THEN mine[p].new ELSE mine[p].old)
    /\ Go(p, "create")
    /\ UNCHANGED <<unraid, old, new, journal, state, api, lastId, lock, mode, target, mine, result, runs, faults>>

\* _start_api: the container is made from the env file it is given.
Create(p) ==
    /\ pc[p] = "create"
    /\ api' = [id |-> lastId + 1, env |-> active] /\ lastId' = lastId + 1
    /\ Go(p, "probe")
    /\ UNCHANGED <<unraid, files, lock, mode, target, mine, result, runs, faults>>

\* wait_healthy, probe_providers and _verify_api; a failure is Raise.
Probe(p) ==
    /\ pc[p] = "probe"
    /\ mine' = IF mode[p] = "cutover" THEN [mine EXCEPT ![p].newApi = api.id] ELSE mine
    /\ Go(p, CASE mode[p] = "cutover" -> "verified"
               [] mode[p] = "finish"  -> "unlink_old"
               [] OTHER               -> "save")
    /\ UNCHANGED <<unraid, files, api, lastId, lock, mode, target, result, runs, faults>>

Verified(p) == SaveJournal(p, "verified", "verified", "save")

\* StateStore.save of the updated or of the restored state.
SavedStateNew(p) == [fp |-> mine[p].newFp, api |-> api.id]       \* mutant: also when it restores
SavedState(p) == [fp |-> IF mode[p] = "cutover" THEN mine[p].newFp ELSE mine[p].oldFp, api |-> api.id]

Save(p) ==
    /\ pc[p] = "save"
    /\ state' = SavedState(p) /\ Go(p, "unlink_old")
    /\ UNCHANGED <<unraid, active, old, new, journal, api, lastId, lock, mode, target, mine, result, runs, faults>>

\* _cleanup: the snapshots, then the journal.
UnlinkOld(p) ==
    /\ pc[p] = "unlink_old"
    /\ old' = None /\ Go(p, "unlink_new")
    /\ UNCHANGED <<unraid, active, new, journal, state, api, lastId, lock, mode, target, mine, result, runs, faults>>

UnlinkNew(p) ==
    /\ pc[p] = "unlink_new"
    /\ new' = None /\ Go(p, "unlink_journal")
    /\ UNCHANGED <<unraid, active, old, journal, state, api, lastId, lock, mode, target, mine, result, runs, faults>>

UnlinkJournal(p) ==
    /\ pc[p] = "unlink_journal"
    /\ journal' = None
    /\ IF mode[p] = "recover"
         THEN Go(p, "load") /\ UNCHANGED <<lock, mine, result>>
         ELSE Leave(p, IF mode[p] = "rollback" THEN "rolled_back" ELSE "ok")
    /\ UNCHANGED <<unraid, active, old, new, state, api, lastId, mode, target, runs, faults>>

-----------------------------------------------------------------------------
\* The except clauses of reconfigure.  What raises inside the try before the
\* commit starts the rollback; what raises in the rollback records its
\* failure; elsewhere the exception ends the run.
\* mutant: the journal keeps its status
StartRollbackUnmarked(p) ==
    /\ mode' = [mode EXCEPT ![p] = "rollback"] /\ Go(p, IF unraid THEN "remove" ELSE "write")
    /\ UNCHANGED <<lock, mine, result>>

StartRollback(p) ==
    /\ mode' = [mode EXCEPT ![p] = "rollback"] /\ Go(p, "mark")
    /\ UNCHANGED <<lock, mine, result>>

InTry(p) == mode[p] = "cutover" /\ pc[p] \in {"mark", "remove", "write", "create", "probe", "verified", "save"}

Handle(p) ==
    \/ InTry(p) /\ StartRollback(p)
    \/ mode[p] = "cutover" /\ pc[p] \in Cleaning
       /\ Leave(p, "cleanup_failed") /\ UNCHANGED mode
    \/ mode[p] = "rollback" /\ pc[p] # "record_failure"
       /\ Go(p, "record_failure") /\ UNCHANGED <<lock, mode, mine, result>>
    \/ ~InTry(p) /\ mode[p] # "rollback" /\ ~(mode[p] = "cutover" /\ pc[p] \in Cleaning)
       /\ Leave(p, "refused") /\ UNCHANGED mode
    \/ pc[p] = "record_failure" /\ Leave(p, "rollback_failed") /\ UNCHANGED mode

\* A step raises before it has an effect; StateStore.save may also raise
\* after it has replaced the file, before "committed" is set.
Raise(p) ==
    /\ pc[p] # "idle" /\ faults < MaxFaults
    /\ faults' = faults + 1
    /\ Handle(p)
    /\ state' \in {state} \cup {SavedState(q) : q \in {r \in {p} : pc[r] = "save"}}
    /\ UNCHANGED <<unraid, active, old, new, journal, api, lastId, target, runs>>

RecordFailure(p) ==
    /\ pc[p] = "record_failure"
    /\ journal' = [mine[p] EXCEPT !.status = "rollback-failed"]
    /\ Leave(p, "rollback_failed")
    /\ UNCHANGED <<unraid, active, old, new, state, api, lastId, mode, target, runs, faults>>

\* The process or the host stops: the kernel drops the lock.
Crash(p) ==
    /\ pc[p] # "idle" /\ faults < MaxFaults
    /\ faults' = faults + 1
    /\ Leave(p, "none")
    /\ UNCHANGED <<unraid, files, api, lastId, mode, target, runs>>

Step(p) ==
    \/ Recover(p) \/ NotRecoverable(p) \/ Load(p) \/ NotCurrent(p)
    \/ SnapshotOld(p) \/ SnapshotNew(p) \/ Prepare(p) \/ Mark(p) \/ Remove(p)
    \/ Write(p) \/ Create(p) \/ Probe(p) \/ Verified(p) \/ Save(p)
    \/ UnlinkOld(p) \/ UnlinkNew(p) \/ UnlinkJournal(p) \/ RecordFailure(p)

Next == \E p \in Operators :
            \/ \E e \in Environments : Begin(p, e)
            \/ Step(p) \/ Raise(p) \/ Crash(p)

Spec == Init /\ [][Next]_vars

-----------------------------------------------------------------------------
TypeOK ==
    /\ unraid \in BOOLEAN
    /\ active \in Environments
    /\ old \in Environments \cup {None} /\ new \in Environments \cup {None}
    /\ journal \in Journal \cup {None}
    /\ state \in [fp : Fingerprints, api : Nat]
    /\ api \in Container \cup {None}
    /\ lastId \in Nat
    /\ lock \in Operators \cup {None}
    /\ pc \in [Operators -> Steps \cup {"idle"}] /\ mode \in [Operators -> Modes]
    /\ target \in [Operators -> Environments]
    /\ mine \in [Operators -> Journal \cup {None}]
    /\ result \in [Operators -> Results]
    /\ runs \in 0 .. MaxRuns /\ faults \in 0 .. MaxFaults

\* While no journal exists, the container, api.env and state.json belong to
\* one generation, whatever was killed or raised before: reconfigure can tell
\* from the journal alone that nothing is in progress.
NoJournalMeansWhole ==
    journal = None => /\ api # None
                      /\ api.id = state.api /\ api.env = active
                      /\ state.fp = Fingerprint[active]

\* _recover_if_needed: as long as state.json still names the old container,
\* the journal and both snapshots hold what it takes to restore it.
OldStateIsRestorable ==
    journal # None /\ state.api = journal.oldApi =>
        state.fp = journal.oldFp /\ old = journal.old /\ new = journal.new

\* A journal that is "verified" beside a state that names its container is a
\* commit: the new environment is in place and running, so that a recovery
\* may only finish it.
CommittedIsLive ==
    journal # None => (Committed =>
        /\ Live(journal.new) /\ active = journal.new /\ state.fp = journal.newFp)

\* What a run reports is what it leaves: success means that the environment
\* asked for is running and published, "rolled_back" that the previous one
\* is, both without a journal.
ReportsAreTrue ==
    [][ \A p \in Operators : pc[p] # "idle" /\ pc'[p] = "idle" =>
          LET runsOn(e) == /\ active' = e /\ api' = [id |-> state'.api, env |-> e]
                           /\ state'.fp = Fingerprint[e]
          IN  /\ result'[p] = "ok" => runsOn(target[p]) /\ journal' = None
              /\ result'[p] = "rolled_back" => runsOn(mine[p].old) /\ journal' = None
              /\ result'[p] = "cleanup_failed" => runsOn(target[p]) ]_vars

\* OperationLock: a change of the files or of the container is made by the
\* process that holds the lock.
OnlyHolderWrites ==
    [][ <<files, api>>' # <<files, api>> =>
          \E p \in Operators : lock = p /\ \A q \in Operators \ {p} : pc[q] = "idle" ]_vars

\* docs/operations/lifecycle.md: "If the process or host stops mid-cutover,
\* rerun the same confirmed command: it validates the journal, restores the
\* old role and then performs a fresh transaction."
RerunRecovers == lock = None /\ journal # None => Recoverable(journal.new)
=============================================================================
