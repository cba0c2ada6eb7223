----------------------------- MODULE StateStore ------------------------------
(***************************************************************************)
(* The durable evidence of btctl (btctl_core.py): state.json, install-     *)
(* attempt.json and the history of finished states, as StateStore,         *)
(* InstallAttemptStore and the hub's HubStateStore (btctl_hub.py) write    *)
(* them to a file system whose directory entries survive a power loss only *)
(* once the directory was synced. A command holds OperationLock, so one    *)
(* operation runs at a time; it may raise or be killed between any two     *)
(* system calls.                                                           *)
(*                                                                         *)
(* Files, the temporary one apart, are names of Registers; a finished      *)
(* state is its own name in the history directory.  Ownership and modes    *)
(* are never wrong here and are left out.                                  *)
(***************************************************************************)
EXTENDS Naturals

CONSTANTS States,      \* contents of state.json
          Final,       \* those with status uninstalled or rolled_back
          Attempts,    \* contents of install-attempt.json
          Torn,        \* contents of a file that is not written yet
          MaxOps, MaxFaults,   \* bounds
          None

Files == {"state.json", "install-attempt.json"}

ASSUME ContentsAssumption ==
    /\ Final \subseteq States /\ Torn \notin States \cup Attempts /\ None \notin States \cup Attempts
    /\ Final \cap Files = {}
ASSUME BoundsAssumption == MaxOps \in Nat /\ MaxFaults \in Nat

Registers == Files \cup Final
Contents == States \cup Attempts
Dirs == {"state_dir", "history"}
DirOf(f) == IF f \in Files THEN "state_dir" ELSE "history"
HomesOf(f) == {"state_dir", DirOf(f)}     \* the history is a directory in state_dir

SaveLabels == {"make_state_dir", "publish_state_dir", "ensure", "replace", "sync", "read_back"}
RemoveLabels == {"unlink", "sync_removal"}
ArchiveLabels == {"make_history", "publish_history", "ensure_history", "look", "link", "sync_history"}
StoreLabels == SaveLabels \cup RemoveLabels \cup ArchiveLabels \cup {"mkstemp", "write"}
Operation == [pc : StoreLabels, f : Registers, v : Contents \cup {None}]
ASSUME NoneAssumption == None \notin Operation

VARIABLES vis,      \* what each name refers to now, or None
          disk,     \* what it may refer to on the disk
          dir,      \* directories that exist
          kept,     \* directories whose own entry is on the disk
          litter,   \* a temporary file of an interrupted save is in state_dir
          temp,     \* the contents of the temporary file, or None
          op,       \* the running operation, or None
          orphans,  \* directories left by an interrupted creation, or lost after one
                    \* (history variable)
          done,     \* the last operation that returned (history variable)
          ops, storeFaults

files == <<vis, disk, dir, kept, litter>>
storeVars == <<files, temp, op, orphans, done, ops, storeFaults>>

\* Nothing is there, or the state of an installation that has ended.
StoreInit ==
    /\ \E v \in Final \cup {None} :
         /\ vis = [f \in Registers |-> IF f = "state.json" THEN v ELSE None]
         /\ dir = IF v = None THEN {} ELSE {"state_dir"}
    /\ disk = [f \in Registers |-> {vis[f]}] /\ kept = dir /\ litter = FALSE
    /\ temp = None /\ op = None /\ orphans = {} /\ done = None
    /\ ops = 0 /\ storeFaults = 0

OpAt(pc) == op # None /\ op.pc = pc
GoTo(pc) == op' = [op EXCEPT !.pc = pc]
Begin(f, v, pc) == /\ op = None /\ ops < MaxOps /\ ops' = ops + 1
                   /\ op' = [pc |-> pc, f |-> f, v |-> v]
Returns == op' = None /\ done' = [f |-> op.f, v |-> op.v]

\* A name refers to v; the disk may follow at any time.
Names(f, v) == vis' = [vis EXCEPT ![f] = v] /\ disk' = [disk EXCEPT ![f] = @ \cup {v}]

\* _fsync_directory.  Syncing state_dir also settles the entry of history.
Synced(d) == [f \in Registers |-> IF DirOf(f) = d THEN {vis[f]} ELSE disk[f]]
FsyncDirectory(d) ==
    /\ disk' = Synced(d)
    /\ kept' = IF d = "state_dir" THEN kept \cup (dir \cap {"history"}) ELSE kept
    /\ orphans' = IF d = "state_dir" THEN orphans \ {"history"} ELSE orphans

-----------------------------------------------------------------------------
(* StateStore.save and InstallAttemptStore.save *)

\* _validate_destination: a directory without state.json holds known names only.
Valid == "state_dir" \notin dir \/ vis["state.json"] # None \/ ~litter

StartSave(f, v) ==
    /\ Begin(f, v, IF "state_dir" \in dir THEN "ensure" ELSE "make_state_dir")
    /\ UNCHANGED <<files, temp, orphans, done, storeFaults>>

Save(f, v) == Valid /\ StartSave(f, v)

\* HubStateStore.save: the same calls, but the directory is not checked.
HubSave(v) == StartSave("state.json", v)

\* ensure_directory_durable: a directory that is missing is made, synced, and
\* its parent synced; one that exists is only synced itself.
MakeStateDir ==
    /\ OpAt("make_state_dir") /\ GoTo("publish_state_dir")
    /\ dir' = dir \cup {"state_dir"}
    /\ UNCHANGED <<vis, disk, kept, litter, temp, orphans, done, ops, storeFaults>>

PublishStateDir ==
    /\ OpAt("publish_state_dir") /\ GoTo("mkstemp")
    /\ kept' = kept \cup {"state_dir"} /\ orphans' = orphans \ {"state_dir"}
    /\ UNCHANGED <<vis, disk, dir, litter, temp, done, ops, storeFaults>>

EnsureStateDir ==
    /\ OpAt("ensure") /\ GoTo("mkstemp")
    /\ FsyncDirectory("state_dir")
    /\ UNCHANGED <<vis, dir, litter, temp, done, ops, storeFaults>>

Mkstemp ==
    /\ OpAt("mkstemp") /\ GoTo("write") /\ temp' = Torn
    /\ UNCHANGED <<files, orphans, done, ops, storeFaults>>

\* The text is written and the file synced.
Write ==
    /\ OpAt("write") /\ GoTo(IF op.f \in Files THEN "replace" ELSE "link") /\ temp' = op.v
    /\ UNCHANGED <<files, orphans, done, ops, storeFaults>>

Replace ==
    /\ OpAt("replace") /\ GoTo("sync")
    /\ Names(op.f, temp) /\ temp' = None
    /\ UNCHANGED <<dir, kept, litter, orphans, done, ops, storeFaults>>

SyncSkipped ==                           \* mutant: the directory is not synced
    /\ OpAt("sync") /\ GoTo("read_back")
    /\ UNCHANGED <<files, temp, orphans, done, ops, storeFaults>>

Sync ==
    /\ OpAt("sync") /\ GoTo("read_back")
    /\ FsyncDirectory("state_dir")
    /\ UNCHANGED <<vis, dir, litter, temp, done, ops, storeFaults>>

\* load, and the comparison with what was to be saved.
ReadBack ==
    /\ OpAt("read_back") /\ vis[op.f] = op.v /\ Returns
    /\ UNCHANGED <<files, temp, orphans, ops, storeFaults>>

-----------------------------------------------------------------------------
(* InstallAttemptStore.remove *)

Remove ==
    /\ vis["install-attempt.json"] \in Attempts
    /\ Begin("install-attempt.json", None, "unlink")
    /\ UNCHANGED <<files, temp, orphans, done, storeFaults>>

Unlink ==
    /\ OpAt("unlink") /\ GoTo("sync_removal")
    /\ Names(op.f, None)
    /\ UNCHANGED <<dir, kept, litter, temp, orphans, done, ops, storeFaults>>

SyncRemoval ==
    /\ OpAt("sync_removal") /\ Returns
    /\ FsyncDirectory("state_dir")
    /\ UNCHANGED <<vis, dir, litter, temp, ops, storeFaults>>

-----------------------------------------------------------------------------
(* StateStore.archive *)

Archive(v) ==
    /\ vis["state.json"] = v
    /\ Begin(v, v, IF "history" \in dir THEN "ensure_history" ELSE "make_history")
    /\ UNCHANGED <<files, temp, orphans, done, storeFaults>>

MakeHistory ==
    /\ OpAt("make_history") /\ GoTo("publish_history")
    /\ dir' = dir \cup {"history"}
    /\ UNCHANGED <<vis, disk, kept, litter, temp, orphans, done, ops, storeFaults>>

PublishHistory ==
    /\ OpAt("publish_history") /\ GoTo("look")
    /\ FsyncDirectory("state_dir")
    /\ UNCHANGED <<vis, dir, litter, temp, done, ops, storeFaults>>

EnsureHistory ==
    /\ OpAt("ensure_history") /\ GoTo("look")
    /\ FsyncDirectory("history")
    /\ UNCHANGED <<vis, dir, litter, temp, done, ops, storeFaults>>

\* An entry that is there must be the same; it is not written again.
Look ==
    /\ OpAt("look")
    /\ \/ vis[op.f] = None /\ GoTo("mkstemp") /\ UNCHANGED done
       \/ vis[op.f] = op.v /\ Returns
    /\ UNCHANGED <<files, temp, orphans, ops, storeFaults>>

\* os.link: a second name for the temporary file, never over an entry.
Link ==
    /\ OpAt("link") /\ GoTo("sync_history")
    /\ Names(op.f, temp)
    /\ UNCHANGED <<dir, kept, litter, temp, orphans, done, ops, storeFaults>>

\* The sync, and the removal of the temporary name.
SyncHistory ==
    /\ OpAt("sync_history") /\ Returns /\ temp' = None
    /\ FsyncDirectory("history")
    /\ UNCHANGED <<vis, dir, litter, ops, storeFaults>>

-----------------------------------------------------------------------------
(* faults *)

Fault == storeFaults < MaxFaults /\ storeFaults' = storeFaults + 1

Orphaned ==
    orphans \cup (IF OpAt("publish_state_dir") THEN {"state_dir"} ELSE {})
            \cup (IF OpAt("publish_history") THEN {"history"} ELSE {})

\* A system call raises: the handlers remove the temporary file.
StoreRaise ==
    /\ op # None /\ Fault /\ op' = None /\ temp' = None
    /\ orphans' = Orphaned
    /\ UNCHANGED <<files, done, ops>>

\* The command is killed: a temporary file stays.
StoreKill ==
    /\ op # None /\ Fault /\ op' = None /\ temp' = None
    /\ litter' = (litter \/ (temp # None /\ op.f \in Files))
    /\ orphans' = Orphaned
    /\ UNCHANGED <<vis, disk, dir, kept, done, ops>>

\* A directory whose entry is not on the disk may go with all that is in it,
\* and each unsynced name may be as before or as after.
StorePowerLoss ==
    /\ Fault /\ op' = None /\ temp' = None /\ UNCHANGED <<done, ops>>
    /\ \E lost \in SUBSET (dir \ kept) :
         /\ dir' = dir \ (IF "state_dir" \in lost THEN Dirs ELSE lost)
         /\ vis' \in { w \in [Registers -> Contents \cup {None, Torn}] :
                         \A f \in Registers : w[f] \in IF HomesOf(f) \subseteq dir' THEN disk[f]
                                                                                  ELSE {None} }
    /\ disk' = [f \in Registers |-> {vis'[f]}] /\ kept' = dir' /\ orphans' = orphans \ dir'
    /\ litter' \in IF "state_dir" \notin dir' THEN {FALSE}
                   ELSE IF litter \/ (temp # None /\ op.f \in Files) THEN BOOLEAN ELSE {FALSE}

StoreOp ==
    \/ \E v \in States : Save("state.json", v) \/ HubSave(v)
    \/ \E v \in Attempts : Save("install-attempt.json", v)
    \/ \E v \in Final : Archive(v)
    \/ Remove

StoreStep ==
    \/ MakeStateDir \/ PublishStateDir \/ EnsureStateDir \/ Mkstemp \/ Write \/ Replace \/ Sync \/ ReadBack
    \/ Unlink \/ SyncRemoval
    \/ MakeHistory \/ PublishHistory \/ EnsureHistory \/ Look \/ Link \/ SyncHistory

StoreNext == StoreOp \/ StoreStep \/ StoreRaise \/ StoreKill

StoreSpec == StoreInit /\ [][StoreNext \/ StorePowerLoss]_storeVars

-----------------------------------------------------------------------------
StoreTypeOK ==
    /\ vis \in [Registers -> Contents \cup {None, Torn}] /\ disk \in [Registers -> SUBSET (Contents \cup {None, Torn})]
    /\ kept \subseteq dir /\ dir \subseteq Dirs /\ orphans \subseteq Dirs
    /\ op \in Operation \cup {None} /\ litter \in BOOLEAN /\ temp \in Contents \cup {Torn, None}
    /\ ops \in 0 .. MaxOps /\ storeFaults \in 0 .. MaxFaults

May(f) == disk[f] \cup (IF HomesOf(f) \cap dir \subseteq kept THEN {} ELSE {None})

Evidence == INSTANCE EvidenceStore
              WITH Once <- Final, Values <- Contents, Homes <- Dirs,
                   reg <- vis, may <- [f \in Registers |-> May(f)]

\* StateStore and InstallAttemptStore implement EvidenceStore: readers of the
\* three kinds of files find an old or a new document and never a torn one,
\* and a save, removal or archive that returned is not undone by a power loss,
\* whatever was interrupted before it.
Durable == Evidence!Spec

\* btctl_core.py ensure_directory_durable: "Create a directory tree and durably
\* publish every new path entry."
NoOrphans == done # None => HomesOf(done.f) \cap orphans = {}

\* _validate_destination: after an interruption evidence can be saved again.
SaveStaysPossible == op = None => Valid
=============================================================================
