----------------------------- MODULE HostProofs ------------------------------
(***************************************************************************)
(* Proofs about Host for every number of commands, faults, readers and     *)
(* workers: the credential (CleanupToken), the evidence (StateStore as an  *)
(* implementation of EvidenceStore) and the container that is never up     *)
(* without evidence of it.                                                 *)
(***************************************************************************)
EXTENDS Host, FiniteSetTheorems, TLAPS

-----------------------------------------------------------------------------
(* CleanupToken.  The flock keeps the look at the file and the replacement  *)
(* together; what was given is what the file holds, and what its maker      *)
(* returned is all the disk can hold.                                       *)

TokenInv ==
    /\ token \in Nat /\ lastToken \in Nat
    /\ flock \in Workers \cup {"free"}
    /\ asks \in [Workers -> {"idle", "flock", "look", "replace", "sync"}]
    /\ \A w \in Workers : asks[w] \in {"look", "replace", "sync"} => flock = w
    /\ \A w \in Workers : asks[w] = "replace" => token = 0
    /\ \A w \in Workers : asks[w] = "sync" => token # 0
    /\ tokenDisk \subseteq Nat
    /\ given \cup sworn \subseteq {token}
    /\ token = 0 => given \cup sworn = {}
    /\ sworn # {} => tokenDisk = {token}

LEMMA TokenInvInit == TokenInit => TokenInv
BY DEF TokenInit, TokenInv

LEMMA TokenStepInv ==
    ASSUME TokenInv, NEW w \in Workers, TokenStep(w) \/ TokenFails(w)
    PROVE  TokenInv'
<1>1. CASE Ask(w)
  BY <1>1 DEF Ask, TokenInv
<1>2. CASE Flock(w)
  BY <1>2, TokenAssumption DEF Flock, TokenInv
<1>3. CASE LookToken(w)
  BY <1>3 DEF LookToken, Given, TokenInv
<1>4. CASE ReplaceToken(w)
  BY <1>4 DEF ReplaceToken, TokenInv
<1>5. CASE SyncToken(w)
  BY <1>5 DEF SyncToken, Given, TokenInv
<1>6. CASE TokenRaises(w)
  BY <1>6 DEF TokenRaises, TokenInv
<1>7. CASE WorkerDies(w)
  BY <1>7 DEF WorkerDies, TokenInv
<1> QED
  BY <1>1, <1>2, <1>3, <1>4, <1>5, <1>6, <1>7 DEF TokenStep, TokenFails

LEMMA TokenHostInv ==
    ASSUME TokenInv, WorkersGone \/ TokenPowerLoss \/ UNCHANGED tokenVars
    PROVE  TokenInv'
<1>1. CASE WorkersGone
  BY <1>1 DEF WorkersGone, TokenInv
<1>2. CASE TokenPowerLoss
  BY <1>2 DEF TokenPowerLoss, TokenInv
<1>3. CASE UNCHANGED tokenVars
  BY <1>3 DEF tokenVars, TokenInv
<1> QED
  BY <1>1, <1>2, <1>3

LEMMA TokenNext == TokenInv /\ [Next]_vars => TokenInv'
<1> SUFFICES ASSUME TokenInv, [Next]_vars PROVE TokenInv'
  OBVIOUS
<1>1. CASE WorkerMoves
  BY <1>1, TokenStepInv DEF WorkerMoves
<1>2. CASE HubMoves
  BY <1>2, TokenHostInv DEF HubMoves
<1>3. CASE PowerLoss
  BY <1>3, TokenHostInv DEF PowerLoss
<1>4. CASE UNCHANGED tokenVars
  BY <1>4, TokenHostInv
<1> QED
  BY <1>1, <1>2, <1>3, <1>4 DEF Next, vars, Install, Uninstall, Open, Refused, Up, WaitHealthy,
     StopContainer, ContainerGone, StoreMoves, CommandRaises, CommandKilled

\* _get_cleanup_token: one credential, whichever worker made it and whatever
\* failed before, during or after.
THEOREM OneCredential == Spec => []OneToken
<1>1. Init => TokenInv
  BY TokenInvInit DEF Init
<1>2. TokenInv => OneToken
  <2> SUFFICES ASSUME TokenInv PROVE Cardinality(given \cup sworn) <= 1
    BY DEF OneToken
  <2>1. IsFiniteSet({token}) /\ Cardinality({token}) = 1
    BY FS_Singleton
  <2>2. given \cup sworn \in SUBSET {token}
    BY DEF TokenInv
  <2>3. Cardinality(given \cup sworn) <= Cardinality({token})
    BY <2>1, <2>2, FS_Subset
  <2> QED
    BY <2>1, <2>3
<1> QED
  BY <1>1, <1>2, TokenNext, PTL DEF Spec
-----------------------------------------------------------------------------
(* StateStore implements EvidenceStore. *)

Pending == (IF OpAt("publish_state_dir") THEN {"state_dir"} ELSE {})
           \cup (IF OpAt("publish_history") THEN {"history"} ELSE {})

\* No name ever refers to a torn file, the disk may hold what a name refers to,
\* nothing is kept in a directory that is not there, and a directory that a
\* power loss may take is an orphan unless its creation is under way.
FilesOK ==
    /\ vis \in [Registers -> Contents \cup {None}]
    /\ disk \in [Registers -> SUBSET (Contents \cup {None})]
    /\ kept \subseteq dir /\ dir \subseteq Dirs /\ orphans \subseteq Dirs
    /\ \A f \in Registers : vis[f] \in disk[f]
    /\ \A f \in Registers : ~(HomesOf(f) \subseteq dir) => vis[f] = None /\ disk[f] = {None}
    /\ dir \ kept \subseteq orphans \cup Pending

\* What an operation may rely on at each of its labels.
PhaseOK(o) ==
    /\ o.pc \in SaveLabels => o.f \in Files /\ o.v \in Contents
    /\ o.pc \in RemoveLabels => o.f \in Files /\ o.v = None
    /\ o.pc \in ArchiveLabels => o.f \in Final /\ o.v \in Contents
    /\ o.pc \in {"mkstemp", "write"} => o.v \in Contents /\ (o.f \in Final => vis[o.f] = None)
    /\ "state_dir" \in dir <=> o.pc # "make_state_dir"
    /\ o.f \in Final => ("history" \in dir <=> o.pc # "make_history")
    /\ o.pc = "publish_state_dir" => \A f \in Files : vis[f] = None
    /\ o.pc \in {"publish_history", "look"} => \A f \in Final : disk[f] = {vis[f]}
    /\ o.pc \in {"replace", "link"} => temp = o.v
    /\ o.pc \in {"link", "sync_removal"} => vis[o.f] = None
    /\ o.pc = "sync_history" => vis[o.f] = o.v
    /\ o.pc = "read_back" => disk[o.f] = {vis[o.f]}

StoreInv == FilesOK /\ (op # None => op \in Operation /\ PhaseOK(op))

EvidenceStep == [Evidence!Next]_(Evidence!vars)

\* Nothing a reader, a power loss or a caller can see.
SameEvidence == UNCHANGED <<vis, disk, dir, kept, orphans, done>>

LEMMA SameIsStutter == SameEvidence => EvidenceStep
BY DEF SameEvidence, EvidenceStep, Evidence!vars, May

LEMMA GoToDoes ==
    ASSUME op \in Operation, NEW l \in StoreLabels, GoTo(l)
    PROVE  op' \in Operation /\ op' # None /\ op'.pc = l /\ op'.f = op.f /\ op'.v = op.v
<1>1. op' \in Operation /\ op'.pc = l /\ op'.f = op.f /\ op'.v = op.v
  BY DEF GoTo, Operation
<1> QED
  BY <1>1, NoneAssumption

\* _fsync_directory makes more certain and nothing else.
LEMMA Settles ==
    ASSUME FilesOK, vis' = vis, dir' = dir, kept \subseteq kept', orphans' \subseteq orphans,
           \A f \in Registers : disk'[f] \subseteq disk[f] /\ vis[f] \in disk'[f]
    PROVE  Evidence!Settled
<1>1. ASSUME NEW f \in Registers
      PROVE  May(f)' \subseteq May(f) /\ vis[f] \in May(f)'
  BY DEF May
<1> QED
  BY <1>1 DEF Evidence!Settled

\* What a directory sync leaves, for the files and for what the operation knows.
Fsynced(d) ==
    /\ vis' = vis /\ dir' = dir /\ kept \subseteq kept' /\ kept' \subseteq dir
    /\ orphans' \subseteq orphans /\ orphans \ orphans' \subseteq kept' \cup (Dirs \ dir)
    /\ disk' \in [Registers -> SUBSET (Contents \cup {None})]
    /\ \A f \in Registers : disk'[f] = {vis[f]} \/ (disk'[f] = disk[f] /\ DirOf(f) # d)

LEMMA FsyncDoes ==
    ASSUME FilesOK, NEW d \in Dirs, FsyncDirectory(d), vis' = vis, dir' = dir
    PROVE  Fsynced(d) /\ (d = "state_dir" => dir' \ kept' \subseteq {"state_dir"})
BY DEF FilesOK, FsyncDirectory, Synced, Fsynced, Dirs

LEMMA FsyncSettles ==
    ASSUME FilesOK, NEW d, Fsynced(d)
    PROVE  Evidence!Settled
<1>1. \A f \in Registers : disk'[f] \subseteq disk[f] /\ vis[f] \in disk'[f]
  BY DEF FilesOK, Fsynced
<1> QED
  BY <1>1, Settles DEF Fsynced

LEMMA FsyncFiles ==
    ASSUME FilesOK, NEW d, Fsynced(d), Pending \subseteq Pending' \cup kept'
    PROVE  FilesOK'
BY DEF FilesOK, Fsynced, HomesOf, DirOf

LEMMA BeginDoes ==
    ASSUME NEW f \in Registers, NEW v \in Contents \cup {None}, NEW l \in StoreLabels, Begin(f, v, l)
    PROVE  op' \in Operation /\ op' # None /\ op'.pc = l /\ op'.f = f /\ op'.v = v
<1>1. op' \in Operation /\ op'.pc = l /\ op'.f = f /\ op'.v = v
  BY DEF Begin, Operation
<1> QED
  BY <1>1, NoneAssumption

LEMMA StartInv ==
    ASSUME StoreInv,
           \/ \E f \in Files, v \in Contents : StartSave(f, v)
           \/ Remove
           \/ \E v \in Final : Archive(v)
    PROVE  StoreInv' /\ SameEvidence
<1> USE DEF StoreLabels, SaveLabels, RemoveLabels, ArchiveLabels
<1>1. ASSUME NEW f \in Files, NEW v \in Contents, StartSave(f, v) PROVE StoreInv' /\ SameEvidence
  <2> DEFINE l == IF "state_dir" \in dir THEN "ensure" ELSE "make_state_dir"
  <2>1. Begin(f, v, l) /\ UNCHANGED <<files, temp, orphans, done>> /\ op = None
    BY <1>1 DEF StartSave, Begin
  <2>2. op' \in Operation /\ op' # None /\ op'.pc = l /\ op'.f = f /\ op'.v = v
    BY <2>1, BeginDoes DEF Registers
  <2>3. FilesOK'
    BY <2>1, <2>2 DEF StoreInv, FilesOK, files, Pending, OpAt
  <2>4. PhaseOK(op)'
    BY <2>1, <2>2, ContentsAssumption DEF PhaseOK, files
  <2> QED
    BY <2>1, <2>2, <2>3, <2>4 DEF StoreInv, SameEvidence, files
<1>2. ASSUME Remove PROVE StoreInv' /\ SameEvidence
  <2> DEFINE f == "install-attempt.json"
  <2>1. Begin(f, None, "unlink") /\ UNCHANGED <<files, temp, orphans, done>> /\ op = None
    BY <1>2 DEF Remove, Begin
  <2>2. op' \in Operation /\ op' # None /\ op'.pc = "unlink" /\ op'.f = f /\ op'.v = None
    BY <2>1, BeginDoes DEF Registers, Files
  <2>3. FilesOK'
    BY <2>1, <2>2 DEF StoreInv, FilesOK, files, Pending, OpAt
  <2>4. "state_dir" \in dir
    BY <1>2, ContentsAssumption DEF Remove, StoreInv, FilesOK, HomesOf, DirOf, Registers, Files
  <2>5. PhaseOK(op)'
    BY <2>1, <2>2, <2>4, ContentsAssumption DEF PhaseOK, files, Files
  <2> QED
    BY <2>1, <2>2, <2>3, <2>5 DEF StoreInv, SameEvidence, files
<1>3. ASSUME NEW v \in Final, Archive(v) PROVE StoreInv' /\ SameEvidence
  <2> DEFINE l == IF "history" \in dir THEN "ensure_history" ELSE "make_history"
  <2>1. Begin(v, v, l) /\ UNCHANGED <<files, temp, orphans, done>> /\ op = None
    BY <1>3 DEF Archive, Begin
  <2>2. op' \in Operation /\ op' # None /\ op'.pc = l /\ op'.f = v /\ op'.v = v
    BY <2>1, BeginDoes, ContentsAssumption DEF Registers, Contents
  <2>3. FilesOK'
    BY <2>1, <2>2 DEF StoreInv, FilesOK, files, Pending, OpAt
  <2>4. "state_dir" \in dir
    BY <1>3, ContentsAssumption DEF Archive, StoreInv, FilesOK, HomesOf, DirOf, Registers, Files
  <2>5. PhaseOK(op)'
    BY <2>1, <2>2, <2>4, ContentsAssumption DEF PhaseOK, files, Contents
  <2> QED
    BY <2>1, <2>2, <2>3, <2>5 DEF StoreInv, SameEvidence, files
<1> QED
  BY <1>1, <1>2, <1>3

\* Calls that change no name and no directory.
LEMMA QuietCalls ==
    ASSUME StoreInv, Mkstemp \/ Write
    PROVE  StoreInv' /\ SameEvidence
<1> USE DEF StoreLabels, SaveLabels, RemoveLabels, ArchiveLabels
<1>1. op # None /\ op \in Operation /\ PhaseOK(op) /\ FilesOK
      /\ UNCHANGED <<files, orphans, done>>
  BY DEF StoreInv, Mkstemp, Write, OpAt
<1>2. CASE Mkstemp
  <2>1. op.pc = "mkstemp" /\ GoTo("write")
    BY <1>2 DEF Mkstemp, OpAt
  <2>2. op' \in Operation /\ op' # None /\ op'.pc = "write" /\ op'.f = op.f /\ op'.v = op.v
    BY <1>1, <2>1, GoToDoes
  <2>3. FilesOK' /\ PhaseOK(op)'
    BY <1>1, <2>1, <2>2 DEF FilesOK, PhaseOK, files, Pending, OpAt
  <2> QED
    BY <1>1, <2>2, <2>3 DEF StoreInv, SameEvidence, files
<1>3. CASE Write
  <2> DEFINE l == IF op.f \in Files THEN "replace" ELSE "link"
  <2>1. op.pc = "write" /\ GoTo(l) /\ temp' = op.v
    BY <1>3 DEF Write, OpAt
  <2>2. op' \in Operation /\ op' # None /\ op'.pc = l /\ op'.f = op.f /\ op'.v = op.v
    BY <1>1, <2>1, GoToDoes
  <2>3. FilesOK'
    BY <1>1, <2>1, <2>2 DEF FilesOK, files, Pending, OpAt
  <2>4. op.f \in Files \cup Final
    BY <1>1 DEF Operation, Registers
  <2>5. PhaseOK(op)'
    BY <1>1, <2>1, <2>2, <2>4 DEF PhaseOK, files
  <2> QED
    BY <1>1, <2>2, <2>3, <2>5 DEF StoreInv, SameEvidence, files
<1> QED
  BY <1>2, <1>3

\* A name that changes: os.replace, os.unlink and os.link.
LEMMA NamesDoes ==
    ASSUME FilesOK, NEW f \in Registers, NEW v \in Contents \cup {None}, Names(f, v),
           UNCHANGED <<dir, kept, orphans, done>>, HomesOf(f) \subseteq dir,
           f \in Final => vis[f] = None, ~OpAt("publish_state_dir"), ~OpAt("publish_history")
    PROVE  FilesOK' /\ EvidenceStep /\ vis'[f] = v
<1>1. FilesOK' /\ vis'[f] = v
  BY DEF FilesOK, Names, Pending
<1>2. ASSUME NEW g \in Registers
      PROVE  May(g)' = IF g = f THEN May(g) \cup {v} ELSE May(g)
  BY DEF May, FilesOK, Names
<1>3. [g \in Registers |-> May(g)]'
        = [[g \in Registers |-> May(g)] EXCEPT ![f] = @ \cup {v}]
  BY <1>2
<1>4. Evidence!Change(f, v)
  BY <1>3 DEF Evidence!Change, Names, FilesOK
<1> QED
  BY <1>1, <1>4 DEF EvidenceStep, Evidence!Next

LEMMA RenamesInv ==
    ASSUME StoreInv, Replace \/ Unlink \/ Link
    PROVE  StoreInv' /\ EvidenceStep
<1> USE DEF StoreLabels, SaveLabels, RemoveLabels, ArchiveLabels
<1>1. op # None /\ op \in Operation /\ PhaseOK(op) /\ FilesOK
      /\ UNCHANGED <<dir, kept, orphans, done>> /\ op.f \in Registers
  BY DEF StoreInv, Replace, Unlink, Link, OpAt, Operation
<1>2. CASE Replace
  <2>1. op.pc = "replace" /\ GoTo("sync") /\ Names(op.f, op.v) /\ op.v \in Contents /\ op.f \in Files
    BY <1>1, <1>2 DEF Replace, OpAt, PhaseOK
  <2>2. op' \in Operation /\ op' # None /\ op'.pc = "sync" /\ op'.f = op.f /\ op'.v = op.v
    BY <1>1, <2>1, GoToDoes
  <2>3. HomesOf(op.f) \subseteq dir
    BY <1>1, <2>1 DEF PhaseOK, HomesOf, DirOf
  <2>4. FilesOK' /\ EvidenceStep
    BY <1>1, <2>1, <2>3, NamesDoes, ContentsAssumption DEF OpAt
  <2>5. PhaseOK(op)'
    BY <1>1, <2>1, <2>2, ContentsAssumption DEF PhaseOK
  <2> QED
    BY <2>2, <2>4, <2>5 DEF StoreInv
<1>3. CASE Unlink
  <2>1. op.pc = "unlink" /\ GoTo("sync_removal") /\ Names(op.f, None) /\ op.v = None /\ op.f \in Files
    BY <1>1, <1>3 DEF Unlink, OpAt, PhaseOK
  <2>2. op' \in Operation /\ op' # None /\ op'.pc = "sync_removal" /\ op'.f = op.f /\ op'.v = op.v
    BY <1>1, <2>1, GoToDoes
  <2>3. HomesOf(op.f) \subseteq dir
    BY <1>1, <2>1 DEF PhaseOK, HomesOf, DirOf
  <2>4. FilesOK' /\ EvidenceStep /\ vis'[op.f] = None
    BY <1>1, <2>1, <2>3, NamesDoes, ContentsAssumption DEF OpAt
  <2>5. PhaseOK(op)'
    BY <1>1, <2>1, <2>2, <2>4, ContentsAssumption DEF PhaseOK
  <2> QED
    BY <2>2, <2>4, <2>5 DEF StoreInv
<1>4. CASE Link
  <2>1. op.pc = "link" /\ GoTo("sync_history") /\ Names(op.f, op.v) /\ op.v \in Contents /\ op.f \in Final
    BY <1>1, <1>4 DEF Link, OpAt, PhaseOK
  <2>2. op' \in Operation /\ op' # None /\ op'.pc = "sync_history" /\ op'.f = op.f /\ op'.v = op.v
    BY <1>1, <2>1, GoToDoes
  <2>3. HomesOf(op.f) \subseteq dir /\ vis[op.f] = None
    BY <1>1, <2>1 DEF PhaseOK, HomesOf, DirOf
  <2>4. FilesOK' /\ EvidenceStep /\ vis'[op.f] = op.v
    BY <1>1, <2>1, <2>3, NamesDoes DEF OpAt
  <2>5. PhaseOK(op)'
    BY <1>1, <2>1, <2>2, <2>4 DEF PhaseOK
  <2> QED
    BY <2>2, <2>4, <2>5 DEF StoreInv
<1> QED
  BY <1>2, <1>3, <1>4

\* os.mkdir: from here on a power loss may take the directory.
LEMMA MakesInv ==
    ASSUME StoreInv, MakeStateDir \/ MakeHistory
    PROVE  StoreInv' /\ EvidenceStep
<1> USE DEF StoreLabels, SaveLabels, RemoveLabels, ArchiveLabels
<1>1. op # None /\ op \in Operation /\ PhaseOK(op) /\ FilesOK
      /\ UNCHANGED <<vis, disk, kept, orphans, done>> /\ op.f \in Registers
  BY DEF StoreInv, MakeStateDir, MakeHistory, OpAt, Operation
<1>2. ASSUME NEW d \in Dirs, d \notin dir, dir' = dir \cup {d} PROVE EvidenceStep
  <2>1. ASSUME NEW f \in Registers
        PROVE  May(f)' = IF d \in HomesOf(f) THEN May(f) \cup {None} ELSE May(f)
    BY <1>1, <1>2 DEF May, FilesOK
  <2>2. Evidence!Open(d)
    BY <1>1, <2>1 DEF Evidence!Open
  <2> QED
    BY <2>2 DEF EvidenceStep, Evidence!Next
<1>3. CASE MakeStateDir
  <2>1. op.pc = "make_state_dir" /\ GoTo("publish_state_dir") /\ dir' = dir \cup {"state_dir"}
        /\ "state_dir" \notin dir
    BY <1>1, <1>3 DEF MakeStateDir, OpAt, PhaseOK
  <2>2. /\ op' \in Operation /\ op' # None /\ op'.pc = "publish_state_dir"
        /\ op'.f = op.f /\ op'.v = op.v
    BY <1>1, <2>1, GoToDoes
  <2>3. FilesOK'
    BY <1>1, <2>1, <2>2 DEF FilesOK, Pending, OpAt, Dirs, HomesOf
  <2>5. \A f \in Files : vis[f] = None
    BY <1>1, <2>1 DEF FilesOK, HomesOf, Registers
  <2>4. PhaseOK(op)'
    BY <1>1, <2>1, <2>2, <2>5, ContentsAssumption DEF PhaseOK
  <2> QED
    BY <1>2, <2>1, <2>2, <2>3, <2>4 DEF StoreInv, Dirs
<1>4. CASE MakeHistory
  <2>1. op.pc = "make_history" /\ GoTo("publish_history") /\ dir' = dir \cup {"history"}
        /\ "history" \notin dir
    BY <1>1, <1>4 DEF MakeHistory, OpAt, PhaseOK
  <2>2. op' \in Operation /\ op' # None /\ op'.pc = "publish_history" /\ op'.f = op.f /\ op'.v = op.v
    BY <1>1, <2>1, GoToDoes
  <2>3. FilesOK'
    BY <1>1, <2>1, <2>2 DEF FilesOK, Pending, OpAt, Dirs, HomesOf
  <2>4. \A f \in Final : vis[f] = None /\ disk[f] = {None}
    BY <1>1, <2>1, ContentsAssumption DEF FilesOK, HomesOf, DirOf, Registers
  <2>5. PhaseOK(op)'
    BY <1>1, <2>1, <2>2, <2>4 DEF PhaseOK
  <2> QED
    BY <1>2, <2>1, <2>2, <2>3, <2>5 DEF StoreInv, Dirs
<1> QED
  BY <1>3, <1>4

LEMMA SettleIsStep == Evidence!Settled /\ done' = done => EvidenceStep
BY DEF EvidenceStep, Evidence!Next, Evidence!Settle

\* Directory syncs in the middle of an operation.
LEMMA SyncsInv ==
    ASSUME StoreInv, PublishStateDir \/ EnsureStateDir \/ Sync \/ PublishHistory \/ EnsureHistory
    PROVE  StoreInv' /\ EvidenceStep
<1> USE DEF StoreLabels, SaveLabels, RemoveLabels, ArchiveLabels
<1>1. op # None /\ op \in Operation /\ PhaseOK(op) /\ FilesOK
      /\ UNCHANGED <<vis, dir, temp, done>> /\ op.f \in Registers
  BY DEF StoreInv, PublishStateDir, EnsureStateDir, Sync, PublishHistory, EnsureHistory, OpAt, Operation
<1>2. CASE PublishStateDir
  <2>1. op.pc = "publish_state_dir" /\ GoTo("mkstemp") /\ disk' = disk
        /\ kept' = kept \cup {"state_dir"} /\ orphans' = orphans \ {"state_dir"}
    BY <1>2 DEF PublishStateDir, OpAt
  <2>2. op' \in Operation /\ op' # None /\ op'.pc = "mkstemp" /\ op'.f = op.f /\ op'.v = op.v
    BY <1>1, <2>1, GoToDoes
  <2>3. FilesOK'
    BY <1>1, <2>1, <2>2 DEF FilesOK, Pending, OpAt, PhaseOK
  <2>4. PhaseOK(op)'
    BY <1>1, <2>1, <2>2, ContentsAssumption DEF PhaseOK
  <2>5. Evidence!Settled
    BY <1>1, <2>1, Settles DEF FilesOK
  <2> QED
    BY <1>1, <2>2, <2>3, <2>4, <2>5, SettleIsStep DEF StoreInv
<1>3. ASSUME NEW d \in Dirs, FsyncDirectory(d) PROVE Fsynced(d) /\ EvidenceStep
  BY <1>1, <1>3, FsyncDoes, FsyncSettles, SettleIsStep
<1>4. CASE EnsureStateDir
  <2>1. op.pc = "ensure" /\ GoTo("mkstemp") /\ FsyncDirectory("state_dir")
    BY <1>4 DEF EnsureStateDir, OpAt
  <2>2. op' \in Operation /\ op' # None /\ op'.pc = "mkstemp" /\ op'.f = op.f /\ op'.v = op.v
    BY <1>1, <2>1, GoToDoes
  <2>3. Fsynced("state_dir") /\ EvidenceStep
    BY <1>3, <2>1 DEF Dirs
  <2>4. FilesOK'
    BY <1>1, <2>1, <2>3, FsyncFiles DEF Pending, OpAt
  <2>5. PhaseOK(op)'
    BY <1>1, <2>1, <2>2, ContentsAssumption DEF PhaseOK
  <2> QED
    BY <2>2, <2>3, <2>4, <2>5 DEF StoreInv
<1>5. CASE Sync
  <2>1. op.pc = "sync" /\ GoTo("read_back") /\ FsyncDirectory("state_dir") /\ op.f \in Files
    BY <1>1, <1>5 DEF Sync, OpAt, PhaseOK
  <2>2. op' \in Operation /\ op' # None /\ op'.pc = "read_back" /\ op'.f = op.f /\ op'.v = op.v
    BY <1>1, <2>1, GoToDoes
  <2>3. Fsynced("state_dir") /\ EvidenceStep
    BY <1>3, <2>1 DEF Dirs
  <2>4. FilesOK'
    BY <1>1, <2>1, <2>3, FsyncFiles DEF Pending, OpAt
  <2>5. disk'[op.f] = {vis[op.f]}
    BY <1>1, <2>1, <2>3 DEF Fsynced, DirOf
  <2>6. PhaseOK(op)'
    BY <1>1, <2>1, <2>2, <2>5, ContentsAssumption DEF PhaseOK
  <2> QED
    BY <2>2, <2>3, <2>4, <2>6 DEF StoreInv
<1>6. CASE PublishHistory
  <2>1. op.pc = "publish_history" /\ GoTo("look") /\ FsyncDirectory("state_dir")
    BY <1>6 DEF PublishHistory, OpAt
  <2>2. op' \in Operation /\ op' # None /\ op'.pc = "look" /\ op'.f = op.f /\ op'.v = op.v
    BY <1>1, <2>1, GoToDoes
  <2>3. Fsynced("state_dir") /\ EvidenceStep
    BY <1>3, <2>1 DEF Dirs
  <2>4. Pending \subseteq kept'
    BY <1>1, <2>1 DEF Pending, OpAt, FsyncDirectory, PhaseOK
  <2>5. FilesOK'
    BY <1>1, <2>3, <2>4, FsyncFiles
  <2>6. \A f \in Final : disk'[f] = {vis[f]}
    BY <1>1, <2>1, <2>3 DEF Fsynced, PhaseOK, Registers
  <2>7. PhaseOK(op)'
    BY <1>1, <2>1, <2>2, <2>6 DEF PhaseOK
  <2> QED
    BY <2>2, <2>3, <2>5, <2>7 DEF StoreInv
<1>7. CASE EnsureHistory
  <2>1. op.pc = "ensure_history" /\ GoTo("look") /\ FsyncDirectory("history")
    BY <1>7 DEF EnsureHistory, OpAt
  <2>2. op' \in Operation /\ op' # None /\ op'.pc = "look" /\ op'.f = op.f /\ op'.v = op.v
    BY <1>1, <2>1, GoToDoes
  <2>3. Fsynced("history") /\ EvidenceStep
    BY <1>3, <2>1 DEF Dirs
  <2>4. FilesOK'
    BY <1>1, <2>1, <2>3, FsyncFiles DEF Pending, OpAt
  <2>5. \A f \in Final : disk'[f] = {vis[f]}
    BY <1>1, <2>1, <2>3, ContentsAssumption DEF Fsynced, Registers, DirOf
  <2>6. PhaseOK(op)'
    BY <1>1, <2>1, <2>2, <2>5 DEF PhaseOK
  <2> QED
    BY <2>2, <2>3, <2>4, <2>6 DEF StoreInv
<1> QED
  BY <1>2, <1>4, <1>5, <1>6, <1>7

\* What an operation returns is certain unless a directory of it is an orphan.
LEMMA ReturnIsStep ==
    ASSUME Evidence!Settled, FilesOK', Pending' = {}, NEW f \in Registers, NEW v \in Contents \cup {None},
           vis[f] = v, disk'[f] = {v}, done' = [f |-> f, v |-> v]
    PROVE  EvidenceStep
<1>1. HomesOf(f) \cap orphans' = {} => May(f)' = {v}
  BY DEF FilesOK, May
<1>2. Evidence!Return(f, v)
  BY <1>1 DEF Evidence!Return
<1> QED
  BY <1>2 DEF EvidenceStep, Evidence!Next

LEMMA ReturnsInv ==
    ASSUME StoreInv, ReadBack \/ SyncRemoval \/ Look \/ SyncHistory
    PROVE  StoreInv' /\ EvidenceStep
<1> USE DEF StoreLabels, SaveLabels, RemoveLabels, ArchiveLabels
<1>1. /\ op # None /\ op \in Operation /\ PhaseOK(op) /\ FilesOK
      /\ UNCHANGED <<vis, dir>> /\ op.f \in Registers /\ op.v \in Contents \cup {None}
  BY DEF StoreInv, ReadBack, SyncRemoval, Look, SyncHistory, OpAt, Operation, files
<1>2. ASSUME Returns, vis[op.f] = op.v, op.pc \notin {"publish_state_dir", "publish_history"},
             \/ UNCHANGED <<disk, kept, orphans>> /\ disk[op.f] = {op.v}
             \/ FsyncDirectory(DirOf(op.f))
      PROVE  StoreInv' /\ EvidenceStep
  <2>1. op' = None /\ Pending = {} /\ Pending' = {} /\ done' = [f |-> op.f, v |-> op.v]
    BY <1>1, <1>2 DEF Returns, Pending, OpAt
  <2>2. CASE UNCHANGED <<disk, kept, orphans>> /\ disk[op.f] = {op.v}
    <3>1. FilesOK' /\ disk'[op.f] = {op.v}
      BY <1>1, <1>2, <2>1, <2>2 DEF FilesOK
    <3>2. Evidence!Settled
      BY <1>1, <2>2, Settles DEF FilesOK
    <3> QED
      BY <1>1, <1>2, <2>1, <3>1, <3>2, ReturnIsStep DEF StoreInv
  <2>3. CASE FsyncDirectory(DirOf(op.f))
    <3> DEFINE d == DirOf(op.f)
    <3>1. d \in Dirs /\ Fsynced(d)
      BY <1>1, <2>3, FsyncDoes DEF Dirs, DirOf
    <3>2. FilesOK'
      BY <1>1, <2>1, <3>1, FsyncFiles
    <3>3. disk'[op.f] = {op.v}
      BY <1>1, <1>2, <2>3, <3>1 DEF Fsynced
    <3>4. Evidence!Settled
      BY <1>1, <3>1, FsyncSettles
    <3> QED
      BY <1>1, <1>2, <2>1, <3>2, <3>3, <3>4, ReturnIsStep DEF StoreInv
  <2> QED
    BY <1>2, <2>2, <2>3
<1>3. CASE ReadBack
  BY <1>1, <1>2, <1>3 DEF ReadBack, OpAt, files, PhaseOK
<1>4. CASE SyncRemoval
  <2>1. Returns /\ vis[op.f] = op.v /\ op.pc = "sync_removal" /\ FsyncDirectory(DirOf(op.f))
    BY <1>1, <1>4 DEF SyncRemoval, OpAt, PhaseOK, DirOf
  <2> QED
    BY <1>2, <2>1
<1>5. CASE Look
  <2>1. op.pc = "look" /\ UNCHANGED <<disk, kept, orphans, temp>> /\ op.f \in Final
    BY <1>1, <1>5 DEF Look, OpAt, files, PhaseOK
  <2>2. ASSUME vis[op.f] = op.v, Returns PROVE StoreInv' /\ EvidenceStep
    BY <1>1, <1>2, <2>1, <2>2 DEF PhaseOK
  <2>3. ASSUME vis[op.f] = None, GoTo("mkstemp"), done' = done PROVE StoreInv' /\ EvidenceStep
    <3>1. op' \in Operation /\ op' # None /\ op'.pc = "mkstemp" /\ op'.f = op.f /\ op'.v = op.v
      BY <1>1, <2>3, GoToDoes
    <3>2. FilesOK'
      BY <1>1, <2>1, <3>1 DEF FilesOK, Pending, OpAt
    <3>3. PhaseOK(op)'
      BY <1>1, <2>1, <2>3, <3>1 DEF PhaseOK
    <3> QED
      BY <1>1, <2>1, <2>3, <3>1, <3>2, <3>3, SameIsStutter DEF StoreInv, SameEvidence
  <2> QED
    BY <1>5, <2>2, <2>3 DEF Look
<1>6. CASE SyncHistory
  <2>1. Returns /\ vis[op.f] = op.v /\ op.pc = "sync_history" /\ FsyncDirectory(DirOf(op.f))
    BY <1>1, <1>6, ContentsAssumption DEF SyncHistory, OpAt, PhaseOK, DirOf
  <2> QED
    BY <1>2, <2>1
<1> QED
  BY <1>3, <1>4, <1>5, <1>6

\* An exception or a kill: what was under way is left as it is.
LEMMA InterruptsInv ==
    ASSUME StoreInv, StoreRaise \/ StoreKill
    PROVE  StoreInv' /\ EvidenceStep
<1>1. op' = None /\ orphans' = Orphaned /\ UNCHANGED <<vis, disk, dir, kept, done>>
  BY DEF StoreRaise, StoreKill, files
<1>2. orphans' = orphans \cup Pending /\ Pending \subseteq Dirs
  BY <1>1 DEF Orphaned, Pending, Dirs
<1>3. FilesOK'
  BY <1>1, <1>2 DEF StoreInv, FilesOK
<1>4. Evidence!Interrupt
  BY <1>1, <1>2 DEF Evidence!Interrupt, StoreInv, FilesOK, May
<1> QED
  BY <1>1, <1>3, <1>4 DEF StoreInv, EvidenceStep, Evidence!Next

\* The host loses power: what is lost was not promised.
LEMMA PowerLossInv ==
    ASSUME StoreInv, StorePowerLoss
    PROVE  StoreInv' /\ EvidenceStep
<1>1. /\ op' = None /\ disk' = [f \in Registers |-> {vis'[f]}] /\ kept' = dir'
      /\ orphans' = orphans \ dir' /\ done' = done
  BY DEF StorePowerLoss
<1>2. PICK lost \in SUBSET (dir \ kept) :
         /\ dir' = dir \ (IF "state_dir" \in lost THEN Dirs ELSE lost)
         /\ vis' \in { w \in [Registers -> Contents \cup {None, Torn}] :
                         \A f \in Registers : w[f] \in IF HomesOf(f) \subseteq dir' THEN disk[f]
                                                                                  ELSE {None} }
  BY DEF StorePowerLoss
<1>3. /\ vis' \in [Registers -> Contents \cup {None}]
      /\ \A f \in Registers : vis'[f] \in IF HomesOf(f) \subseteq dir' THEN disk[f] ELSE {None}
  BY <1>2 DEF StoreInv, FilesOK
<1>4. FilesOK'
  BY <1>1, <1>2, <1>3 DEF StoreInv, FilesOK
<1>5. ASSUME NEW f \in Registers PROVE vis'[f] \in May(f) /\ May(f)' = {vis'[f]}
  <2>1. May(f)' = {vis'[f]}
    BY <1>1 DEF May
  <2>2. CASE HomesOf(f) \subseteq dir'
    BY <1>3, <2>1, <2>2 DEF May
  <2>3. CASE ~(HomesOf(f) \subseteq dir) /\ ~(HomesOf(f) \subseteq dir')
    BY <1>3, <2>1, <2>3 DEF May, StoreInv, FilesOK
  <2>4. CASE HomesOf(f) \subseteq dir /\ ~(HomesOf(f) \subseteq dir')
    <3>1. ~(HomesOf(f) \cap dir \subseteq kept)
      BY <1>2, <2>4 DEF HomesOf
    <3> QED
      BY <1>3, <2>1, <2>4, <3>1 DEF May
  <2> QED
    BY <2>2, <2>3, <2>4
<1>6. Evidence!PowerLoss
  BY <1>1, <1>5 DEF Evidence!PowerLoss
<1> QED
  BY <1>1, <1>4, <1>6 DEF StoreInv, EvidenceStep, Evidence!Next

LEMMA StoreStepInv ==
    ASSUME StoreInv, StoreStep
    PROVE  StoreInv' /\ EvidenceStep
BY QuietCalls, RenamesInv, MakesInv, SyncsInv, ReturnsInv, SameIsStutter DEF StoreStep

LEMMA StoreInvInit == StoreInit => StoreInv /\ Evidence!Init
<1> SUFFICES ASSUME StoreInit PROVE StoreInv /\ Evidence!Init
  OBVIOUS
<1>1. PICK v \in Final \cup {None} :
         /\ vis = [f \in Registers |-> IF f = "state.json" THEN v ELSE None]
         /\ dir = IF v = None THEN {} ELSE {"state_dir"}
  BY DEF StoreInit
<1>2. /\ disk = [f \in Registers |-> {vis[f]}] /\ kept = dir /\ op = None /\ orphans = {} /\ done = None
  BY DEF StoreInit
<1>3. vis \in [Registers -> Contents \cup {None}]
  BY <1>1, ContentsAssumption DEF Contents
<1>4. FilesOK
  BY <1>1, <1>2, <1>3 DEF FilesOK, Dirs, HomesOf, DirOf, Registers, Files
<1>5. \A f \in Registers : May(f) = {vis[f]}
  BY <1>2 DEF May
<1> QED
  BY <1>2, <1>3, <1>4, <1>5 DEF StoreInv, Evidence!Init

-----------------------------------------------------------------------------
(* The commands.  A step of a plan is known by the document it writes or by *)
(* what it does.                                                            *)

Kind(s) == IF s.do = "put" THEN s.v ELSE s.do
AttemptKinds == {"prepared", "starting", "cleaned"}
StateKinds == {"installed", "uninstalling", "uninstalled"}
PlanSteps == { Put("install-attempt.json", v) : v \in AttemptKinds }
             \cup { Put("state.json", v) : v \in StateKinds }
             \cup { Do(d) : d \in {"up", "wait_healthy", "archive", "remove_attempt", "down"} }

\* What may come after what in the plan of a command.
Follow == { <<"prepared", "starting">>, <<"starting", "up">>, <<"up", "wait_healthy">>,
            <<"wait_healthy", "archive">>, <<"wait_healthy", "installed">>,
            <<"archive", "installed">>, <<"installed", "remove_attempt">>,
            <<"uninstalling", "down">>, <<"down", "cleaned">>, <<"down", "uninstalled">>,
            <<"uninstalled", "remove_attempt">> }

BeforeArchive == {"prepared", "starting", "up", "wait_healthy"}

Shape(p) ==
    /\ p \in Seq(PlanSteps)
    /\ \A i \in 1 .. Len(p) - 1 : <<Kind(p[i]), Kind(p[i + 1])>> \in Follow
    /\ \A i \in 1 .. Len(p) : Kind(p[i]) = "archive" =>
         \A j \in 1 .. Len(p) : Kind(p[j]) = "archive" \/ j > i \/ Kind(p[j]) \in BeforeArchive
    /\ \A i, j \in 1 .. Len(p) : Kind(p[i]) = "archive" /\ Kind(p[j]) = "archive" => i = j

Archives(p) == \E i \in 1 .. Len(p) : Kind(p[i]) = "archive"

PlanOK ==
    /\ Shape(plan)
    /\ Archives(plan) => /\ vis["state.json"] \in Final
                         /\ op # None => op.f = "install-attempt.json"

\* The attempt, or the state, says so wherever the disk is.
AttemptSays == disk["install-attempt.json"] = {"starting"}
StateSays == disk["state.json"] \subseteq {"installed", "uninstalling"}

\* The evidence went with a directory whose creation had been interrupted:
\* no command can begin any more.
EvidenceLost == /\ "state_dir" \notin dir /\ "state_dir" \in orphans
                /\ plan = << >> /\ op = None

\* An operation that runs beside a container leaves the other evidence alone.
Harmless(o) ==
    \/ ~wanted
    \/ o.f = "state.json" /\ o.v = "installed" /\ AttemptSays
    \/ o.f = "state.json" /\ o.v = "uninstalling" /\ (AttemptSays \/ StateSays)
    \/ o.f \in Final /\ AttemptSays
    \/ o.f = "install-attempt.json" /\ o.v = None /\ StateSays

\* What holds when the next step of the plan is of kind k.
Ready(k) ==
    /\ k \in AttemptKinds \cup {"uninstalled"} => ~wanted
    /\ k = "up" => ~wanted /\ IF op = None THEN AttemptSays
                              ELSE op.f = "install-attempt.json" /\ op.v = "starting"
    /\ k \in {"wait_healthy", "archive"} => AttemptSays /\ op = None
    /\ k = "installed" => AttemptSays /\ (op # None => op.f \in Final)
    /\ k = "remove_attempt" => \/ ~wanted
                               \/ IF op = None THEN StateSays
                                  ELSE op.f = "state.json" /\ op.v = "installed"

CommandInv ==
    /\ PlanOK
    /\ wanted \in BOOLEAN
    /\ wanted => AttemptSays \/ StateSays \/ EvidenceLost
    /\ op # None => Harmless(op)
    /\ plan # << >> => Ready(Kind(Head(plan)))

\* What a system call of an operation does to the two files.
StoreEffect ==
    /\ op # None /\ op \in Operation
    /\ \A f \in Files : f # op.f => vis'[f] = vis[f] /\ disk'[f] \subseteq disk[f]
    /\ op.f \in Files => disk'[op.f] \subseteq disk[op.f] \cup {op.v}
    /\ op' # None => op'.f = op.f /\ op'.v = op.v
    /\ op' = None => disk'[op.f] = {op.v}

LEMMA StoreDoes == ASSUME StoreInv, StoreStep PROVE StoreEffect
<1> USE DEF StoreLabels, SaveLabels, RemoveLabels, ArchiveLabels
<1>1. op # None /\ op \in Operation /\ PhaseOK(op) /\ FilesOK /\ op.f \in Registers
  BY DEF StoreInv, StoreStep, MakeStateDir, PublishStateDir, EnsureStateDir, Mkstemp, Write, Replace,
     Sync, ReadBack, Unlink, SyncRemoval, MakeHistory, PublishHistory, EnsureHistory, Look, Link,
     SyncHistory, OpAt, Operation
<1>2. ASSUME NEW l \in StoreLabels, GoTo(l) PROVE op' # None /\ op'.f = op.f /\ op'.v = op.v
  BY <1>1, <1>2, GoToDoes
<1>3. ASSUME NEW d \in Dirs, FsyncDirectory(d), vis' = vis
      PROVE  \A f \in Registers : disk'[f] \subseteq disk[f] /\ (DirOf(f) = d => disk'[f] = {vis[f]})
  BY <1>1, <1>3 DEF FilesOK, FsyncDirectory, Synced
<1>4. CASE UNCHANGED <<vis, disk>> /\ \E l \in StoreLabels : GoTo(l)
  BY <1>1, <1>2, <1>4 DEF StoreEffect
<1>5. CASE vis' = vis /\ (\E d \in Dirs : FsyncDirectory(d)) /\ \E l \in StoreLabels : GoTo(l)
  BY <1>1, <1>2, <1>3, <1>5 DEF StoreEffect, Registers
<1>6. CASE (\E v : Names(op.f, v) /\ v = op.v) /\ \E l \in StoreLabels : GoTo(l)
  BY <1>1, <1>2, <1>6 DEF StoreEffect, Names, FilesOK, Registers
<1>7. CASE ReadBack
  BY <1>1, <1>7 DEF ReadBack, Returns, OpAt, PhaseOK, StoreEffect, files
<1>8. CASE SyncRemoval
  <2>1. vis' = vis /\ op' = None /\ FsyncDirectory("state_dir") /\ op.f \in Files /\ vis[op.f] = op.v
    BY <1>1, <1>8 DEF SyncRemoval, Returns, OpAt, PhaseOK
  <2> QED
    BY <1>1, <1>3, <2>1 DEF StoreEffect, Dirs, DirOf, Registers
<1>9. CASE SyncHistory
  <2>1. vis' = vis /\ op' = None /\ FsyncDirectory("history") /\ op.f \in Final /\ vis[op.f] = op.v
    BY <1>1, <1>9 DEF SyncHistory, Returns, OpAt, PhaseOK
  <2> QED
    BY <1>1, <1>3, <2>1, ContentsAssumption DEF StoreEffect, Dirs, DirOf, Registers
<1>10. CASE Look
  <2>1. UNCHANGED <<vis, disk>> /\ op.f \in Final /\ disk[op.f] = {vis[op.f]}
    BY <1>1, <1>10 DEF Look, OpAt, PhaseOK, files
  <2>2. CASE vis[op.f] = op.v /\ Returns
    BY <1>1, <2>1, <2>2 DEF StoreEffect, Returns
  <2> QED
    BY <1>4, <1>10, <2>1, <2>2 DEF Look
<1>11. CASE Mkstemp \/ Write \/ MakeStateDir \/ MakeHistory \/ PublishStateDir
  <2>1. UNCHANGED <<vis, disk>> /\ \E l \in StoreLabels : GoTo(l)
    BY <1>11 DEF Mkstemp, Write, MakeStateDir, MakeHistory, PublishStateDir, files
  <2> QED
    BY <1>4, <2>1
<1>12. CASE EnsureStateDir \/ Sync \/ PublishHistory \/ EnsureHistory
  <2>1. vis' = vis /\ (\E d \in Dirs : FsyncDirectory(d)) /\ \E l \in StoreLabels : GoTo(l)
    BY <1>12 DEF EnsureStateDir, Sync, PublishHistory, EnsureHistory, Dirs
  <2> QED
    BY <1>5, <2>1
<1>13. CASE Replace \/ Unlink \/ Link
  <2>1. (\E v : Names(op.f, v) /\ v = op.v) /\ \E l \in StoreLabels : GoTo(l)
    BY <1>1, <1>13 DEF Replace, Unlink, Link, OpAt, PhaseOK
  <2> QED
    BY <1>6, <2>1
<1> QED
  BY <1>7, <1>8, <1>9, <1>10, <1>11, <1>12, <1>13 DEF StoreStep

LEMMA KindFacts ==
    ASSUME NEW s \in PlanSteps
    PROVE  /\ s.do = "put" => /\ Kind(s) = s.v /\ s.f \in Files
                              /\ s.f = "state.json" => s.v \in StateKinds
                              /\ s.f = "install-attempt.json" => s.v \in AttemptKinds
           /\ s.do # "put" => /\ Kind(s) = s.do
                              /\ s.do \in {"up", "wait_healthy", "archive", "remove_attempt", "down"}
<1>1. ASSUME NEW v \in AttemptKinds, s = Put("install-attempt.json", v)
      PROVE  s.do = "put" /\ s.f = "install-attempt.json" /\ s.v = v
  BY <1>1 DEF Put
<1>2. ASSUME NEW v \in StateKinds, s = Put("state.json", v)
      PROVE  s.do = "put" /\ s.f = "state.json" /\ s.v = v
  BY <1>2 DEF Put
<1>3. ASSUME NEW d \in {"up", "wait_healthy", "archive", "remove_attempt", "down"}, s = Do(d)
      PROVE  s.do = d /\ d # "put"
  BY <1>3 DEF Do
<1> QED
  BY <1>1, <1>2, <1>3 DEF PlanSteps, Kind, Files

\* The rest of a plan is a plan, and archives at most once.
LEMMA TailShape ==
    ASSUME NEW p, Shape(p), p # << >>
    PROVE  /\ Head(p) \in PlanSteps /\ Shape(Tail(p))
           /\ Tail(p) # << >> => <<Kind(Head(p)), Kind(Head(Tail(p)))>> \in Follow
           /\ Archives(Tail(p)) => Archives(p) /\ Kind(Head(p)) \in BeforeArchive
<1>1. /\ p \in Seq(PlanSteps) /\ Tail(p) \in Seq(PlanSteps) /\ Len(p) \in Nat /\ Len(p) >= 1
      /\ Len(Tail(p)) = Len(p) - 1 /\ Head(p) = p[1] /\ Head(p) \in PlanSteps
      /\ \A i \in 1 .. Len(p) - 1 : Tail(p)[i] = p[i + 1]
  BY DEF Shape
<1> DEFINE t == Tail(p)
           n == Len(p)
<1>2. \A i \in 1 .. n - 1 : i + 1 \in 1 .. n /\ (i + 1 <= n - 1 => i + 1 \in 1 .. n - 1)
  BY <1>1
<1>3. \A i \in 1 .. n - 1 - 1 : <<Kind(t[i]), Kind(t[i + 1])>> \in Follow
  <2> TAKE i \in 1 .. n - 1 - 1
  <2>1. i + 1 \in 1 .. n - 1 /\ i \in 1 .. n - 1
    BY <1>1
  <2>2. <<Kind(p[i + 1]), Kind(p[i + 1 + 1])>> \in Follow
    BY <2>1 DEF Shape
  <2> QED
    BY <1>1, <2>1, <2>2
<1>4. /\ \A i \in 1 .. n - 1 : Kind(t[i]) = "archive" =>
           \A j \in 1 .. n - 1 : Kind(t[j]) = "archive" \/ j > i \/ Kind(t[j]) \in BeforeArchive
      /\ \A i, j \in 1 .. n - 1 : Kind(t[i]) = "archive" /\ Kind(t[j]) = "archive" => i = j
  <2>1. ASSUME NEW i \in 1 .. n - 1, NEW j \in 1 .. n - 1, Kind(t[i]) = "archive"
        PROVE  /\ Kind(t[j]) = "archive" \/ j > i \/ Kind(t[j]) \in BeforeArchive
               /\ Kind(t[j]) = "archive" => i = j
    <3>1. i + 1 \in 1 .. n /\ j + 1 \in 1 .. n /\ t[i] = p[i + 1] /\ t[j] = p[j + 1]
      BY <1>1
    <3>2. /\ Kind(p[j + 1]) = "archive" \/ j + 1 > i + 1 \/ Kind(p[j + 1]) \in BeforeArchive
          /\ Kind(p[j + 1]) = "archive" => i + 1 = j + 1
      BY <2>1, <3>1 DEF Shape
    <3> QED
      BY <3>1, <3>2
  <2> QED
    BY <2>1
<1>5. Shape(Tail(p))
  BY <1>1, <1>3, <1>4 DEF Shape
<1>6. Tail(p) # << >> => <<Kind(Head(p)), Kind(Head(Tail(p)))>> \in Follow
  <2> SUFFICES ASSUME Tail(p) # << >> PROVE <<Kind(p[1]), Kind(p[1 + 1])>> \in Follow
    BY <1>1
  <2>1. 1 \in 1 .. Len(p) - 1
    BY <1>1
  <2> QED
    BY <2>1 DEF Shape
<1>7. ASSUME Archives(Tail(p)) PROVE Archives(p) /\ Kind(Head(p)) \in BeforeArchive
  <2>1. PICK i \in 1 .. n - 1 : Kind(t[i]) = "archive"
    BY <1>1, <1>7 DEF Archives
  <2>2. i + 1 \in 1 .. n /\ 1 \in 1 .. n /\ Kind(p[i + 1]) = "archive" /\ i + 1 # 1 /\ ~(1 > i + 1)
    BY <1>1, <2>1
  <2>3. Kind(p[1]) # "archive"
    BY <2>2 DEF Shape
  <2> QED
    BY <1>1, <2>2, <2>3 DEF Shape, Archives
<1> QED
  BY <1>1, <1>5, <1>6, <1>7

LEMMA KindOf ==
    /\ \A f, v : Kind(Put(f, v)) = v
    /\ \A d : d # "put" => Kind(Do(d)) = d
BY DEF Kind, Put, Do

LEMMA StepsOfPlans ==
    /\ \A v \in AttemptKinds : Put("install-attempt.json", v) \in PlanSteps
    /\ \A v \in StateKinds : Put("state.json", v) \in PlanSteps
    /\ \A d \in {"up", "wait_healthy", "archive", "remove_attempt", "down"} : Do(d) \in PlanSteps
BY DEF PlanSteps

LEMMA InstallKinds ==
    ASSUME NEW p \in Seq(PlanSteps), NEW x \in {"archive", "installed"},
           Len(p) = IF x = "archive" THEN 7 ELSE 6,
           Kind(p[1]) = "prepared", Kind(p[2]) = "starting", Kind(p[3]) = "up",
           Kind(p[4]) = "wait_healthy", Kind(p[5]) = x,
           Kind(p[6]) = (IF x = "archive" THEN "installed" ELSE "remove_attempt"),
           x = "archive" => Kind(p[7]) = "remove_attempt"
    PROVE  Shape(p) /\ (Archives(p) => x = "archive")
<1>1. \A i \in 1 .. Len(p) - 1 : <<Kind(p[i]), Kind(p[i + 1])>> \in Follow
  BY DEF Follow
<1>2. /\ \A i \in 1 .. Len(p) : i # 5 => Kind(p[i]) # "archive"
      /\ \A i \in 1 .. 4 : Kind(p[i]) \in BeforeArchive
  BY DEF BeforeArchive
<1> QED
  BY <1>1, <1>2 DEF Shape, Archives

LEMMA UninstallKinds ==
    ASSUME NEW p \in Seq(PlanSteps), NEW j \in 0 .. 1, NEW n \in 2 .. 3, Len(p) = j + n,
           j = 1 => Kind(p[1]) = "uninstalling",
           Kind(p[j + 1]) = "down", Kind(p[j + 2]) \in {"cleaned", "uninstalled"},
           n = 3 => Kind(p[j + 2]) = "uninstalled" /\ Kind(p[j + 3]) = "remove_attempt"
    PROVE  Shape(p) /\ ~Archives(p)
<1>1. \A i \in 1 .. Len(p) - 1 : <<Kind(p[i]), Kind(p[i + 1])>> \in Follow
  BY DEF Follow
<1>2. \A i \in 1 .. Len(p) : Kind(p[i]) # "archive"
  OBVIOUS
<1> QED
  BY <1>1, <1>2 DEF Shape, Archives

LEMMA InstallShape ==
    /\ Shape(InstallPlan) /\ InstallPlan # << >>
    /\ Kind(Head(InstallPlan)) = "prepared"
    /\ Archives(InstallPlan) => vis["state.json"] \in Final
<1>1. /\ Put("install-attempt.json", "prepared") \in PlanSteps
      /\ Put("install-attempt.json", "starting") \in PlanSteps
      /\ Put("state.json", "installed") \in PlanSteps /\ Do("remove_attempt") \in PlanSteps
      /\ Do("wait_healthy") \in PlanSteps /\ Do("up") \in PlanSteps /\ Do("archive") \in PlanSteps
  BY StepsOfPlans DEF AttemptKinds, StateKinds
<1> DEFINE x == IF vis["state.json"] \in Final THEN "archive" ELSE "installed"
           p == InstallPlan
<1>2. /\ p \in Seq(PlanSteps) /\ Len(p) = IF x = "archive" THEN 7 ELSE 6
      /\ p[1] = Put("install-attempt.json", "prepared") /\ p[2] = Put("install-attempt.json", "starting")
      /\ p[3] = Do("up") /\ p[4] = Do("wait_healthy")
      /\ p[5] = IF x = "archive" THEN Do("archive") ELSE Put("state.json", "installed")
      /\ p[6] = IF x = "archive" THEN Put("state.json", "installed") ELSE Do("remove_attempt")
      /\ x = "archive" => p[7] = Do("remove_attempt")
  BY <1>1 DEF InstallPlan
<1> HIDE DEF p
<1>3. Shape(p) /\ (Archives(p) => x = "archive")
  BY <1>2, KindOf, InstallKinds
<1>4. p # << >> /\ Kind(Head(p)) = "prepared"
  BY <1>2, KindOf
<1> QED
  BY <1>3, <1>4 DEF p

LEMMA UninstallShape ==
    /\ Shape(UninstallPlan) /\ UninstallPlan # << >>
    /\ Kind(Head(UninstallPlan)) \in {"uninstalling", "down"}
    /\ ~Archives(UninstallPlan)
<1>1. /\ Put("state.json", "uninstalling") \in PlanSteps /\ Do("down") \in PlanSteps
      /\ Put("state.json", "uninstalled") \in PlanSteps /\ Do("remove_attempt") \in PlanSteps
  BY StepsOfPlans DEF StateKinds
<1> DEFINE j == IF vis["state.json"] = "installed" THEN 1 ELSE 0
           n == IF vis["install-attempt.json"] = None THEN 2 ELSE 3
           p == UninstallPlan
<1>2. /\ p \in Seq(PlanSteps) /\ Len(p) = j + n
      /\ j = 1 => p[1] = Put("state.json", "uninstalling")
      /\ p[j + 1] = Do("down") /\ p[j + 2] = Put("state.json", "uninstalled")
      /\ n = 3 => p[j + 3] = Do("remove_attempt")
  BY <1>1 DEF UninstallPlan
<1> HIDE DEF p
<1>3. Shape(p) /\ ~Archives(p)
  <2>1. j \in 0 .. 1 /\ n \in 2 .. 3
    OBVIOUS
  <2>2. /\ j = 1 => Kind(p[1]) = "uninstalling"
        /\ Kind(p[j + 1]) = "down" /\ Kind(p[j + 2]) = "uninstalled"
        /\ n = 3 => Kind(p[j + 3]) = "remove_attempt"
    BY <1>2, KindOf
  <2> HIDE DEF j, n
  <2> QED
    BY <1>2, <2>1, <2>2, UninstallKinds
<1>4. p # << >> /\ Kind(Head(p)) \in {"uninstalling", "down"}
  BY <1>2, KindOf
<1> QED
  BY <1>3, <1>4 DEF p

LEMMA CleanShape ==
    Shape(CleanPlan) /\ CleanPlan # << >> /\ Kind(Head(CleanPlan)) = "down" /\ ~Archives(CleanPlan)
<1>1. Do("down") \in PlanSteps /\ Put("install-attempt.json", "cleaned") \in PlanSteps
  BY StepsOfPlans DEF AttemptKinds
<1> DEFINE p == CleanPlan
<1>2. /\ p \in Seq(PlanSteps) /\ Len(p) = 2 /\ p[1] = Do("down")
      /\ p[2] = Put("install-attempt.json", "cleaned") /\ p # << >> /\ Head(p) = Do("down")
  BY <1>1 DEF CleanPlan
<1> HIDE DEF p
<1>3. Shape(p) /\ ~Archives(p)
  <2>1. Kind(p[0 + 1]) = "down" /\ Kind(p[0 + 2]) = "cleaned"
    BY <1>2, KindOf
  <2> QED
    BY <1>2, <2>1, UninstallKinds
<1> QED
  BY <1>2, <1>3, KindOf DEF p

LEMMA EmptyShape == Shape(<< >>) /\ ~Archives(<< >>)
BY DEF Shape, Archives

\* Steps of the command that leave the evidence alone.
EvidenceKept == UNCHANGED <<vis, disk, dir, orphans, op>>

LEMMA CommandsBegin ==
    ASSUME StoreInv, CommandInv, Install \/ Uninstall
    PROVE  CommandInv'
<1>1. op = None /\ EvidenceKept /\ wanted' = wanted /\ plan = << >>
  BY DEF Install, Uninstall, Command, Idle, storeVars, files, hubVars, EvidenceKept
<1>2. CASE Install
  <2>1. plan' = InstallPlan /\ ~wanted
    BY <1>2 DEF Install
  <2>2. PlanOK'
    BY <1>1, <2>1, InstallShape DEF PlanOK, EvidenceKept
  <2>3. Ready(Kind(Head(plan)))'
    BY <1>1, <2>1, InstallShape DEF Ready
  <2> QED
    BY <1>1, <2>1, <2>2, <2>3 DEF CommandInv, EvidenceKept
<1>3. CASE Uninstall
  <2>1. plan' = UninstallPlan /\ vis["state.json"] \in {"installed", "uninstalling"}
    BY <1>3 DEF Uninstall
  <2>2. PlanOK'
    BY <1>1, <2>1, UninstallShape DEF PlanOK, EvidenceKept
  <2>3. Ready(Kind(Head(plan)))'
    BY <1>1, <2>1, UninstallShape DEF Ready, AttemptKinds
  <2>4. "state_dir" \in dir
    BY <2>1, HostAssumption, ContentsAssumption DEF StoreInv, FilesOK, HomesOf, DirOf, Registers, Files
  <2> QED
    BY <1>1, <2>1, <2>2, <2>3, <2>4 DEF CommandInv, EvidenceKept, EvidenceLost, AttemptSays, StateSays
<1> QED
  BY <1>2, <1>3

LEMMA CommandsGoOn ==
    ASSUME CommandInv, Refused \/ Up \/ WaitHealthy \/ StopContainer \/ ContainerGone
    PROVE  CommandInv'
<1>1. op = None /\ EvidenceKept /\ plan # << >> /\ ~EvidenceLost
  BY DEF Refused, Up, WaitHealthy, StopContainer, ContainerGone, Next1, storeVars, files, EvidenceKept,
     EvidenceLost
<1>2. /\ PlanOK /\ Head(plan) \in PlanSteps /\ Ready(Kind(Head(plan)))
      /\ wanted \in BOOLEAN /\ (wanted => AttemptSays \/ StateSays)
  BY <1>1, TailShape DEF CommandInv, PlanOK
<1>3. Head(plan).do # "put" => Kind(Head(plan)) = Head(plan).do
  BY <1>2, KindFacts
<1>4. ASSUME plan' = Tail(plan) PROVE PlanOK' /\ (plan' # << >> => <<Kind(Head(plan)), Kind(Head(plan'))>> \in Follow)
  BY <1>1, <1>2, <1>4, TailShape DEF PlanOK, EvidenceKept
<1>5. CASE Refused
  <2>1. plan' = << >> /\ wanted' = wanted
    BY <1>5 DEF Refused, hubVars
  <2> QED
    BY <1>1, <1>2, <2>1, EmptyShape DEF CommandInv, PlanOK, EvidenceKept, AttemptSays, StateSays
<1>6. CASE Up
  <2>1. plan' = Tail(plan) /\ wanted' = TRUE /\ Kind(Head(plan)) = "up"
    BY <1>3, <1>6 DEF Up, Pop, Next1, HubStart
  <2>2. AttemptSays
    BY <1>1, <1>2, <2>1 DEF Ready
  <2>3. plan' # << >> => Kind(Head(plan')) = "wait_healthy"
    BY <1>4, <2>1 DEF Follow
  <2>4. plan' # << >> => Ready(Kind(Head(plan)))'
    BY <1>1, <2>2, <2>3 DEF Ready, AttemptSays, EvidenceKept, AttemptKinds
  <2> QED
    BY <1>1, <1>4, <2>1, <2>2, <2>4 DEF CommandInv, EvidenceKept, AttemptSays
<1>7. CASE WaitHealthy
  <2>1. plan' = Tail(plan) /\ wanted' = wanted /\ Kind(Head(plan)) = "wait_healthy"
    BY <1>3, <1>7 DEF WaitHealthy, Pop, Next1, hubVars
  <2>2. AttemptSays
    BY <1>1, <1>2, <2>1 DEF Ready
  <2>3. plan' # << >> => Kind(Head(plan')) \in {"archive", "installed"}
    BY <1>4, <2>1 DEF Follow
  <2>4. plan' # << >> => Ready(Kind(Head(plan)))'
    BY <1>1, <2>2, <2>3 DEF Ready, AttemptSays, EvidenceKept, AttemptKinds
  <2> QED
    BY <1>1, <1>2, <1>4, <2>1, <2>2, <2>4 DEF CommandInv, EvidenceKept, AttemptSays
<1>8. CASE StopContainer
  <2>1. plan' = plan /\ wanted' = FALSE /\ Kind(Head(plan)) = "down"
    BY <1>3, <1>8 DEF StopContainer, Next1, HubStop
  <2>2. Ready(Kind(Head(plan)))'
    BY <2>1 DEF Ready, AttemptKinds
  <2>3. PlanOK'
    BY <1>1, <1>2, <2>1 DEF PlanOK, EvidenceKept
  <2> QED
    BY <1>1, <2>1, <2>2, <2>3 DEF CommandInv, EvidenceKept
<1>9. CASE ContainerGone
  <2>1. plan' = Tail(plan) /\ wanted' = wanted /\ ~wanted /\ Kind(Head(plan)) = "down"
    BY <1>3, <1>9 DEF ContainerGone, Next1, Pop, hubVars
  <2>2. plan' # << >> => Kind(Head(plan')) \in {"cleaned", "uninstalled"}
    BY <1>4, <2>1 DEF Follow
  <2>3. plan' # << >> => Ready(Kind(Head(plan)))'
    BY <2>1, <2>2 DEF Ready, AttemptKinds
  <2> QED
    BY <1>1, <1>4, <2>1, <2>3 DEF CommandInv, EvidenceKept
<1> QED
  BY <1>5, <1>6, <1>7, <1>8, <1>9

\* A command opens an operation of the store.
LEMMA CommandsOpen ==
    ASSUME StoreInv, CommandInv, Open
    PROVE  CommandInv' /\ StoreInv' /\ EvidenceStep
<1>1. op = None /\ plan # << >> /\ plan' = Tail(plan) /\ wanted' = wanted /\ ~EvidenceLost
  BY DEF Open, Next1, Pop, hubVars, EvidenceLost
<1>2. /\ PlanOK /\ Head(plan) \in PlanSteps /\ Ready(Kind(Head(plan)))
      /\ wanted \in BOOLEAN /\ (wanted => AttemptSays \/ StateSays)
      /\ Shape(Tail(plan))
      /\ plan' # << >> => <<Kind(Head(plan)), Kind(Head(plan'))>> \in Follow
      /\ Archives(plan') => Archives(plan) /\ Kind(Head(plan)) \in BeforeArchive
  BY <1>1, TailShape DEF CommandInv, PlanOK
<1> DEFINE k == Kind(Head(plan))
           s == Head(plan)
<1>3. ASSUME StoreInv', SameEvidence, op' # None,
             \/ k \in StateKinds /\ op'.f = "state.json" /\ op'.v = k
             \/ k \in AttemptKinds /\ op'.f = "install-attempt.json" /\ op'.v = k
             \/ k = "archive" /\ op'.f \in Final
             \/ k = "remove_attempt" /\ op'.f = "install-attempt.json" /\ op'.v = None
      PROVE  CommandInv' /\ StoreInv' /\ EvidenceStep
  <2>1. vis' = vis /\ AttemptSays' = AttemptSays /\ StateSays' = StateSays
    BY <1>3 DEF SameEvidence, AttemptSays, StateSays
  <2>2. PlanOK'
    BY <1>1, <1>2, <1>3, <2>1 DEF PlanOK, BeforeArchive, StateKinds, AttemptKinds
  <2>3. Harmless(op)'
    BY <1>1, <1>2, <1>3, <2>1 DEF Harmless, Ready, StateKinds, AttemptKinds
  <2>4. plan' # << >> => Ready(Kind(Head(plan)))'
    <3> SUFFICES ASSUME plan' # << >> PROVE Ready(Kind(Head(plan)))'
      OBVIOUS
    <3> DEFINE n == Kind(Head(plan'))
    <3>1. <<k, n>> \in Follow
      BY <1>2
    <3>2. CASE k \in StateKinds
      BY <1>1, <1>2, <1>3, <2>1, <3>1, <3>2 DEF Follow, Ready, StateKinds, AttemptKinds
    <3>3. CASE k \in AttemptKinds
      BY <1>1, <1>2, <1>3, <2>1, <3>1, <3>3 DEF Follow, Ready, StateKinds, AttemptKinds
    <3>4. CASE k \in {"archive", "remove_attempt"}
      BY <1>1, <1>2, <1>3, <2>1, <3>1, <3>4 DEF Follow, Ready, StateKinds, AttemptKinds
    <3> QED
      BY <1>3, <3>2, <3>3, <3>4
  <2> QED
    BY <1>1, <1>2, <1>3, <2>1, <2>2, <2>3, <2>4, SameIsStutter DEF CommandInv
<1>4. CASE Next1("put") /\ s.f = "state.json" /\ HubSave(s.v)
  <2>1. k = s.v /\ s.v \in StateKinds /\ s.v \in Contents
    BY <1>2, <1>4, KindFacts, HostAssumption DEF Next1, StateKinds, Contents
  <2>2. StartSave("state.json", s.v) /\ "state.json" \in Files /\ "state.json" \in Registers
    BY <1>4 DEF HubSave, Files, Registers
  <2>3. StoreInv' /\ SameEvidence
    BY <2>1, <2>2, StartInv
  <2>4. op' # None /\ op'.f = "state.json" /\ op'.v = s.v
    BY <2>1, <2>2, BeginDoes DEF StartSave, StoreLabels, SaveLabels
  <2> QED
    BY <1>3, <2>1, <2>3, <2>4
<1>5. CASE Next1("put") /\ s.f = "install-attempt.json" /\ Save(s.f, s.v)
  <2>1. k = s.v /\ s.v \in AttemptKinds /\ s.v \in Contents
    BY <1>2, <1>5, KindFacts, HostAssumption DEF Next1, AttemptKinds, Contents
  <2>2. /\ StartSave("install-attempt.json", s.v)
        /\ "install-attempt.json" \in Files /\ "install-attempt.json" \in Registers
    BY <1>5 DEF Save, Files, Registers
  <2>3. StoreInv' /\ SameEvidence
    BY <2>1, <2>2, StartInv
  <2>4. op' # None /\ op'.f = "install-attempt.json" /\ op'.v = s.v
    BY <2>1, <2>2, BeginDoes DEF StartSave, StoreLabels, SaveLabels
  <2> QED
    BY <1>3, <2>1, <2>3, <2>4
<1>6. CASE Next1("archive") /\ Archive(vis["state.json"])
  <2>1. k = "archive"
    BY <1>2, <1>6, KindFacts DEF Next1
  <2>2. vis["state.json"] \in Final
    <3>1. 1 \in 1 .. Len(plan) /\ plan[1] = Head(plan)
      BY <1>1, <1>2 DEF PlanOK, Shape
    <3> QED
      BY <1>2, <2>1, <3>1 DEF PlanOK, Archives
  <2>3. StoreInv' /\ SameEvidence
    BY <1>6, <2>2, StartInv
  <2>4. op' # None /\ op'.f = vis["state.json"]
    BY <1>6, <2>2, BeginDoes, ContentsAssumption
       DEF Archive, StoreLabels, ArchiveLabels, Registers, Contents
  <2> QED
    BY <1>3, <2>1, <2>2, <2>3, <2>4
<1>7. CASE Next1("remove_attempt") /\ Remove
  <2>1. k = "remove_attempt"
    BY <1>2, <1>7, KindFacts DEF Next1
  <2>2. StoreInv' /\ SameEvidence
    BY <1>7, StartInv
  <2>3. op' # None /\ op'.f = "install-attempt.json" /\ op'.v = None
    BY <1>7, BeginDoes DEF Remove, StoreLabels, RemoveLabels, Registers, Files
  <2> QED
    BY <1>3, <2>1, <2>2, <2>3
<1> QED
  BY <1>4, <1>5, <1>6, <1>7 DEF Open

\* A system call of the running operation.
LEMMA CommandsCall ==
    ASSUME StoreInv, CommandInv, StoreMoves
    PROVE  CommandInv'
<1>1. StoreEffect /\ StoreInv' /\ wanted' = wanted /\ plan' = plan
  BY StoreDoes, StoreStepInv DEF StoreMoves, hubVars
<1>2. op # None /\ op \in Operation /\ Harmless(op) /\ ~EvidenceLost
  BY <1>1 DEF StoreEffect, CommandInv, EvidenceLost
<1>3. /\ PlanOK /\ (plan # << >> => Ready(Kind(Head(plan))))
      /\ wanted \in BOOLEAN /\ (wanted => AttemptSays \/ StateSays)
  BY <1>2 DEF CommandInv
<1>4. disk'["state.json"] # {} /\ disk'["install-attempt.json"] # {}
  BY <1>1 DEF StoreInv, FilesOK, Registers, Files
<1>5. /\ op.f # "install-attempt.json" /\ AttemptSays => AttemptSays'
      /\ op.f # "state.json" /\ StateSays => StateSays'
      /\ op.f = "state.json" /\ op.v \in {"installed", "uninstalling"} /\ StateSays => StateSays'
  BY <1>1, <1>4 DEF StoreEffect, AttemptSays, StateSays, Files
<1>6. /\ op' = None /\ op.f = "install-attempt.json" /\ op.v = "starting" => AttemptSays'
      /\ op' = None /\ op.f = "state.json" /\ op.v = "installed" => StateSays'
      /\ op' # None => op'.f = op.f /\ op'.v = op.v
  BY <1>1 DEF StoreEffect, AttemptSays, StateSays
<1>7. "state.json" \notin Final /\ "install-attempt.json" \notin Final
  BY ContentsAssumption DEF Files
<1>8. PlanOK'
  BY <1>1, <1>2, <1>3, <1>6 DEF PlanOK, StoreEffect, Files
<1>9. ASSUME wanted PROVE (AttemptSays \/ StateSays)' /\ (op' # None => Harmless(op)')
  <2>1. CASE op.f = "state.json" /\ op.v = "installed" /\ AttemptSays
    BY <1>5, <1>6, <2>1 DEF Harmless
  <2>2. CASE op.f = "state.json" /\ op.v = "uninstalling"
    BY <1>3, <1>5, <1>6, <1>9, <2>2 DEF Harmless
  <2>3. CASE op.f \in Final /\ AttemptSays
    BY <1>5, <1>6, <1>7, <2>3 DEF Harmless
  <2>4. CASE op.f = "install-attempt.json" /\ op.v = None /\ StateSays
    BY <1>5, <1>6, <2>4 DEF Harmless
  <2> QED
    BY <1>2, <1>9, <2>1, <2>2, <2>3, <2>4 DEF Harmless
<1>10. plan # << >> => Ready(Kind(Head(plan)))'
  BY <1>1, <1>2, <1>3, <1>5, <1>6, <1>7 DEF Ready
<1> QED
  BY <1>1, <1>3, <1>8, <1>9, <1>10 DEF CommandInv, Harmless

LEMMA CommandsFail ==
    ASSUME StoreInv, CommandInv, CommandRaises \/ CommandKilled
    PROVE  CommandInv' /\ StoreInv' /\ EvidenceStep
<1>1. /\ wanted' = wanted /\ op' = None /\ UNCHANGED <<vis, disk>> /\ ~EvidenceLost
      /\ plan' \in {CleanPlan, << >>}
      /\ StoreRaise \/ StoreKill \/ UNCHANGED <<files, temp, op, orphans, done>>
  BY DEF CommandRaises, CommandKilled, StoreRaise, StoreKill, Next1, Failed, EvidenceLost, hubVars, files
<1>2. StoreInv' /\ EvidenceStep
  <2>1. CASE UNCHANGED <<files, temp, op, orphans, done>>
    <3>1. StoreInv'
      BY <2>1 DEF StoreInv, FilesOK, PhaseOK, Pending, OpAt, files
    <3> QED
      BY <2>1, <3>1, SameIsStutter DEF SameEvidence, files
  <2> QED
    BY <1>1, <2>1, InterruptsInv
<1>3. PlanOK'
  BY <1>1, CleanShape, EmptyShape DEF PlanOK
<1>4. plan' # << >> => Ready(Kind(Head(plan)))'
  BY <1>1, CleanShape DEF Ready, AttemptKinds
<1> QED
  BY <1>1, <1>2, <1>3, <1>4 DEF CommandInv, AttemptSays, StateSays

LEMMA CommandsLosePower ==
    ASSUME StoreInv, CommandInv, PowerLoss
    PROVE  CommandInv'
<1>1. plan' = << >> /\ wanted' = wanted /\ StorePowerLoss /\ op' = None /\ StoreInv'
  BY PowerLossInv DEF PowerLoss, HubPowerLoss, StorePowerLoss
<1>2. PlanOK'
  BY <1>1, EmptyShape DEF PlanOK
<1>3. dir' \subseteq dir /\ orphans' = orphans \ dir'
  BY <1>1 DEF StorePowerLoss
<1>4. CASE "state_dir" \in dir'
  <2>1. \A f \in Files : HomesOf(f) \subseteq dir'
    BY <1>4 DEF HomesOf, DirOf
  <2>2. \A f \in Files : vis'[f] \in disk[f] /\ disk'[f] = {vis'[f]}
    BY <1>1, <2>1 DEF StorePowerLoss, Registers
  <2>3. (AttemptSays => AttemptSays') /\ (StateSays => StateSays')
    BY <2>2 DEF AttemptSays, StateSays, Files
  <2> QED
    BY <1>1, <1>2, <1>3, <1>4, <2>3 DEF CommandInv, EvidenceLost
<1>5. CASE "state_dir" \notin dir'
  <2>1. wanted => "state_dir" \in orphans
    <3> SUFFICES ASSUME wanted, "state_dir" \notin orphans PROVE FALSE
      OBVIOUS
    <3>1. AttemptSays \/ StateSays
      BY DEF CommandInv, EvidenceLost
    <3>2. \E f \in Files : vis[f] # None
      BY <3>1, HostAssumption, ContentsAssumption
         DEF StoreInv, FilesOK, AttemptSays, StateSays, Registers, Files
    <3>3. "state_dir" \in dir
      BY <3>2 DEF StoreInv, FilesOK, HomesOf, Registers
    <3>4. "state_dir" \notin kept
      BY <1>1, <1>5, <3>3 DEF StorePowerLoss, StoreInv, FilesOK
    <3>5. OpAt("publish_state_dir")
      BY <3>3, <3>4 DEF StoreInv, FilesOK, Pending
    <3> QED
      BY <3>2, <3>5 DEF StoreInv, PhaseOK, OpAt
  <2> QED
    BY <1>1, <1>2, <1>3, <1>5, <2>1 DEF CommandInv, EvidenceLost
<1> QED
  BY <1>4, <1>5

LEMMA HubLeavesWanted == HubStep \/ HubFails => wanted' = wanted
BY DEF HubStep, HubFails, Boot, KeyOpen, KeyWrite, KeySync, KeyRead, NginxTest, Spawn, Observe,
   ObserveStop, Terminate, Wait, WaitKill, Return, StopTimeout, KeyRaises, PrepareRaises, SpawnRaises,
   HubKill, ChildExits

LEMMA CommandsStay ==
    ASSUME StoreInv, CommandInv, UNCHANGED <<storeVars, plan, wanted>>
    PROVE  CommandInv' /\ StoreInv' /\ EvidenceStep
<1>1. UNCHANGED <<vis, disk, dir, kept, temp, op, orphans, done, plan, wanted>>
  BY DEF storeVars, files
<1>2. StoreInv' /\ EvidenceStep
  BY <1>1, SameIsStutter DEF SameEvidence, StoreInv, FilesOK, PhaseOK, Pending, OpAt
<1>3. CommandInv'
  BY <1>1 DEF CommandInv, PlanOK, AttemptSays, StateSays, EvidenceLost, Harmless, Ready
<1> QED
  BY <1>2, <1>3

LEMMA HostInit == Init => StoreInv /\ CommandInv /\ Evidence!Init
<1> SUFFICES ASSUME Init PROVE StoreInv /\ CommandInv /\ Evidence!Init
  OBVIOUS
<1>1. StoreInv /\ Evidence!Init /\ op = None
  BY StoreInvInit DEF Init, StoreInit
<1>2. plan = << >> /\ wanted = FALSE
  BY DEF Init, HubInit
<1>3. CommandInv
  BY <1>1, <1>2, EmptyShape DEF CommandInv, PlanOK
<1> QED
  BY <1>1, <1>3

LEMMA HostNext ==
    StoreInv /\ CommandInv /\ [Next]_vars => StoreInv' /\ CommandInv' /\ EvidenceStep
<1> SUFFICES ASSUME StoreInv, CommandInv, [Next]_vars PROVE StoreInv' /\ CommandInv' /\ EvidenceStep
  OBVIOUS
<1>1. CASE Install \/ Uninstall \/ Refused \/ Up \/ WaitHealthy \/ StopContainer \/ ContainerGone
  <2>1. UNCHANGED storeVars
    BY <1>1 DEF Install, Uninstall, Refused, Up, WaitHealthy, StopContainer, ContainerGone
  <2>2. UNCHANGED <<vis, disk, dir, kept, temp, op, orphans, done>>
    BY <2>1 DEF storeVars, files
  <2>3. StoreInv' /\ EvidenceStep
    BY <2>2, SameIsStutter DEF SameEvidence, StoreInv, FilesOK, PhaseOK, Pending, OpAt
  <2> QED
    BY <1>1, <2>3, CommandsBegin, CommandsGoOn
<1>2. CASE Open
  BY <1>2, CommandsOpen
<1>3. CASE StoreMoves
  BY <1>3, CommandsCall, StoreStepInv DEF StoreMoves
<1>4. CASE CommandRaises \/ CommandKilled
  BY <1>4, CommandsFail
<1>5. CASE PowerLoss
  BY <1>5, CommandsLosePower, PowerLossInv DEF PowerLoss
<1>6. CASE HubMoves \/ WorkerMoves \/ UNCHANGED vars
  <2>1. UNCHANGED <<storeVars, plan, wanted>>
    BY <1>6, HubLeavesWanted DEF HubMoves, WorkerMoves, vars, hubVars
  <2> QED
    BY <2>1, CommandsStay
<1> QED
  BY <1>1, <1>2, <1>3, <1>4, <1>5, <1>6 DEF Next

LEMMA HostInvariance == Spec => [](StoreInv /\ CommandInv)
BY HostInit, HostNext, PTL DEF Spec

\* StateStore, InstallAttemptStore and HubStateStore implement EvidenceStore:
\* readers find an old or a new document and never a torn one, and what an
\* operation returned is not undone by a power loss.
THEOREM EvidenceIsDurable == Spec => Durable
<1>1. StoreInv /\ CommandInv /\ [Next]_vars => [Evidence!Next]_(Evidence!vars)
  BY HostNext DEF EvidenceStep
<1>2. Init => Evidence!Init
  BY HostInit
<1> QED
  BY <1>1, <1>2, HostInvariance, PTL DEF Spec, Durable, Evidence!Spec

\* HubInstaller and HubUninstaller: a container that Docker keeps up is known
\* to evidence that a power loss cannot undo.
THEOREM RuntimesAreWitnessed == Spec => []RuntimeIsWitnessed
<1>1. ASSUME StoreInv, CommandInv PROVE RuntimeIsWitnessed
  <2> SUFFICES ASSUME wanted, orphans = {}
               PROVE  \/ May("install-attempt.json") \subseteq {"starting"}
                      \/ May("state.json") \subseteq {"installed", "uninstalling"}
    BY DEF RuntimeIsWitnessed
  <2>1. AttemptSays \/ StateSays
    BY <1>1 DEF CommandInv, EvidenceLost
  <2>2. \E f \in Files : vis[f] # None
    BY <1>1, <2>1, HostAssumption, ContentsAssumption
       DEF StoreInv, FilesOK, AttemptSays, StateSays, Registers, Files
  <2>3. "state_dir" \notin Pending
    BY <1>1, <2>2 DEF StoreInv, PhaseOK, Pending, OpAt
  <2>4. \A f \in Files : May(f) = disk[f]
    BY <1>1, <2>3 DEF StoreInv, FilesOK, May, HomesOf, DirOf
  <2> QED
    BY <2>1, <2>4 DEF AttemptSays, StateSays, Files
<1> QED
  BY <1>1, HostInvariance, PTL
=============================================================================
