---------------------------- MODULE RuntimeProofs ----------------------------
(***************************************************************************)
(* Proofs about the two journaled transactions of the split runtime, for   *)
(* every bound on commands, crashes and exceptions: Reconfigure (for every *)
(* number of operators, every set of environments and fingerprints) and    *)
(* Deployment.                                                             *)
(*                                                                         *)
(* Reconfigure.  The invariant has two parts.  FilesInv is what the files  *)
(* and the container satisfy at every instant, and so what a crash leaves: *)
(* either no journal and one generation, or a journal beside the old       *)
(* state, a commit, or a state that neither the journal's old nor its      *)
(* verified new generation explains (which recovery refuses).  RunInv(p)   *)
(* says how far the run that holds the lock has come.                      *)
(*                                                                         *)
(* Deployment.  What stays in Docker is covered by what the running        *)
(* command still has to do: DeployInv relates the objects to the rest of   *)
(* the plan, so a command that is killed at any effect leaves evidence of  *)
(* what it made, and a cleanup that ends without an error has left nothing *)
(* of its attempt.  WholeOK adds how far install has come and in which     *)
(* order effects follow one another.                                       *)
(***************************************************************************)
EXTENDS Reconfigure, Deployment, TLAPS

Whole == /\ api # None
         /\ api.id = state.api /\ api.env = active
         /\ state.fp = Fingerprint[active]

\* A journal or a copy of it describes two generations, told apart by the
\* container's Id.
Describes(j) ==
    /\ j.oldFp = Fingerprint[j.old] /\ j.newFp = Fingerprint[j.new]
    /\ j.oldApi <= lastId /\ j.newApi # j.oldApi

Restorable == OldState /\ old = journal.old /\ new = journal.new
Finished == /\ Committed
            /\ Live(journal.new) /\ active = journal.new /\ state.fp = journal.newFp
Past == journal.status # "verified" /\ state.api # journal.oldApi

FilesInv ==
    /\ state.api <= lastId
    /\ journal = None => Whole
    /\ journal # None => Describes(journal) /\ (Restorable \/ Finished \/ Past)

SameRun(j, m) == /\ j.old = m.old /\ j.new = m.new /\ j.oldFp = m.oldFp /\ j.newFp = m.newFp
                 /\ j.oldApi = m.oldApi

Taking == {"snapshot_old", "snapshot_new", "prepare"}
Trying == {"mark", "remove", "write", "create", "probe", "verified", "save"}
Wanted(p) == IF mode[p] = "cutover" THEN mine[p].new ELSE mine[p].old

\* Where the run is, by the next effect and the phase.
PlaceOK(p) ==
    /\ pc[p] \in {"recover", "load"} => mode[p] = "recover"
    /\ pc[p] = "load" => journal = None
    /\ pc[p] \in Taking => mode[p] = "cutover" /\ journal = None
    /\ pc[p] = "verified" => mode[p] = "cutover"
    /\ pc[p] = "record_failure" => mode[p] = "rollback"
    /\ mode[p] = "finish" => pc[p] \in {"probe"} \cup Cleaning
    /\ pc[p] \in Trying \cup Cleaning \cup {"record_failure"} => journal # None

\* Its copy of the journal.
CopyOK(p) ==
    /\ pc[p] \notin {"recover", "load"} => mine[p] # None /\ Describes(mine[p])
    /\ pc[p] \notin {"recover", "load"} /\ mode[p] = "cutover" => mine[p].new = target[p]
    /\ pc[p] \notin {"recover", "load"} /\ mode[p] = "finish" => mine[p].new = target[p]
    /\ pc[p] \in Trying \cup Cleaning \cup {"record_failure"} => SameRun(journal, mine[p])
    /\ pc[p] \in {"remove", "write", "create", "probe", "save"} => journal = mine[p]
    /\ pc[p] \in Trying \ {"mark"} /\ mode[p] \in {"rollback", "recover"} => journal.status = "rolling-back"

\* What it has taken, written and started.
TakenOK(p) ==
    /\ pc[p] \in Taking => /\ mine[p].old = active /\ mine[p].oldFp = state.fp
                           /\ mine[p].oldApi = state.api /\ mine[p].newApi = None
    /\ pc[p] \in {"snapshot_new", "prepare"} => old = mine[p].old
    /\ pc[p] = "prepare" => new = mine[p].new

StartedOK(p) ==
    /\ pc[p] \in Trying /\ mode[p] \in {"cutover", "recover"} => Restorable
    /\ pc[p] \in {"create", "probe", "verified", "save"} /\ mode[p] # "finish" => active = Wanted(p)
    /\ pc[p] \in {"probe", "verified", "save"} /\ mode[p] # "finish" =>
         /\ api # None /\ api.env = active
         /\ api.id = lastId /\ mine[p].oldApi < lastId
    /\ pc[p] \in {"verified", "save"} /\ mode[p] = "cutover" => mine[p].newApi = api.id
    /\ pc[p] = "save" /\ mode[p] = "cutover" => mine[p].status = "verified"

\* What it leaves once the state file is saved.
LeavesOK(p) ==
    /\ mode[p] = "finish" => Finished
    /\ pc[p] \in Cleaning /\ mode[p] = "cutover" => Finished
    /\ pc[p] \in Cleaning /\ mode[p] \in {"rollback", "recover"} =>
         Past /\ Whole /\ active = mine[p].old

RunInv(p) == pc[p] # "idle" =>
    /\ lock = p
    /\ PlaceOK(p) /\ CopyOK(p) /\ TakenOK(p) /\ StartedOK(p) /\ LeavesOK(p)

IInv == TypeOK /\ FilesInv /\ \A p \in Operators : RunInv(p)
-----------------------------------------------------------------------------
(* Facts every step uses.                                                   *)

LEMMA InitInv == Init => IInv
<1> SUFFICES ASSUME Init PROVE IInv
  OBVIOUS
<1>1. TypeOK
  BY ConstantsAssumption DEF Init, TypeOK, Fingerprints, Container, Modes, Steps, Results
<1>2. FilesInv
  BY ConstantsAssumption, NoneAssumption DEF Init, FilesInv, Whole, Container
<1>3. \A p \in Operators : RunInv(p)
  BY DEF Init, RunInv
<1> QED
  BY <1>1, <1>2, <1>3 DEF IInv

\* The flock: while one run is under way every other process is idle.
LEMMA OthersIdle ==
    ASSUME IInv, NEW p \in Operators, pc[p] # "idle", NEW q \in Operators, q # p
    PROVE  pc[q] = "idle"
BY DEF IInv, RunInv

\* So a step of one process leaves RunInv of the others alone.
LEMMA StepOfOne ==
    ASSUME IInv, NEW p \in Operators, pc[p] # "idle",
           \A q \in Operators \ {p} : pc'[q] = pc[q],
           TypeOK', FilesInv', RunInv(p)'
    PROVE  IInv'
<1>1. ASSUME NEW q \in Operators PROVE RunInv(q)'
  <2>1. CASE q = p
    BY <2>1
  <2>2. CASE q # p
    BY <2>2, OthersIdle DEF RunInv
  <2> QED
    BY <2>1, <2>2
<1> QED
  BY <1>1 DEF IInv

\* A run that ends leaves what the files say.
LEMMA LeaveInv ==
    ASSUME IInv, NEW p \in Operators, pc[p] # "idle", NEW r \in Results, Leave(p, r),
           TypeOK', FilesInv'
    PROVE  IInv'
<1>1. pc' = [pc EXCEPT ![p] = "idle"]
  BY DEF Leave, Go
<1>2. pc'[p] = "idle" /\ \A q \in Operators \ {p} : pc'[q] = pc[q]
  BY <1>1 DEF IInv, TypeOK
<1>3. RunInv(p)'
  BY <1>2 DEF RunInv
<1> QED
  BY <1>2, <1>3, StepOfOne

\* What a run that is not idle may rely on.
LEMMA Facts ==
    ASSUME IInv, NEW p \in Operators, pc[p] # "idle"
    PROVE  /\ TypeOK /\ FilesInv /\ lock = p
           /\ PlaceOK(p) /\ CopyOK(p) /\ TakenOK(p) /\ StartedOK(p) /\ LeavesOK(p)
BY DEF IInv, RunInv

-----------------------------------------------------------------------------
(* The steps before the journal exists.                                     *)

LEMMA BeginInv ==
    ASSUME IInv, NEW p \in Operators, NEW e \in Environments, Begin(p, e)
    PROVE  IInv'
<1>1. TypeOK'
  BY ConstantsAssumption DEF Begin, Go, IInv, TypeOK, files, Modes, Steps, Results
<1>2. FilesInv'
  BY DEF Begin, IInv, FilesInv, Whole, Describes, Restorable, Finished, Past, OldState,
         Committed, Live, files
<1>3. CASE LockFree
  <2>1. /\ pc' = [pc EXCEPT ![p] = "recover"] /\ lock' = p
        /\ mode' = [mode EXCEPT ![p] = "recover"]
    BY <1>3 DEF Begin, Go
  <2>2. \A q \in Operators : pc[q] = "idle"
    BY <1>3, ConstantsAssumption DEF LockFree, IInv, RunInv
  <2>3. \A q \in Operators \ {p} : RunInv(q)'
    BY <2>1, <2>2 DEF RunInv, IInv, TypeOK
  <2>4. pc'[p] = "recover" /\ mode'[p] = "recover"
    BY <2>1 DEF IInv, TypeOK
  <2>5. RunInv(p)'
    BY <2>1, <2>4 DEF RunInv, PlaceOK, CopyOK, TakenOK, StartedOK, LeavesOK, Taking, Trying, Cleaning
  <2> QED
    BY <1>1, <1>2, <2>3, <2>5 DEF IInv
<1>4. CASE ~LockFree
  <2>1. UNCHANGED <<pc, lock, mode, target, mine, active, old, new, journal, state, api, lastId>>
    BY <1>4 DEF Begin, files
  <2>2. \A q \in Operators : RunInv(q)'
    BY <2>1 DEF IInv, RunInv, PlaceOK, CopyOK, TakenOK, StartedOK, LeavesOK, Whole, Describes,
         Restorable, Finished, Past, OldState, Committed, Live, SameRun, Wanted
  <2> QED
    BY <1>1, <1>2, <2>2 DEF IInv
<1> QED
  BY <1>3, <1>4

LEMMA RefuseInv ==
    ASSUME IInv, NEW p \in Operators, pc[p] # "idle", Refuse(p)
    PROVE  IInv'
<1>1. TypeOK'
  BY DEF Refuse, Leave, Go, IInv, TypeOK, files, Modes, Steps, Results
<1>2. FilesInv'
  BY DEF Refuse, IInv, FilesInv, Whole, Describes, Restorable, Finished, Past, OldState,
         Committed, Live, files
<1>3. Leave(p, "refused") /\ "refused" \in Results
  BY DEF Refuse, Results
<1> QED
  BY <1>1, <1>2, <1>3, LeaveInv

LEMMA RecoverInv ==
    ASSUME IInv, NEW p \in Operators, Recover(p)
    PROVE  IInv'
<1> USE Facts DEF Recover
<1>0. pc[p] = "recover" /\ UNCHANGED <<unraid, active, old, new, journal, state, api, lastId, lock, target>>
  BY DEF files
<1>1. CASE journal = None
  <2>1. pc' = [pc EXCEPT ![p] = "load"] /\ UNCHANGED <<mode, mine>>
    BY <1>1 DEF Go
  <2>2. TypeOK'
    BY <2>1, <1>0 DEF TypeOK, Steps
  <2>3. FilesInv'
    BY <1>0 DEF FilesInv, Whole, Describes, Restorable, Finished, Past, OldState, Committed, Live
  <2>4. pc'[p] = "load" /\ \A q \in Operators \ {p} : pc'[q] = pc[q]
    BY <2>1 DEF TypeOK, IInv
  <2>5. RunInv(p)'
    BY <1>0, <1>1, <2>1, <2>4 DEF RunInv, PlaceOK, CopyOK, TakenOK, StartedOK, LeavesOK, Taking, Trying, Cleaning
  <2> QED
    BY <1>0, <2>2, <2>3, <2>4, <2>5, StepOfOne
<1>2. CASE journal # None
  <2> DEFINE c == CommittedFor(target[p])
             j == [journal EXCEPT !.status = IF c THEN @ ELSE "rolling-back"]
  <2>1. /\ Recoverable(target[p])
        /\ mine' = [mine EXCEPT ![p] = j]
        /\ mode' = [mode EXCEPT ![p] = IF c THEN "finish" ELSE "recover"]
        /\ pc' = [pc EXCEPT ![p] = IF c THEN "probe" ELSE "mark"]
    BY <1>2 DEF Go
  <2>2. journal \in Journal /\ Describes(journal)
    BY <1>2, <1>0 DEF TypeOK, FilesInv
  <2>3. /\ j \in Journal /\ SameRun(journal, j) /\ j.newApi = journal.newApi
        /\ c => j = journal
    BY <2>2 DEF Journal, SameRun, Status
  <2>4. j # None
    BY <2>3, NoneAssumption
  <2>5. Describes(j)
    BY <2>2, <2>3 DEF Describes, SameRun
  <2> HIDE DEF j
  <2>6. TypeOK'
    BY <1>0, <2>1, <2>3 DEF TypeOK, Steps, Modes
  <2>7. FilesInv'
    BY <1>0 DEF FilesInv, Whole, Describes, Restorable, Finished, Past, OldState, Committed, Live
  <2>8. /\ pc'[p] = (IF c THEN "probe" ELSE "mark") /\ \A q \in Operators \ {p} : pc'[q] = pc[q]
        /\ mine'[p] = j /\ mode'[p] = IF c THEN "finish" ELSE "recover"
    BY <2>1, <1>0 DEF TypeOK
  <2>9. lock' = p /\ j.old = journal.old /\ j.new = journal.new
    BY <1>0, <2>3 DEF SameRun
  <2>10. CASE c
    <3>1. Finished /\ journal.new = target[p]
      <4>1. Evidence(target[p]) /\ Live(target[p]) /\ Committed
        BY <2>1, <2>10 DEF Recoverable, CommittedFor
      <4>2. ~Restorable /\ ~Past
        BY <4>1, <2>2 DEF Restorable, Past, Committed, OldState, Describes
      <4>3. Finished
        BY <4>2, <1>0, <1>2 DEF FilesInv
      <4> QED
        BY <4>1, <4>3 DEF Finished, Live
    <3>2. Finished'
      BY <1>0, <3>1 DEF Finished, Committed, Live
    <3>3. pc'[p] = "probe" /\ mode'[p] = "finish" /\ mine'[p] = j /\ j = journal /\ journal' = journal
      BY <2>8, <2>10, <2>3, <1>0
    <3>4. PlaceOK(p)' /\ TakenOK(p)' /\ LeavesOK(p)' /\ StartedOK(p)'
      BY <3>3, <3>2, <1>2 DEF PlaceOK, TakenOK, LeavesOK, StartedOK, Taking, Trying, Cleaning
    <3>5. Describes(mine[p])' /\ SameRun(journal', mine'[p])
      BY <2>5, <2>3, <1>0, <3>3 DEF Describes, SameRun
    <3>6. mine'[p].new = target'[p]
      BY <3>3, <3>1, <1>0
    <3>7. CopyOK(p)'
      BY <3>3, <3>5, <3>6, <2>4, <1>0, <1>2 DEF CopyOK, Taking, Trying, Cleaning
    <3> QED
      BY <1>0, <2>6, <2>7, <2>8, <2>9, <3>4, <3>7, StepOfOne DEF RunInv
  <2>11. CASE ~c
    <3>1. Restorable
      BY <2>1, <2>11 DEF Recoverable, Evidence, Restorable
    <3>2. Restorable'
      BY <1>0, <3>1 DEF Restorable, OldState
    <3>3. pc'[p] = "mark" /\ mode'[p] = "recover" /\ mine'[p] = j /\ journal' = journal
      BY <2>8, <2>11, <1>0
    <3>4. PlaceOK(p)' /\ TakenOK(p)' /\ LeavesOK(p)' /\ StartedOK(p)'
      BY <3>3, <3>2, <1>2 DEF PlaceOK, TakenOK, LeavesOK, StartedOK, Taking, Trying, Cleaning
    <3>5. Describes(mine[p])' /\ SameRun(journal', mine'[p])
      BY <2>5, <2>3, <1>0, <3>3 DEF Describes, SameRun
    <3>6. CopyOK(p)'
      BY <3>3, <3>5, <2>4, <1>0, <1>2 DEF CopyOK, Taking, Trying, Cleaning
    <3> QED
      BY <1>0, <2>6, <2>7, <2>8, <2>9, <3>4, <3>6, StepOfOne DEF RunInv
  <2> QED
    BY <2>10, <2>11
<1> QED
  BY <1>1, <1>2

LEMMA LoadInv ==
    ASSUME IInv, NEW p \in Operators, Load(p)
    PROVE  IInv'
<1> DEFINE m == [status |-> "prepared", oldFp |-> state.fp, newFp |-> Fingerprint[target[p]],
                 old |-> active, new |-> target[p], oldApi |-> api.id, newApi |-> None]
<1>0. /\ pc[p] = "load" /\ Current(p)
      /\ UNCHANGED <<unraid, active, old, new, journal, state, api, lastId, lock, target>>
      /\ mine' = [mine EXCEPT ![p] = m] /\ mode' = [mode EXCEPT ![p] = "cutover"]
      /\ pc' = [pc EXCEPT ![p] = "snapshot_old"]
      /\ UNCHANGED <<result, runs, faults>>
  BY DEF Load, Go, files
<1>1. TypeOK /\ FilesInv /\ lock = p /\ journal = None
  BY <1>0, Facts DEF Current
<1>2. Whole /\ api.id = state.api /\ state.api <= lastId /\ state.api \in Nat
  BY <1>1 DEF FilesInv, Whole, TypeOK
<1>3. m \in Journal
  BY <1>1, <1>2, ConstantsAssumption DEF TypeOK, Journal, Status, Fingerprints
<1>4. m # None
  BY <1>3, NoneAssumption
<1>5. /\ m.old = active /\ m.oldFp = state.fp /\ m.oldApi = state.api /\ m.newApi = None
      /\ m.new = target[p] /\ m.newFp = Fingerprint[m.new] /\ m.oldFp = Fingerprint[m.old]
  BY <1>2 DEF Whole
<1> HIDE DEF m
<1>6. TypeOK'
  BY <1>0, <1>1, <1>3 DEF TypeOK, Steps, Modes
<1>7. FilesInv'
  BY <1>0, <1>1 DEF FilesInv, Whole
<1>8. /\ pc'[p] = "snapshot_old" /\ \A q \in Operators \ {p} : pc'[q] = pc[q]
      /\ mine'[p] = m /\ mode'[p] = "cutover"
  BY <1>0, <1>1 DEF TypeOK
<1>9. Describes(mine[p])'
  BY <1>8, <1>5, <1>2, <1>0, ConstantsAssumption DEF Describes
<1>10. RunInv(p)'
  BY <1>0, <1>1, <1>4, <1>5, <1>8, <1>9 DEF RunInv, PlaceOK, CopyOK, TakenOK, LeavesOK, StartedOK, Taking, Trying, Cleaning
<1> QED
  BY <1>0, <1>6, <1>7, <1>8, <1>10, StepOfOne

LEMMA SnapshotInv ==
    ASSUME IInv, NEW p \in Operators, SnapshotOld(p) \/ SnapshotNew(p)
    PROVE  IInv'
<1>0. /\ pc[p] \in {"snapshot_old", "snapshot_new"}
      /\ UNCHANGED <<unraid, active, journal, state, api, lastId, lock, mode, target, mine, result, runs, faults>>
      /\ \/ /\ pc[p] = "snapshot_old" /\ pc' = [pc EXCEPT ![p] = "snapshot_new"]
            /\ old' = mine[p].old /\ new' = new
         \/ /\ pc[p] = "snapshot_new" /\ pc' = [pc EXCEPT ![p] = "prepare"]
            /\ new' = mine[p].new /\ old' = old
  BY DEF SnapshotOld, SnapshotNew, Go
<1>1. /\ TypeOK /\ FilesInv /\ lock = p /\ PlaceOK(p) /\ CopyOK(p) /\ TakenOK(p) /\ StartedOK(p)
      /\ LeavesOK(p)
  BY <1>0, Facts
<1>2. mode[p] = "cutover" /\ journal = None /\ mine[p] # None /\ Describes(mine[p])
  BY <1>0, <1>1 DEF PlaceOK, CopyOK, Taking
<1>3. mine[p] \in Journal
  BY <1>1, <1>2 DEF TypeOK
<1>4. mine[p].old \in Environments /\ mine[p].new \in Environments
  BY <1>3 DEF Journal
<1>5. TypeOK'
  BY <1>0, <1>1, <1>4 DEF TypeOK, Steps
<1>6. FilesInv'
  BY <1>0, <1>1, <1>2 DEF FilesInv, Whole
<1>7. /\ pc[p] = "snapshot_old" => pc'[p] = "snapshot_new"
      /\ pc[p] = "snapshot_new" => pc'[p] = "prepare"
      /\ \A q \in Operators \ {p} : pc'[q] = pc[q]
  BY <1>0, <1>1 DEF TypeOK
<1>8. Describes(mine[p])'
  BY <1>0, <1>2 DEF Describes
<1>9. PlaceOK(p)' /\ CopyOK(p)' /\ StartedOK(p)' /\ LeavesOK(p)'
  BY <1>0, <1>1, <1>2, <1>7, <1>8 DEF PlaceOK, CopyOK, LeavesOK, StartedOK, Taking, Trying, Cleaning
<1>10. TakenOK(p)'
  BY <1>0, <1>1, <1>7 DEF TakenOK, Taking
<1> QED
  BY <1>0, <1>1, <1>5, <1>6, <1>7, <1>9, <1>10, StepOfOne DEF RunInv

-----------------------------------------------------------------------------
(* The journal is saved.                                                    *)

\* What _save_journal leaves, whatever phase it is called in: the journal is
\* the copy, and describes the same run.
LEMMA SavedJournal ==
    ASSUME IInv, NEW p \in Operators, NEW from \in Steps, NEW status \in Status, NEW next \in Steps,
           SaveJournal(p, from, status, next),
           pc[p] \notin {"recover", "load"}
    PROVE  /\ TypeOK'
           /\ mine'[p] = journal' /\ journal' # None /\ journal' \in Journal
           /\ journal'.status = status /\ journal'.newApi = mine[p].newApi
           /\ SameRun(journal', mine[p])
           /\ Describes(journal)' /\ Describes(mine[p])'
           /\ pc'[p] = next /\ \A q \in Operators \ {p} : pc'[q] = pc[q]
           /\ UNCHANGED <<active, old, new, state, api, lastId, lock, mode, target>>
<1> DEFINE m == [mine[p] EXCEPT !.status = status]
<1>0. /\ mine' = [mine EXCEPT ![p].status = status] /\ pc[p] = from
      /\ journal' = mine'[p] /\ pc' = [pc EXCEPT ![p] = next]
      /\ UNCHANGED <<unraid, active, old, new, state, api, lastId, lock, mode, target, result, runs, faults>>
  BY DEF SaveJournal, Go
<1>1. TypeOK /\ mine[p] # None /\ Describes(mine[p])
  BY <1>0, Facts DEF CopyOK, Steps
<1>2. mine[p] \in Journal
  BY <1>1 DEF TypeOK
<1>3. /\ m \in Journal /\ m.status = status /\ m.newApi = mine[p].newApi /\ SameRun(m, mine[p])
  BY <1>2 DEF Journal, SameRun
<1>4. mine' = [mine EXCEPT ![p] = m] /\ mine'[p] = m
  BY <1>0, <1>1 DEF TypeOK
<1>5. m # None
  BY <1>3, NoneAssumption
<1> HIDE DEF m
<1>6. journal' = m
  BY <1>0, <1>4
<1>7. TypeOK'
  BY <1>0, <1>1, <1>3, <1>4, <1>6 DEF TypeOK
<1>8. Describes(journal)' /\ Describes(mine[p])'
  BY <1>0, <1>1, <1>3, <1>4, <1>6 DEF Describes, SameRun
<1>9. pc'[p] = next /\ \A q \in Operators \ {p} : pc'[q] = pc[q]
  BY <1>0, <1>1 DEF TypeOK
<1> QED
  BY <1>0, <1>3, <1>4, <1>5, <1>6, <1>7, <1>8, <1>9

LEMMA PrepareInv ==
    ASSUME IInv, NEW p \in Operators, Prepare(p)
    PROVE  IInv'
<1>0. /\ SaveJournal(p, "prepare", "prepared", "mark") /\ pc[p] = "prepare"
      /\ "prepared" \in Status /\ "prepare" \in Steps /\ "mark" \in Steps
  BY DEF Prepare, SaveJournal, Status, Steps
<1>1. /\ TypeOK /\ FilesInv /\ lock = p /\ PlaceOK(p) /\ CopyOK(p) /\ TakenOK(p)
  BY <1>0, Facts
<1>2. /\ mode[p] = "cutover" /\ journal = None /\ mine[p].new = target[p]
      /\ mine[p].oldFp = state.fp /\ mine[p].oldApi = state.api
      /\ old = mine[p].old /\ new = mine[p].new
  BY <1>0, <1>1 DEF PlaceOK, CopyOK, TakenOK, Taking
<1>3. /\ TypeOK'
      /\ mine'[p] = journal' /\ journal' # None
      /\ SameRun(journal', mine[p])
      /\ Describes(journal)' /\ Describes(mine[p])'
      /\ pc'[p] = "mark" /\ \A q \in Operators \ {p} : pc'[q] = pc[q]
      /\ UNCHANGED <<active, old, new, state, api, lastId, lock, mode, target>>
  BY <1>0, SavedJournal
<1>4. Restorable'
  BY <1>2, <1>3 DEF Restorable, OldState, SameRun
<1>5. FilesInv'
  BY <1>1, <1>3, <1>4 DEF FilesInv
<1>6. PlaceOK(p)' /\ TakenOK(p)' /\ LeavesOK(p)'
  BY <1>2, <1>3 DEF PlaceOK, TakenOK, LeavesOK, Taking, Trying, Cleaning
<1>7. CopyOK(p)' /\ StartedOK(p)'
  BY <1>2, <1>3, <1>4 DEF CopyOK, StartedOK, SameRun, Taking, Trying, Cleaning
<1> QED
  BY <1>0, <1>1, <1>3, <1>5, <1>6, <1>7, StepOfOne DEF RunInv

LEMMA MarkInv ==
    ASSUME IInv, NEW p \in Operators, Mark(p)
    PROVE  IInv'
<1> DEFINE status == IF mode[p] = "cutover" THEN "replacing" ELSE "rolling-back"
           next == IF unraid THEN "remove" ELSE "write"
<1>0. /\ SaveJournal(p, "mark", status, next) /\ pc[p] = "mark"
      /\ status \in Status /\ next \in {"remove", "write"} /\ next \in Steps /\ "mark" \in Steps
  BY DEF Mark, SaveJournal, Status, Steps
<1>1. /\ TypeOK /\ FilesInv /\ lock = p /\ PlaceOK(p) /\ CopyOK(p) /\ StartedOK(p) /\ LeavesOK(p)
  BY <1>0, Facts
<1>2. /\ journal # None /\ SameRun(journal, mine[p]) /\ mode[p] # "finish"
      /\ mode[p] = "cutover" => mine[p].new = target[p]
      /\ mode[p] \in {"cutover", "recover"} => Restorable
  BY <1>0, <1>1 DEF PlaceOK, CopyOK, StartedOK, Trying, Cleaning
<1>3. /\ TypeOK'
      /\ mine'[p] = journal' /\ journal' # None /\ journal'.status = status
      /\ SameRun(journal', mine[p])
      /\ Describes(journal)' /\ Describes(mine[p])'
      /\ pc'[p] = next /\ \A q \in Operators \ {p} : pc'[q] = pc[q]
      /\ UNCHANGED <<active, old, new, state, api, lastId, lock, mode, target>>
  BY <1>0, SavedJournal
<1>4. Restorable => Restorable'
  BY <1>2, <1>3 DEF Restorable, OldState, SameRun
<1>5. ~Restorable => Past'
  <2>1. ~Restorable => Finished \/ Past
    BY <1>1, <1>2 DEF FilesInv
  <2>2. Describes(journal)
    BY <1>1, <1>2 DEF FilesInv
  <2>3. ~Restorable => state.api # journal.oldApi
    BY <2>1, <2>2 DEF Finished, Past, Committed, Describes
  <2> QED
    BY <1>2, <1>3, <2>3 DEF Past, SameRun
<1>6. FilesInv'
  BY <1>1, <1>3, <1>4, <1>5 DEF FilesInv
<1> HIDE DEF next
<1>7. PlaceOK(p)' /\ TakenOK(p)' /\ LeavesOK(p)'
  BY <1>0, <1>2, <1>3 DEF PlaceOK, TakenOK, LeavesOK, Taking, Trying, Cleaning
<1>8. CopyOK(p)' /\ StartedOK(p)'
  BY <1>0, <1>2, <1>3, <1>4 DEF CopyOK, StartedOK, SameRun, Taking, Trying, Cleaning
<1> QED
  BY <1>0, <1>1, <1>3, <1>6, <1>7, <1>8, StepOfOne DEF RunInv

LEMMA VerifiedInv ==
    ASSUME IInv, NEW p \in Operators, Verified(p)
    PROVE  IInv'
<1>0. /\ SaveJournal(p, "verified", "verified", "save") /\ pc[p] = "verified"
      /\ "verified" \in Status /\ "verified" \in Steps /\ "save" \in Steps
  BY DEF Verified, SaveJournal, Status, Steps
<1>1. /\ TypeOK /\ FilesInv /\ lock = p /\ PlaceOK(p) /\ CopyOK(p) /\ StartedOK(p) /\ LeavesOK(p)
  BY <1>0, Facts
<1>2. /\ mode[p] = "cutover" /\ journal # None /\ SameRun(journal, mine[p])
      /\ mine[p].new = target[p] /\ Restorable
      /\ active = mine[p].new /\ api # None /\ api.env = active
      /\ api.id = lastId /\ mine[p].oldApi < lastId /\ mine[p].newApi = api.id
  BY <1>0, <1>1 DEF PlaceOK, CopyOK, StartedOK, Trying, Cleaning, Wanted
<1>3. /\ TypeOK'
      /\ mine'[p] = journal' /\ journal' # None /\ journal'.status = "verified"
      /\ journal'.newApi = mine[p].newApi
      /\ SameRun(journal', mine[p])
      /\ Describes(journal)' /\ Describes(mine[p])'
      /\ pc'[p] = "save" /\ \A q \in Operators \ {p} : pc'[q] = pc[q]
      /\ UNCHANGED <<active, old, new, state, api, lastId, lock, mode, target>>
  BY <1>0, SavedJournal
<1>4. Restorable'
  BY <1>2, <1>3 DEF Restorable, OldState, SameRun
<1>5. FilesInv'
  BY <1>1, <1>3, <1>4 DEF FilesInv
<1>6. PlaceOK(p)' /\ TakenOK(p)' /\ LeavesOK(p)'
  BY <1>2, <1>3 DEF PlaceOK, TakenOK, LeavesOK, Taking, Trying, Cleaning
<1>7. CopyOK(p)'
  BY <1>2, <1>3 DEF CopyOK, SameRun, Taking, Trying, Cleaning
<1>8. StartedOK(p)'
  BY <1>2, <1>3, <1>4 DEF StartedOK, SameRun, Trying, Wanted
<1> QED
  BY <1>0, <1>1, <1>3, <1>5, <1>6, <1>7, <1>8, StepOfOne DEF RunInv

-----------------------------------------------------------------------------
(* The container and api.env are replaced, or put back.                     *)

LEMMA InSwap ==
    ASSUME IInv, NEW p \in Operators, pc[p] \in {"remove", "write", "create", "probe", "save"},
           mode[p] # "finish"
    PROVE  /\ journal # None /\ journal = mine[p] /\ Describes(journal) /\ lock = p /\ TypeOK
           /\ mode[p] \in {"cutover", "rollback", "recover"}
           /\ Restorable \/ Past
           /\ mode[p] # "rollback" => Restorable
           /\ mode[p] # "cutover" => journal.status = "rolling-back"
           /\ mode[p] = "cutover" => mine[p].new = target[p]
           /\ state.api <= lastId
<1>1. /\ TypeOK /\ FilesInv /\ lock = p /\ PlaceOK(p) /\ CopyOK(p) /\ StartedOK(p)
  BY Facts
<1>2. /\ journal # None /\ journal = mine[p] /\ mode[p] \in {"cutover", "rollback", "recover"}
      /\ mode[p] # "rollback" => Restorable
      /\ mode[p] # "cutover" => journal.status = "rolling-back"
      /\ mode[p] = "cutover" => mine[p].new = target[p]
  BY <1>1 DEF PlaceOK, CopyOK, StartedOK, Trying, TypeOK, Modes
<1>3. Describes(journal) /\ (Restorable \/ Finished \/ Past) /\ state.api <= lastId
  BY <1>1, <1>2 DEF FilesInv
<1>4. Restorable \/ Past
  BY <1>2, <1>3 DEF Finished, Committed
<1> QED
  BY <1>1, <1>2, <1>3, <1>4

\* The files and the copy stay as they are, up to api.env and the container.
LEMMA SwapStep ==
    ASSUME IInv, NEW p \in Operators, pc[p] \in {"remove", "write", "create"},
           UNCHANGED <<old, new, journal, state, lock, mode, target, mine>>,
           lastId <= lastId', lastId' \in Nat,
           pc'[p] \in {"write", "create", "probe"},
           \A q \in Operators \ {p} : pc'[q] = pc[q],
           TypeOK', StartedOK(p)'
    PROVE  IInv'
<1>0. mode[p] # "finish"
  BY Facts DEF PlaceOK, Cleaning
<1>1. /\ journal # None /\ journal = mine[p] /\ Describes(journal) /\ lock = p /\ TypeOK
      /\ mode[p] \in {"cutover", "rollback", "recover"}
      /\ Restorable \/ Past
      /\ mode[p] # "cutover" => journal.status = "rolling-back"
      /\ mode[p] = "cutover" => mine[p].new = target[p]
      /\ state.api <= lastId
  BY <1>0, InSwap
<1>2. journal \in Journal /\ state.api \in Nat /\ lastId \in Nat
  BY <1>1 DEF TypeOK
<1>3. journal.oldApi \in Nat
  BY <1>2 DEF Journal
<1>4. Describes(journal)' /\ Describes(mine[p])'
  BY <1>1, <1>2, <1>3 DEF Describes
<1>5. Restorable' \/ Past'
  BY <1>1 DEF Restorable, Past, OldState
<1>6. FilesInv'
  BY <1>1, <1>2, <1>4, <1>5 DEF FilesInv
<1>7. PlaceOK(p)' /\ TakenOK(p)' /\ LeavesOK(p)'
  BY <1>1 DEF PlaceOK, TakenOK, LeavesOK, Taking, Trying, Cleaning
<1>8. CopyOK(p)'
  BY <1>1, <1>4 DEF CopyOK, SameRun, Trying, Cleaning
<1> QED
  BY <1>1, <1>6, <1>7, <1>8, StepOfOne DEF RunInv

LEMMA RemoveInv ==
    ASSUME IInv, NEW p \in Operators, Remove(p)
    PROVE  IInv'
<1>0. /\ pc[p] = "remove" /\ api' = None /\ pc' = [pc EXCEPT ![p] = "write"]
      /\ UNCHANGED <<unraid, active, old, new, journal, state, lastId, lock, mode, target, mine, result, runs, faults>>
  BY DEF Remove, Go, files
<1>1. TypeOK /\ StartedOK(p)
  BY <1>0, Facts
<1>2. pc'[p] = "write" /\ \A q \in Operators \ {p} : pc'[q] = pc[q]
  BY <1>0, <1>1 DEF TypeOK
<1>3. TypeOK'
  BY <1>0, <1>1 DEF TypeOK, Steps
<1>4. StartedOK(p)'
  BY <1>0, <1>1, <1>2 DEF StartedOK, Trying, Restorable, OldState
<1>5. lastId \in Nat /\ lastId <= lastId'
  BY <1>0, <1>1 DEF TypeOK
<1> QED
  BY <1>0, <1>2, <1>3, <1>4, <1>5, SwapStep

LEMMA WriteInv ==
    ASSUME IInv, NEW p \in Operators, Write(p)
    PROVE  IInv'
<1>0. /\ pc[p] = "write" /\ active' = Wanted(p) /\ pc' = [pc EXCEPT ![p] = "create"]
      /\ UNCHANGED <<unraid, old, new, journal, state, api, lastId, lock, mode, target, mine, result, runs, faults>>
  BY DEF Write, Go, Wanted
<1>1. TypeOK /\ StartedOK(p) /\ mine[p] # None
  BY <1>0, Facts DEF CopyOK
<1>2. pc'[p] = "create" /\ \A q \in Operators \ {p} : pc'[q] = pc[q]
  BY <1>0, <1>1 DEF TypeOK
<1>3. mine[p] \in Journal
  BY <1>1 DEF TypeOK
<1>4. Wanted(p) \in Environments
  BY <1>3 DEF Wanted, Journal
<1>5. TypeOK'
  BY <1>0, <1>1, <1>4 DEF TypeOK, Steps
<1>6. StartedOK(p)'
  BY <1>0, <1>1, <1>2 DEF StartedOK, Trying, Restorable, OldState, Wanted
<1>7. lastId \in Nat /\ lastId <= lastId'
  BY <1>0, <1>1 DEF TypeOK
<1> QED
  BY <1>0, <1>2, <1>5, <1>6, <1>7, SwapStep

LEMMA CreateInv ==
    ASSUME IInv, NEW p \in Operators, Create(p)
    PROVE  IInv'
<1>0. /\ pc[p] = "create" /\ api' = [id |-> lastId + 1, env |-> active] /\ lastId' = lastId + 1
      /\ pc' = [pc EXCEPT ![p] = "probe"]
      /\ UNCHANGED <<unraid, active, old, new, journal, state, lock, mode, target, mine, result, runs, faults>>
  BY DEF Create, Go, files
<1>1. TypeOK /\ StartedOK(p) /\ mine[p] # None /\ Describes(mine[p])
  BY <1>0, Facts DEF CopyOK
<1>2. pc'[p] = "probe" /\ \A q \in Operators \ {p} : pc'[q] = pc[q]
  BY <1>0, <1>1 DEF TypeOK
<1>3. lastId \in Nat /\ lastId' \in Nat /\ lastId <= lastId' /\ mine[p].oldApi < lastId'
  <2>1. mine[p] \in Journal
    BY <1>1 DEF TypeOK
  <2>2. mine[p].oldApi \in Nat
    BY <2>1 DEF Journal
  <2> QED
    BY <2>2, <1>0, <1>1 DEF TypeOK, Describes
<1>4. api' \in Container /\ api'.id = lastId' /\ api'.env = active'
  BY <1>0, <1>1, <1>3 DEF TypeOK, Container
<1>5. api' # None
  BY <1>4, NoneAssumption
<1>6. TypeOK'
  BY <1>0, <1>1, <1>3, <1>4 DEF TypeOK, Steps
<1>7. StartedOK(p)'
  BY <1>0, <1>1, <1>2, <1>3, <1>4, <1>5 DEF StartedOK, Trying, Restorable, OldState, Wanted
<1> QED
  BY <1>0, <1>2, <1>3, <1>6, <1>7, SwapStep

LEMMA ProbeInv ==
    ASSUME IInv, NEW p \in Operators, Probe(p)
    PROVE  IInv'
<1>0. /\ pc[p] = "probe"
      /\ UNCHANGED <<unraid, active, old, new, journal, state, api, lastId, lock, mode, target, result, runs, faults>>
  BY DEF Probe, files
<1>1. /\ TypeOK /\ FilesInv /\ lock = p /\ PlaceOK(p) /\ CopyOK(p) /\ StartedOK(p) /\ LeavesOK(p)
  BY <1>0, Facts
<1>2. FilesInv'
  BY <1>0, <1>1 DEF FilesInv, Whole, Describes, Restorable, Finished, Past, OldState, Committed, Live
<1>3. journal # None /\ mine[p] # None /\ Describes(mine[p]) /\ journal = mine[p]
  BY <1>0, <1>1 DEF PlaceOK, CopyOK, Trying
<1>4. mine[p] \in Journal
  BY <1>1, <1>3 DEF TypeOK
<1>5. CASE mode[p] = "finish"
  <2>1. pc' = [pc EXCEPT ![p] = "unlink_old"] /\ mine' = mine
    BY <1>5 DEF Probe, Go
  <2>2. pc'[p] = "unlink_old" /\ \A q \in Operators \ {p} : pc'[q] = pc[q]
    BY <2>1, <1>1 DEF TypeOK
  <2>3. TypeOK'
    BY <1>0, <1>1, <2>1 DEF TypeOK, Steps
  <2>4. Finished'
    BY <1>0, <1>1, <1>5 DEF LeavesOK, Finished, Committed, Live
  <2>5. Describes(mine[p])' /\ mine'[p].new = target'[p]
    BY <1>0, <1>1, <1>3, <1>5, <2>1 DEF Describes, CopyOK
  <2>6. RunInv(p)'
    BY <1>0, <1>1, <1>3, <1>5, <2>1, <2>2, <2>4, <2>5 DEF RunInv, PlaceOK, CopyOK, TakenOK, StartedOK,
       LeavesOK, Taking, Trying, Cleaning, SameRun
  <2> QED
    BY <1>0, <1>2, <2>2, <2>3, <2>6, StepOfOne
<1>6. CASE mode[p] # "finish" /\ mode[p] # "cutover"
  <2>1. pc' = [pc EXCEPT ![p] = "save"] /\ mine' = mine
    BY <1>6 DEF Probe, Go
  <2>2. pc'[p] = "save" /\ \A q \in Operators \ {p} : pc'[q] = pc[q]
    BY <2>1, <1>1 DEF TypeOK
  <2>3. TypeOK'
    BY <1>0, <1>1, <2>1 DEF TypeOK, Steps
  <2>4. Describes(mine[p])'
    BY <1>0, <1>3, <2>1 DEF Describes
  <2>5. PlaceOK(p)' /\ TakenOK(p)' /\ LeavesOK(p)'
    BY <1>0, <1>3, <1>6, <2>2 DEF PlaceOK, TakenOK, LeavesOK, Taking, Trying, Cleaning
  <2>6. CopyOK(p)'
    BY <1>0, <1>1, <1>3, <1>6, <2>1, <2>2, <2>4 DEF CopyOK, Trying, Cleaning, SameRun
  <2>7. StartedOK(p)'
    BY <1>0, <1>1, <1>6, <2>1, <2>2 DEF StartedOK, Trying, Restorable, OldState, Wanted
  <2> QED
    BY <1>0, <1>1, <1>2, <2>2, <2>3, <2>5, <2>6, <2>7, StepOfOne DEF RunInv
<1>7. CASE mode[p] = "cutover"
  <2> DEFINE m == [mine[p] EXCEPT !.newApi = api.id]
  <2>1. pc' = [pc EXCEPT ![p] = "verified"] /\ mine' = [mine EXCEPT ![p].newApi = api.id]
    BY <1>7 DEF Probe, Go
  <2>2. pc'[p] = "verified" /\ \A q \in Operators \ {p} : pc'[q] = pc[q]
    BY <2>1, <1>1 DEF TypeOK
  <2>3. /\ api # None /\ api.env = active /\ active = mine[p].new /\ api.id = lastId
        /\ mine[p].oldApi < lastId /\ lastId \in Nat /\ Restorable /\ mine[p].new = target[p]
    BY <1>0, <1>1, <1>7 DEF StartedOK, CopyOK, TypeOK, Trying, Wanted
  <2>4. m \in Journal /\ m.newApi = api.id /\ SameRun(m, mine[p])
    BY <1>4, <2>3 DEF Journal, SameRun
  <2>5. mine' = [mine EXCEPT ![p] = m] /\ mine'[p] = m
    BY <2>1, <1>1 DEF TypeOK
  <2>6. m # None
    BY <2>4, NoneAssumption
  <2> HIDE DEF m
  <2>7. TypeOK'
    BY <1>0, <1>1, <2>1, <2>4, <2>5 DEF TypeOK, Steps
  <2>8. m.oldApi \in Nat
    BY <2>4 DEF Journal
  <2>9. Describes(mine[p])'
    BY <1>0, <1>3, <2>3, <2>4, <2>5, <2>8 DEF Describes, SameRun
  <2>10. PlaceOK(p)' /\ TakenOK(p)' /\ LeavesOK(p)'
    BY <1>0, <1>3, <1>7, <2>2 DEF PlaceOK, TakenOK, LeavesOK, Taking, Trying, Cleaning
  <2>11. CopyOK(p)'
    BY <1>0, <1>3, <1>7, <2>2, <2>3, <2>4, <2>5, <2>6, <2>9 DEF CopyOK, Trying, Cleaning, SameRun
  <2>12. StartedOK(p)'
    BY <1>0, <1>7, <2>2, <2>3, <2>4, <2>5 DEF StartedOK, Trying, Restorable, OldState, Wanted, SameRun
  <2> QED
    BY <1>0, <1>1, <1>2, <2>2, <2>7, <2>10, <2>11, <2>12, StepOfOne DEF RunInv
<1> QED
  BY <1>5, <1>6, <1>7

-----------------------------------------------------------------------------
(* The commit point and what follows it.                                    *)

\* StateStore.save turns what was tried into a commit, or what was put back
\* into one generation; the journal is still there.
LEMMA SavedFiles ==
    ASSUME IInv, NEW p \in Operators, pc[p] = "save", state' = SavedState(p),
           UNCHANGED <<active, old, new, journal, api, lastId>>
    PROVE  /\ FilesInv' /\ state' \in [fp : Fingerprints, api : Nat]
           /\ mode[p] = "cutover" => Finished'
           /\ mode[p] # "cutover" => Past' /\ Whole' /\ active' = mine[p].old
<1>0. mode[p] # "finish"
  BY Facts DEF PlaceOK, Cleaning
<1>1. /\ journal # None /\ journal = mine[p] /\ Describes(journal) /\ TypeOK
      /\ mode[p] # "cutover" => journal.status = "rolling-back"
  BY <1>0, InSwap
<1>2. /\ active = Wanted(p) /\ api # None /\ api.env = active
      /\ api.id = lastId /\ mine[p].oldApi < lastId
      /\ mode[p] = "cutover" => mine[p].newApi = api.id /\ mine[p].status = "verified"
  BY <1>0, Facts DEF StartedOK
<1>3. journal \in Journal /\ lastId \in Nat
  BY <1>1 DEF TypeOK
<1>4. /\ journal.oldFp \in Fingerprints /\ journal.newFp \in Fingerprints /\ journal.oldApi \in Nat
      /\ None \notin Nat
  BY <1>3, ConstantsAssumption DEF Journal
<1>5. state'.api = lastId /\ state'.fp = IF mode[p] = "cutover" THEN journal.newFp ELSE journal.oldFp
  BY <1>1, <1>2 DEF SavedState
<1>6. state' \in [fp : Fingerprints, api : Nat]
  BY <1>1, <1>2, <1>3, <1>4 DEF SavedState
<1>7. mode[p] = "cutover" => Finished'
  BY <1>1, <1>2, <1>3, <1>4, <1>5 DEF Finished, Committed, Live, Wanted
<1>8. mode[p] # "cutover" => Past' /\ Whole' /\ active' = mine[p].old
  <2>1. mode[p] # "cutover" => Past'
    BY <1>1, <1>2, <1>3, <1>4, <1>5 DEF Past
  <2>2. mode[p] # "cutover" => Whole' /\ active' = mine[p].old
    BY <1>1, <1>2, <1>5 DEF Whole, Describes, Wanted
  <2> QED
    BY <2>1, <2>2
<1>9. Describes(journal)' /\ journal' # None /\ state'.api <= lastId'
  BY <1>1, <1>3, <1>5 DEF Describes
<1> QED
  BY <1>6, <1>7, <1>8, <1>9 DEF FilesInv

LEMMA SaveInv ==
    ASSUME IInv, NEW p \in Operators, Save(p)
    PROVE  IInv'
<1>0. /\ pc[p] = "save" /\ state' = SavedState(p) /\ pc' = [pc EXCEPT ![p] = "unlink_old"]
      /\ UNCHANGED <<unraid, active, old, new, journal, api, lastId, lock, mode, target, mine, result, runs, faults>>
  BY DEF Save, Go
<1>1. /\ FilesInv' /\ state' \in [fp : Fingerprints, api : Nat]
      /\ mode[p] = "cutover" => Finished'
      /\ mode[p] # "cutover" => Past' /\ Whole' /\ active' = mine[p].old
  BY <1>0, SavedFiles
<1>2. mode[p] # "finish"
  BY <1>0, Facts DEF PlaceOK, Cleaning
<1>3. /\ journal # None /\ journal = mine[p] /\ Describes(journal) /\ lock = p /\ TypeOK
      /\ mode[p] = "cutover" => mine[p].new = target[p]
  BY <1>0, <1>2, InSwap
<1>4. TypeOK'
  BY <1>0, <1>1, <1>3 DEF TypeOK, Steps
<1>5. pc'[p] = "unlink_old" /\ \A q \in Operators \ {p} : pc'[q] = pc[q]
  BY <1>0, <1>3 DEF TypeOK
<1>6. Describes(mine[p])'
  BY <1>0, <1>3 DEF Describes
<1>7. PlaceOK(p)' /\ TakenOK(p)' /\ StartedOK(p)'
  BY <1>0, <1>2, <1>3, <1>5 DEF PlaceOK, TakenOK, StartedOK, Taking, Trying, Cleaning
<1>8. CopyOK(p)' /\ LeavesOK(p)'
  BY <1>0, <1>1, <1>2, <1>3, <1>5, <1>6 DEF CopyOK, LeavesOK, Trying, Cleaning, SameRun
<1> QED
  BY <1>0, <1>1, <1>3, <1>4, <1>5, <1>7, <1>8, StepOfOne DEF RunInv

\* What a run that cleans up may rely on.
LEMMA InCleanup ==
    ASSUME IInv, NEW p \in Operators, pc[p] \in Cleaning
    PROVE  /\ TypeOK /\ FilesInv /\ lock = p
           /\ journal # None /\ mine[p] # None /\ Describes(mine[p]) /\ Describes(journal)
           /\ SameRun(journal, mine[p])
           /\ mode[p] \in {"cutover", "finish"} => Finished /\ mine[p].new = target[p]
           /\ mode[p] \in {"rollback", "recover"} => Past /\ Whole /\ active = mine[p].old
<1>1. pc[p] # "idle"
  BY DEF Cleaning
<1>2. TypeOK /\ FilesInv /\ lock = p /\ PlaceOK(p) /\ CopyOK(p) /\ LeavesOK(p)
  BY <1>1, Facts
<1>3. journal # None /\ mine[p] # None /\ Describes(mine[p]) /\ SameRun(journal, mine[p])
  BY <1>2 DEF PlaceOK, CopyOK, Cleaning
<1>4. Describes(journal)
  BY <1>2, <1>3 DEF FilesInv
<1>5. mode[p] \in {"cutover", "finish"} => Finished /\ mine[p].new = target[p]
  BY <1>2 DEF LeavesOK, CopyOK, Cleaning
<1>6. mode[p] \in {"rollback", "recover"} => Past /\ Whole /\ active = mine[p].old
  BY <1>2 DEF LeavesOK
<1> QED
  BY <1>2, <1>3, <1>4, <1>5, <1>6

LEMMA UnlinkInv ==
    ASSUME IInv, NEW p \in Operators, UnlinkOld(p) \/ UnlinkNew(p)
    PROVE  IInv'
<1>0. /\ pc[p] \in {"unlink_old", "unlink_new"}
      /\ UNCHANGED <<unraid, active, journal, state, api, lastId, lock, mode, target, mine, result, runs, faults>>
      /\ old' \in {old, None} /\ new' \in {new, None}
      /\ \/ pc' = [pc EXCEPT ![p] = "unlink_new"]
         \/ pc' = [pc EXCEPT ![p] = "unlink_journal"]
  BY DEF UnlinkOld, UnlinkNew, Go
<1>1. /\ TypeOK /\ FilesInv /\ lock = p
      /\ journal # None /\ mine[p] # None /\ Describes(mine[p]) /\ Describes(journal)
      /\ SameRun(journal, mine[p])
      /\ mode[p] \in {"cutover", "finish"} => Finished /\ mine[p].new = target[p]
      /\ mode[p] \in {"rollback", "recover"} => Past /\ Whole /\ active = mine[p].old
  BY <1>0, InCleanup DEF Cleaning
<1>2. TypeOK'
  BY <1>0, <1>1 DEF TypeOK, Steps
<1>3. /\ pc'[p] \in {"unlink_new", "unlink_journal"} /\ \A q \in Operators \ {p} : pc'[q] = pc[q]
      /\ mode[p] \in {"cutover", "rollback", "recover", "finish"}
  BY <1>0, <1>1 DEF TypeOK, Modes
<1>4. Describes(journal)' /\ Describes(mine[p])' /\ SameRun(journal', mine'[p])
  BY <1>0, <1>1 DEF Describes, SameRun
<1>5. (Finished => Finished') /\ (Past => Past') /\ (Whole => Whole')
  BY <1>0 DEF Finished, Past, Whole, Committed, Live
<1>6. FilesInv'
  BY <1>0, <1>1, <1>3, <1>4, <1>5 DEF FilesInv
<1>7. PlaceOK(p)' /\ TakenOK(p)' /\ StartedOK(p)'
  BY <1>0, <1>1, <1>3 DEF PlaceOK, TakenOK, StartedOK, Taking, Trying, Cleaning
<1>8. CopyOK(p)' /\ LeavesOK(p)'
  BY <1>0, <1>1, <1>3, <1>4, <1>5 DEF CopyOK, LeavesOK, Trying, Cleaning
<1> QED
  BY <1>0, <1>1, <1>2, <1>3, <1>6, <1>7, <1>8, StepOfOne DEF RunInv

LEMMA UnlinkJournalInv ==
    ASSUME IInv, NEW p \in Operators, UnlinkJournal(p)
    PROVE  IInv'
<1>0. /\ pc[p] = "unlink_journal" /\ journal' = None
      /\ UNCHANGED <<unraid, active, old, new, state, api, lastId, mode, target, runs, faults>>
  BY DEF UnlinkJournal
<1>1. /\ TypeOK /\ FilesInv /\ lock = p
      /\ journal # None /\ mine[p] # None /\ Describes(mine[p]) /\ Describes(journal)
      /\ SameRun(journal, mine[p])
      /\ mode[p] \in {"cutover", "finish"} => Finished /\ mine[p].new = target[p]
      /\ mode[p] \in {"rollback", "recover"} => Past /\ Whole /\ active = mine[p].old
  BY <1>0, InCleanup DEF Cleaning
<1>2. mode[p] \in {"cutover", "rollback", "recover", "finish"}
  BY <1>1 DEF TypeOK, Modes
<1>3. Whole
  BY <1>1, <1>2 DEF Whole, Finished, Live, Committed, Describes
<1>4. FilesInv'
  BY <1>0, <1>1, <1>3 DEF FilesInv, Whole
<1>5. CASE mode[p] = "recover"
  <2>1. pc' = [pc EXCEPT ![p] = "load"] /\ UNCHANGED <<lock, mine, result>>
    BY <1>5 DEF UnlinkJournal, Go
  <2>2. TypeOK'
    BY <1>0, <1>1, <2>1 DEF TypeOK, Steps
  <2>3. pc'[p] = "load" /\ \A q \in Operators \ {p} : pc'[q] = pc[q]
    BY <2>1, <1>1 DEF TypeOK
  <2>4. RunInv(p)'
    BY <1>0, <1>1, <1>5, <2>1, <2>3 DEF RunInv, PlaceOK, CopyOK, TakenOK, StartedOK, LeavesOK, Taking, Trying, Cleaning
  <2> QED
    BY <1>0, <1>4, <2>2, <2>3, <2>4, StepOfOne
<1>6. CASE mode[p] # "recover"
  <2> DEFINE r == IF mode[p] = "rollback" THEN "rolled_back" ELSE "ok"
  <2>1. Leave(p, r) /\ r \in Results
    BY <1>6 DEF UnlinkJournal, Results
  <2> HIDE DEF r
  <2>2. TypeOK'
    BY <1>0, <1>1, <2>1 DEF TypeOK, Leave, Go
  <2> QED
    BY <1>0, <1>4, <2>1, <2>2, LeaveInv
<1> QED
  BY <1>5, <1>6

-----------------------------------------------------------------------------
(* Exceptions and crashes.                                                  *)

\* With the status of a failed rollback the journal is not a commit any more.
LEMMA RecordFailureInv ==
    ASSUME IInv, NEW p \in Operators, RecordFailure(p)
    PROVE  IInv'
<1> DEFINE j == [mine[p] EXCEPT !.status = "rollback-failed"]
<1>0. /\ pc[p] = "record_failure" /\ journal' = j /\ Leave(p, "rollback_failed")
      /\ UNCHANGED <<unraid, active, old, new, state, api, lastId, mode, target, runs, faults>>
  BY DEF RecordFailure
<1>1. /\ TypeOK /\ FilesInv /\ lock = p /\ journal # None /\ mine[p] # None
      /\ Describes(mine[p]) /\ SameRun(journal, mine[p])
  BY <1>0, Facts DEF PlaceOK, CopyOK
<1>2. mine[p] \in Journal
  BY <1>1 DEF TypeOK
<1>3. /\ j \in Journal /\ j.status = "rollback-failed" /\ SameRun(j, mine[p])
      /\ j.newApi = mine[p].newApi
  BY <1>2 DEF Journal, SameRun, Status
<1>4. j # None
  BY <1>3, NoneAssumption
<1> HIDE DEF j
<1>5. TypeOK'
  BY <1>0, <1>1, <1>3 DEF TypeOK, Leave, Go, Results
<1>6. Describes(journal)'
  BY <1>0, <1>1, <1>3 DEF Describes, SameRun
<1>7. Restorable' \/ Past'
  <2>1. CASE Restorable
    BY <2>1, <1>0, <1>1, <1>3 DEF Restorable, OldState, SameRun
  <2>2. CASE ~Restorable
    <3>1. Describes(journal) /\ (Finished \/ Past)
      BY <2>2, <1>1 DEF FilesInv
    <3>2. state.api # journal.oldApi
      BY <3>1 DEF Finished, Past, Committed, Describes
    <3> QED
      BY <3>2, <1>0, <1>1, <1>3 DEF Past, SameRun
  <2> QED
    BY <2>1, <2>2
<1>8. FilesInv'
  BY <1>0, <1>1, <1>4, <1>6, <1>7 DEF FilesInv
<1> QED
  BY <1>0, <1>5, <1>8, LeaveInv, "rollback_failed" \in Results DEF Results

LEMMA CrashInv ==
    ASSUME IInv, NEW p \in Operators, Crash(p)
    PROVE  IInv'
<1>0. /\ pc[p] # "idle" /\ Leave(p, "none") /\ "none" \in Results
      /\ faults < MaxFaults /\ faults' = faults + 1
      /\ UNCHANGED <<unraid, active, old, new, journal, state, api, lastId, mode, target, runs>>
  BY DEF Crash, files, Results
<1>1. TypeOK /\ FilesInv
  BY DEF IInv
<1>2. TypeOK'
  BY <1>0, <1>1, ConstantsAssumption DEF TypeOK, Leave, Go, Results
<1>3. FilesInv'
  BY <1>0, <1>1 DEF FilesInv, Whole, Describes, Restorable, Finished, Past, OldState, Committed, Live
<1> QED
  BY <1>0, <1>2, <1>3, LeaveInv

LEMMA RaiseInv ==
    ASSUME IInv, NEW p \in Operators, Raise(p)
    PROVE  IInv'
<1>0. /\ pc[p] # "idle" /\ faults < MaxFaults /\ faults' = faults + 1 /\ Handle(p)
      /\ UNCHANGED <<unraid, active, old, new, journal, api, lastId, target, runs>>
      /\ state' = state \/ (pc[p] = "save" /\ state' = SavedState(p))
  BY DEF Raise
<1>1. /\ TypeOK /\ FilesInv /\ lock = p
      /\ PlaceOK(p) /\ CopyOK(p) /\ TakenOK(p) /\ StartedOK(p) /\ LeavesOK(p)
  BY <1>0, Facts
<1>2. FilesInv' /\ state' \in [fp : Fingerprints, api : Nat]
  <2>1. CASE state' = state
    BY <2>1, <1>0, <1>1 DEF FilesInv, Whole, Describes, Restorable, Finished, Past, OldState, Committed, Live, TypeOK
  <2>2. CASE pc[p] = "save" /\ state' = SavedState(p)
    BY <2>2, <1>0, SavedFiles
  <2> QED
    BY <2>1, <2>2, <1>0
<1>3. ASSUME NEW r \in Results, Leave(p, r), UNCHANGED mode
      PROVE  IInv'
  <2>1. TypeOK'
    BY <1>0, <1>1, <1>2, <1>3, ConstantsAssumption DEF TypeOK, Leave, Go
  <2> QED
    BY <2>1, <1>0, <1>2, <1>3, LeaveInv
<1>4. ASSUME InTry(p), StartRollback(p)
      PROVE  IInv'
  <2>1. /\ mode[p] = "cutover" /\ pc[p] \in Trying
        /\ mode' = [mode EXCEPT ![p] = "rollback"] /\ pc' = [pc EXCEPT ![p] = "mark"]
        /\ UNCHANGED <<lock, mine, result>>
    BY <1>4 DEF InTry, StartRollback, Go, Trying
  <2>2. TypeOK'
    BY <1>0, <1>1, <1>2, <2>1, ConstantsAssumption DEF TypeOK, Steps, Modes
  <2>3. mode'[p] = "rollback" /\ pc'[p] = "mark" /\ \A q \in Operators \ {p} : pc'[q] = pc[q]
    BY <1>1, <2>1 DEF TypeOK
  <2>4. journal # None /\ mine[p] # None /\ Describes(mine[p]) /\ SameRun(journal, mine[p])
    BY <1>1, <2>1 DEF PlaceOK, CopyOK, Trying
  <2>5. Describes(mine[p])' /\ SameRun(journal', mine'[p])
    BY <1>0, <2>1, <2>4 DEF Describes, SameRun
  <2>6. RunInv(p)'
    BY <1>0, <1>1, <2>1, <2>3, <2>4, <2>5 DEF RunInv, PlaceOK, CopyOK, TakenOK, StartedOK, LeavesOK, Taking, Trying, Cleaning
  <2> QED
    BY <1>0, <1>2, <2>2, <2>3, <2>6, StepOfOne
<1>5. ASSUME mode[p] = "rollback", pc[p] # "record_failure", Go(p, "record_failure"),
             UNCHANGED <<lock, mode, mine, result>>
      PROVE  IInv'
  <2>1. pc' = [pc EXCEPT ![p] = "record_failure"]
    BY <1>5 DEF Go
  <2>2. TypeOK'
    BY <1>0, <1>1, <1>2, <1>5, <2>1, ConstantsAssumption DEF TypeOK, Steps, Modes
  <2>3. mode'[p] = "rollback" /\ pc'[p] = "record_failure" /\ \A q \in Operators \ {p} : pc'[q] = pc[q]
    BY <1>1, <1>5, <2>1 DEF TypeOK
  <2>4. pc[p] \in Trying \cup Cleaning
    BY <1>0, <1>1, <1>5 DEF PlaceOK, TypeOK, Steps, Taking, Trying, Cleaning
  <2>5. journal # None /\ mine[p] # None /\ Describes(mine[p]) /\ SameRun(journal, mine[p])
    BY <1>1, <2>4 DEF PlaceOK, CopyOK, Trying, Cleaning
  <2>6. Describes(mine[p])' /\ SameRun(journal', mine'[p])
    BY <1>0, <1>5, <2>5 DEF Describes, SameRun
  <2>7. RunInv(p)'
    BY <1>0, <1>1, <1>5, <2>3, <2>5, <2>6 DEF RunInv, PlaceOK, CopyOK, TakenOK, StartedOK, LeavesOK, Taking, Trying, Cleaning
  <2> QED
    BY <1>0, <1>2, <2>2, <2>3, <2>7, StepOfOne
<1>6. {"cleanup_failed", "refused", "rollback_failed"} \subseteq Results
  BY DEF Results
<1> QED
  BY <1>0, <1>3, <1>4, <1>5, <1>6 DEF Handle

-----------------------------------------------------------------------------
LEMMA NextInv == IInv /\ [Next]_vars => IInv'
<1> SUFFICES ASSUME IInv, [Next]_vars PROVE IInv'
  OBVIOUS
<1>1. ASSUME NEW p \in Operators, Step(p) PROVE IInv'
  <2>1. NotRecoverable(p) => IInv'
    BY RefuseInv DEF NotRecoverable
  <2>2. NotCurrent(p) => IInv'
    BY RefuseInv DEF NotCurrent
  <2> QED
    BY <1>1, <2>1, <2>2, RecoverInv, LoadInv, SnapshotInv, PrepareInv, MarkInv, RemoveInv, WriteInv,
       CreateInv, ProbeInv, VerifiedInv, SaveInv, UnlinkInv, UnlinkJournalInv, RecordFailureInv DEF Step
<1>2. CASE Next
  BY <1>1, <1>2, BeginInv, RaiseInv, CrashInv DEF Next
<1>3. CASE UNCHANGED vars
  <2>1. UNCHANGED <<unraid, active, old, new, journal, state, api, lastId, lock, pc, mode, target, mine, result, runs, faults>>
    BY <1>3 DEF vars, files, procs
  <2>2. TypeOK'
    BY <2>1 DEF IInv, TypeOK
  <2>3. FilesInv'
    BY <2>1 DEF IInv, FilesInv, Whole, Describes, Restorable, Finished, Past, OldState, Committed, Live
  <2>4. \A p \in Operators : RunInv(p)'
    BY <2>1 DEF IInv, RunInv, PlaceOK, CopyOK, TakenOK, StartedOK, LeavesOK, Whole, Describes,
         Restorable, Finished, Past, OldState, Committed, Live, SameRun, Wanted
  <2> QED
    BY <2>2, <2>3, <2>4 DEF IInv
<1> QED
  BY <1>2, <1>3

LEMMA Invariant == Spec => []IInv
BY InitInv, NextInv, PTL DEF Spec

-----------------------------------------------------------------------------
\* Whatever was killed or raised before, without a journal the container,
\* api.env and state.json are of one generation.
THEOREM WholeWithoutJournal == Spec => []NoJournalMeansWhole
<1>1. IInv => NoJournalMeansWhole
  BY DEF IInv, FilesInv, Whole, NoJournalMeansWhole
<1> QED
  BY <1>1, Invariant, PTL

\* As long as state.json names the old container, _recover_if_needed finds
\* what it takes to restore it.
THEOREM OldStateStaysRestorable == Spec => []OldStateIsRestorable
<1>1. IInv => OldStateIsRestorable
  BY DEF IInv, FilesInv, OldStateIsRestorable, Restorable, OldState, Finished, Committed, Past, Describes
<1> QED
  BY <1>1, Invariant, PTL

\* A verified journal beside a state that names its container is a commit:
\* the new environment is in place and running.
THEOREM CommitsAreLive == Spec => []CommittedIsLive
<1>1. IInv => CommittedIsLive
  BY DEF IInv, FilesInv, CommittedIsLive, Restorable, OldState, Finished, Committed, Past, Describes
<1> QED
  BY <1>1, Invariant, PTL

\* What a run reports when it ends is what it leaves.
THEOREM RunsReportTruly == Spec => ReportsAreTrue
<1> DEFINE runsOn(e) == /\ active' = e /\ api' = [id |-> state'.api, env |-> e]
                        /\ state'.fp = Fingerprint[e]
           Truly(p) == pc[p] # "idle" /\ pc'[p] = "idle" =>
                         /\ result'[p] = "ok" => runsOn(target[p]) /\ journal' = None
                         /\ result'[p] = "rolled_back" => runsOn(mine[p].old) /\ journal' = None
                         /\ result'[p] = "cleanup_failed" => runsOn(target[p])
<1>1. ASSUME IInv, [Next]_vars, NEW p \in Operators PROVE Truly(p)
  <2> SUFFICES ASSUME pc[p] # "idle", pc'[p] = "idle"
               PROVE  /\ result'[p] = "ok" => runsOn(target[p]) /\ journal' = None
                      /\ result'[p] = "rolled_back" => runsOn(mine[p].old) /\ journal' = None
                      /\ result'[p] = "cleanup_failed" => runsOn(target[p])
    OBVIOUS
  <2>0. TypeOK
    BY <1>1 DEF IInv
  \* In the cleanup, with the files as they are.
  <2>1. ASSUME pc[p] \in Cleaning, UNCHANGED <<active, api, state>>
        PROVE  /\ mode[p] \in {"cutover", "finish"} => runsOn(target[p])
               /\ mode[p] \in {"rollback", "recover"} => runsOn(mine[p].old)
    <3>1. /\ Describes(journal) /\ SameRun(journal, mine[p]) /\ api \in Container \cup {None}
          /\ mode[p] \in {"cutover", "finish"} => Finished /\ mine[p].new = target[p]
          /\ mode[p] \in {"rollback", "recover"} => Whole /\ active = mine[p].old
      BY <1>1, <2>0, <2>1, InCleanup DEF TypeOK
    <3>2. api # None => api = [id |-> api.id, env |-> api.env]
      BY <3>1 DEF Container
    <3>3. mode[p] \in {"cutover", "finish"} => runsOn(target[p])
      BY <2>1, <3>1, <3>2 DEF Finished, Live, Committed, Describes, SameRun
    <3>4. mode[p] \in {"rollback", "recover"} => runsOn(mine[p].old)
      BY <2>1, <3>1, <3>2 DEF Whole
    <3> QED
      BY <3>3, <3>4
  \* The steps that end a run.
  <2>2. CASE UnlinkJournal(p)
    <3>1. /\ pc[p] \in Cleaning /\ UNCHANGED <<active, api, state>> /\ journal' = None
      BY <2>2 DEF UnlinkJournal, Cleaning
    <3>2. mode[p] \in {"cutover", "rollback", "recover", "finish"}
      BY <2>0 DEF TypeOK, Modes
    <3>3. mode[p] # "recover"
      BY <2>0, <2>2 DEF UnlinkJournal, Go, TypeOK
    <3>4. result'[p] = IF mode[p] = "rollback" THEN "rolled_back" ELSE "ok"
      BY <2>0, <2>2, <3>3 DEF UnlinkJournal, Leave, TypeOK
    <3> QED
      BY <2>1, <3>1, <3>2, <3>3, <3>4
  <2>3. CASE Raise(p)
    <3>1. CASE mode[p] = "cutover" /\ pc[p] \in Cleaning
      <4>1. UNCHANGED <<active, api, state>>
        BY <2>3, <3>1 DEF Raise, Cleaning
      <4>2. runsOn(target[p])
        BY <4>1, <3>1, <2>1
      <4>3. result'[p] = "cleanup_failed"
        BY <2>0, <2>3, <3>1 DEF Raise, Handle, InTry, Leave, Go, Cleaning, TypeOK, StartRollback
      <4> QED
        BY <4>2, <4>3
    <3>2. CASE ~(mode[p] = "cutover" /\ pc[p] \in Cleaning)
      <4>1. ~(InTry(p) /\ StartRollback(p)) /\ ~Go(p, "record_failure")
        BY <2>0 DEF StartRollback, Go, TypeOK
      <4>2. Leave(p, "refused") \/ Leave(p, "rollback_failed")
        BY <2>3, <3>2, <4>1 DEF Raise, Handle
      <4>3. result'[p] \in {"refused", "rollback_failed"}
        BY <2>0, <4>2 DEF Leave, TypeOK
      <4> QED
        BY <4>3
    <3> QED
      BY <3>1, <3>2
  <2>4. ASSUME NotRecoverable(p) \/ NotCurrent(p) \/ RecordFailure(p) \/ Crash(p)
        PROVE  result'[p] \in {"refused", "rollback_failed", "none"}
    BY <2>0, <2>4 DEF NotRecoverable, NotCurrent, RecordFailure, Crash, Refuse, Leave, TypeOK
  \* Every other step goes on, or is not one of p.
  <2>5. ASSUME NEW q \in Operators, q # p, Next, 
               \/ \E e \in Environments : Begin(q, e)
               \/ Step(q) \/ Raise(q) \/ Crash(q)
        PROVE  FALSE
    <3>1. pc[q] = "idle" /\ lock = p
      BY <1>1, <2>5, OthersIdle, Facts
    <3>2. ~LockFree
      BY <3>1, ConstantsAssumption DEF LockFree
    <3>3. \A e \in Environments : Begin(q, e) => pc' = pc
      BY <3>2 DEF Begin
    <3>4. ~Step(q) /\ ~Raise(q) /\ ~Crash(q)
      BY <3>1 DEF Step, Recover, NotRecoverable, Load, NotCurrent, SnapshotOld, SnapshotNew, Prepare,
         Mark, SaveJournal, Remove, Write, Create, Probe, Verified, Save, UnlinkOld, UnlinkNew,
         UnlinkJournal, RecordFailure, Raise, Crash
    <3> QED
      BY <2>5, <3>3, <3>4
  <2>6. ASSUME Recover(p) \/ Load(p) \/ SnapshotOld(p) \/ SnapshotNew(p) \/ Prepare(p) \/ Mark(p)
               \/ Remove(p) \/ Write(p) \/ Create(p) \/ Probe(p) \/ Verified(p) \/ Save(p)
               \/ UnlinkOld(p) \/ UnlinkNew(p)
        PROVE  FALSE
    BY <2>0, <2>6 DEF Recover, Load, SnapshotOld, SnapshotNew, Prepare,
         Mark, SaveJournal, Remove, Write, Create, Probe, Verified, Save, UnlinkOld, UnlinkNew, Go, TypeOK
  <2>7. ~UNCHANGED vars
    BY DEF vars, procs
  <2>8. \A e \in Environments : ~Begin(p, e)
    BY DEF Begin
  <2>9. Next
    BY <1>1, <2>7
  <2>10. CASE Step(p)
    BY <2>2, <2>4, <2>6, <2>10 DEF Step
  <2> QED
    BY <2>3, <2>4, <2>5, <2>8, <2>9, <2>10 DEF Next
<1>2. IInv /\ [Next]_vars => \A p \in Operators : Truly(p)
  BY <1>1
<1>3. IInv /\ [Next]_vars => [\A p \in Operators : Truly(p)]_vars
  BY <1>2
<1> QED
  BY <1>3, Invariant, PTL DEF Spec, ReportsAreTrue

\* OperationLock: the files and the container are changed by the process
\* that holds the lock, while every other one is idle.
THEOREM HolderWrites == Spec => OnlyHolderWrites
<1> DEFINE Held == <<files, api>>' # <<files, api>> =>
                     \E p \in Operators : lock = p /\ \A q \in Operators \ {p} : pc[q] = "idle"
<1>1. ASSUME IInv, [Next]_vars PROVE Held
  <2>1. ASSUME NEW p \in Operators, pc[p] # "idle"
        PROVE  lock = p /\ \A q \in Operators \ {p} : pc[q] = "idle"
    BY <1>1, <2>1, OthersIdle, Facts
  <2>2. CASE \A p \in Operators : pc[p] = "idle"
    <3>1. \A p \in Operators : ~Step(p) /\ ~Raise(p) /\ ~Crash(p)
      BY <2>2 DEF Step, Recover, NotRecoverable, Load, NotCurrent, SnapshotOld, SnapshotNew, Prepare,
         Mark, SaveJournal, Remove, Write, Create, Probe, Verified, Save, UnlinkOld, UnlinkNew,
         UnlinkJournal, RecordFailure, Raise, Crash
    <3>2. \A p \in Operators, e \in Environments : Begin(p, e) => UNCHANGED <<files, api>>
      BY DEF Begin
    <3>3. UNCHANGED vars => UNCHANGED <<files, api>>
      BY DEF vars
    <3> QED
      BY <1>1, <3>1, <3>2, <3>3 DEF Next
  <2> QED
    BY <2>1, <2>2
<1>2. IInv /\ [Next]_vars => [Held]_vars
  BY <1>1
<1> QED
  BY <1>2, Invariant, PTL DEF Spec, OnlyHolderWrites

-----------------------------------------------------------------------------
(* Deployment: the inductive invariant.                                     *)

\* The places of the plan: what ends a command is its last effect.
Ends == {"drop", "finish", "close", "restore"}
Has(e) == \E i \in DOMAIN todo : todo[i] = e
PlanOK ==
    /\ (op = "idle") = (todo = << >>)
    /\ \A i \in DOMAIN todo : todo[i].do \in Ends <=> i = Len(todo)

Served == Runtime \cup Templates

\* Ids are handed out in order: nothing carries one that is not given yet.
IdsOK ==
    /\ attempt # Nothing => attempt.id \in 1 .. lastInstall
    /\ stateJson # Nothing => stateJson.id <= lastInstall
    /\ \A r \in Objects : Present(r) => live[r] <= lastInstall

\* What is served is of the newest install or made by hand; so is a state that
\* is not uninstalled.
NewestOK ==
    /\ \A r \in Served : live[r] \in {Nothing, 0, lastInstall}
    /\ stateJson # Nothing /\ stateJson.status # "uninstalled" => stateJson.id = lastInstall

\* What runs exists; what the profile does not have is not there.
ObjectsOK ==
    /\ \A r \in up : Present(r)
    /\ ~onUnraid => \A r \in Templates : ~Present(r)
    /\ ~session => ~Present(Key)

\* While an install runs or is cleaned up: its attempt is the newest, what is
\* served is its own, and the key is its own unless it was there before.
AttemptOK ==
    /\ cur.id = lastInstall /\ attempt # Nothing /\ attempt.id = cur.id
    /\ attempt.status \in {"prepared", "starting"}
    /\ \A r \in Served : live[r] \in {Nothing, cur.id}
    /\ IF cur.keyBefore THEN live[Key] \notin {Nothing, cur.id} ELSE live[Key] \in {Nothing, cur.id}
    /\ attempt.status = "prepared" => (\A r \in Served : ~Present(r)) /\ live[Key] # cur.id
    /\ cur.retry # Nothing => /\ cur.retry.status = "cleaned" /\ cur.retry.id \in 1 .. cur.id - 1
                              /\ \A r \in Objects : live[r] # cur.retry.id

\* The rest of install: it is armed before it makes anything, starts what it
\* made, archives a state that is there, and has the state to commit or done so.
InstallOK ==
    /\ ~cur.errors
    /\ todo[1].do = "arm" <=> attempt.status = "prepared"
    /\ \A i \in DOMAIN todo :
         /\ todo[i].do \in {"arm", "create", "start", "archive", "commit", "drop"}
         /\ todo[i].do = "arm" => i = 1
         /\ todo[i].do = "create" => todo[i].on \in Runtime \cup Files
         /\ todo[i].do = "start" =>
              /\ todo[i].on \in {"api", "proxy"}
              /\ Present(todo[i].on) \/ (i > 1 /\ todo[i - 1] = Effect("create", todo[i].on))
         /\ todo[i].do = "archive" => stateJson # Nothing
    /\ Has(Effect("commit", "state")) \/ stateJson = Installed

\* The rest of the cleanup: either nothing was made and the old attempt comes
\* back, or, as long as no error is noted, what is left is still to be removed.
CleanOK ==
    \/ todo = Restoring /\ (\A r \in Served : ~Present(r)) /\ live[Key] # cur.id
    \/ /\ \A i \in DOMAIN todo :
            /\ todo[i].do \in {"remove", "drop_key", "close"}
            /\ todo[i].do = "remove" => todo[i].on \in Served
            /\ todo[i].do = "drop_key" => todo[i].on = Key
       /\ ~cur.errors =>
            /\ \A r \in Served \ stray : Present(r) => Has(Effect("remove", r))
            /\ live[Key] = cur.id => Has(Effect("drop_key", Key))

\* The key is removed before its removal is recorded.
KeyOrder(s) ==
    \A i, j \in DOMAIN s : s[i] = Effect("record", Key) /\ s[j] = Effect("remove_owned", Key) => j < i

\* The rest of uninstall: what is left is still to be removed, and a removal is
\* recorded only after it.
UninstallOK ==
    /\ stateJson # Nothing /\ stateJson.status = "uninstalling"
    /\ \A r \in Served : Present(r) => live[r] = stateJson.id /\ Has(Effect("remove_owned", r))
    /\ Has(Effect("remove_owned", Key)) => Key \notin stateJson.removed
    /\ KeyOrder(todo)
    /\ \A i \in DOMAIN todo :
         /\ todo[i].do \in {"remove_owned", "record", "finish"}
         /\ todo[i].do # "finish" => todo[i].on \in Objects
         /\ todo[i].do = "record" =>
              ~Present(todo[i].on) \/ (i > 1 /\ todo[i - 1] = Effect("remove_owned", todo[i].on))

DeployInv ==
    /\ DeployTypeOK /\ PlanOK /\ IdsOK /\ ObjectsOK /\ NewestOK
    /\ op \in {"install", "clean"} => AttemptOK
    /\ op = "install" => InstallOK
    /\ op = "clean" => CleanOK
    /\ op = "uninstall" => UninstallOK
    /\ NothingOrphaned /\ CleanedIsClean

LEMMA PoppedList ==
    ASSUME NEW S, NEW s \in Seq(S), s # << >>
    PROVE  /\ Len(s) \in Nat \ {0} /\ Head(s) = s[1] /\ DOMAIN s = 1 .. Len(s)
           /\ Tail(s) \in Seq(S) /\ Len(Tail(s)) = Len(s) - 1
           /\ DOMAIN Tail(s) = 1 .. Len(s) - 1
           /\ \A i \in 1 .. Len(s) - 1 : Tail(s)[i] = s[i + 1]
OBVIOUS

\* A step of a command that is not its last.
LEMMA PopOK ==
    ASSUME DeployInv, op # "idle", todo' = Tail(todo), op' = op, Head(todo).do \notin Ends
    PROVE  /\ Head(todo) = todo[1] /\ 1 \in DOMAIN todo /\ todo[1] \in EffectRecords
           /\ todo' \in Seq(EffectRecords)
           /\ \A i \in DOMAIN todo' : i \in Nat /\ i > 0 /\ i + 1 \in DOMAIN todo /\ todo'[i] = todo[i + 1]
           /\ PlanOK'
           /\ \A e : Has(e) /\ e # todo[1] => Has(e)'
<1>1. todo \in Seq(EffectRecords) /\ todo # << >> /\ op' = op /\ todo' = Tail(todo)
  BY DEF DeployInv, DeployTypeOK, PlanOK
<1>2. /\ Len(todo) \in Nat \ {0} /\ Head(todo) = todo[1] /\ DOMAIN todo = 1 .. Len(todo)
      /\ todo' \in Seq(EffectRecords) /\ Len(todo') = Len(todo) - 1
      /\ DOMAIN todo' = 1 .. Len(todo) - 1
      /\ \A i \in 1 .. Len(todo) - 1 : todo'[i] = todo[i + 1]
  BY <1>1, PoppedList
<1>3. \A i \in DOMAIN todo : todo[i].do \in Ends <=> i = Len(todo)
  BY DEF DeployInv, PlanOK
<1>4. 1 \in DOMAIN todo /\ todo[1] \in EffectRecords /\ Len(todo) # 1
  BY <1>1, <1>2, <1>3
<1>5. todo' # << >>
  <2>1. Len(todo') # 0
    BY <1>2, <1>4
  <2>2. QED
    BY <2>1
<1>6. \A i \in DOMAIN todo' : i \in Nat /\ i > 0 /\ i + 1 \in DOMAIN todo /\ todo'[i] = todo[i + 1]
  BY <1>2
<1>7. \A i \in DOMAIN todo' : todo'[i].do \in Ends <=> i = Len(todo')
  BY <1>2, <1>3, <1>6
<1>8. PlanOK'
  BY <1>1, <1>5, <1>7 DEF PlanOK
<1>9. ASSUME NEW e, Has(e), e # todo[1]
      PROVE  Has(e)'
  <2>1. PICK i \in DOMAIN todo : todo[i] = e
    BY <1>9 DEF Has
  <2>2. i - 1 \in DOMAIN todo' /\ todo'[i - 1] = e
    BY <1>2, <1>9, <2>1
  <2>3. QED
    BY <2>2 DEF Has
<1>10. QED
  BY <1>1, <1>2, <1>4, <1>6, <1>8, <1>9

-----------------------------------------------------------------------------
(* The plans are joined from parts: in each part an effect that presupposes   *)
(* another follows it, and only the last part has the effect that ends.       *)

Elements(s) == {s[i] : i \in DOMAIN s}
Closed(s) == s # << >> /\ \A i \in DOMAIN s : s[i].do \in Ends <=> i = Len(s)
Chained(s) ==
    \A i \in DOMAIN s :
        /\ s[i].do = "arm" => i = 1
        /\ s[i].do = "start" => i > 1 /\ s[i - 1] = Effect("create", s[i].on)
        /\ s[i].do = "record" => i > 1 /\ s[i - 1] = Effect("remove_owned", s[i].on)

LEMMA Joining ==
    ASSUME NEW s \in Seq(EffectRecords), NEW t \in Seq(EffectRecords), NEW p, p = s \o t,
           Chained(s), Chained(t), \A e \in Elements(t) : e.do # "arm"
    PROVE  /\ p \in Seq(EffectRecords) /\ Chained(p) /\ Elements(p) = Elements(s) \cup Elements(t)
           /\ s # << >> => p # << >> /\ p[1] = s[1]
           /\ (\A e \in Elements(s) : e.do \notin Ends) /\ Closed(t) => Closed(p)
<1>1. /\ p \in Seq(EffectRecords) /\ Len(p) = Len(s) + Len(t) /\ Len(s) \in Nat /\ Len(t) \in Nat
      /\ DOMAIN p = 1 .. Len(p) /\ DOMAIN s = 1 .. Len(s) /\ DOMAIN t = 1 .. Len(t)
      /\ \A i \in 1 .. Len(s) : p[i] = s[i]
      /\ \A i \in 1 .. Len(t) : p[Len(s) + i] = t[i]
  OBVIOUS
<1>2. ASSUME NEW i \in DOMAIN p
      PROVE  \/ i \in DOMAIN s /\ p[i] = s[i] /\ (i > 1 => i - 1 \in DOMAIN s /\ p[i - 1] = s[i - 1])
             \/ /\ i - Len(s) \in DOMAIN t /\ p[i] = t[i - Len(s)]
                /\ i - Len(s) > 1 => i - Len(s) - 1 \in DOMAIN t /\ p[i - 1] = t[i - Len(s) - 1]
  <2>1. CASE i <= Len(s)
    BY <1>1, <2>1
  <2>2. CASE i > Len(s)
    <3>1. PICK k : k = i - Len(s)
      OBVIOUS
    <3>2. k \in 1 .. Len(t) /\ Len(s) + k = i
      BY <1>1, <2>2, <3>1
    <3>3. p[i] = t[k]
      BY <1>1, <3>2
    <3>4. k > 1 => k - 1 \in 1 .. Len(t) /\ Len(s) + (k - 1) = i - 1
      BY <1>1, <3>2
    <3>5. k > 1 => p[i - 1] = t[k - 1]
      BY <1>1, <3>4
    <3>6. QED
      BY <1>1, <3>1, <3>2, <3>3, <3>4, <3>5
  <2>3. QED
    BY <1>1, <2>1, <2>2
<1>3. Elements(p) = Elements(s) \cup Elements(t)
  <2>1. Elements(p) \subseteq Elements(s) \cup Elements(t)
    BY <1>2 DEF Elements
  <2>2. Elements(s) \subseteq Elements(p)
    BY <1>1 DEF Elements
  <2>3. ASSUME NEW i \in DOMAIN t PROVE t[i] \in Elements(p)
    <3>1. Len(s) + i \in DOMAIN p /\ p[Len(s) + i] = t[i]
      BY <1>1
    <3>2. QED
      BY <3>1 DEF Elements
  <2>4. QED
    BY <2>1, <2>2, <2>3 DEF Elements
<1>4. Chained(p)
  <2>1. ASSUME NEW i \in DOMAIN p
        PROVE  /\ p[i].do = "arm" => i = 1
               /\ p[i].do = "start" => i > 1 /\ p[i - 1] = Effect("create", p[i].on)
               /\ p[i].do = "record" => i > 1 /\ p[i - 1] = Effect("remove_owned", p[i].on)
    <3>1. CASE i \in DOMAIN s /\ p[i] = s[i] /\ (i > 1 => i - 1 \in DOMAIN s /\ p[i - 1] = s[i - 1])
      BY <3>1 DEF Chained
    <3>2. CASE /\ i - Len(s) \in DOMAIN t /\ p[i] = t[i - Len(s)]
               /\ i - Len(s) > 1 => i - Len(s) - 1 \in DOMAIN t /\ p[i - 1] = t[i - Len(s) - 1]
      <4>1. PICK k \in DOMAIN t : k = i - Len(s)
        BY <3>2
      <4>2. t[k].do # "arm"
        BY DEF Elements
      <4>3. k > 1 => i > 1
        BY <1>1, <4>1
      <4>4. QED
        BY <3>2, <4>1, <4>2, <4>3 DEF Chained
    <3>3. QED
      BY <1>2, <3>1, <3>2
  <2>2. QED
    BY <2>1 DEF Chained
<1>5. s # << >> => p # << >> /\ p[1] = s[1]
  <2>1. s # << >> => Len(s) > 0
    BY <1>1
  <2>2. QED
    BY <1>1, <2>1
<1>6. ASSUME \A e \in Elements(s) : e.do \notin Ends, Closed(t)
      PROVE  Closed(p)
  <2>1. Len(t) > 0 /\ p # << >>
    BY <1>1, <1>6 DEF Closed
  <2>2. ASSUME NEW i \in DOMAIN p PROVE p[i].do \in Ends <=> i = Len(p)
    <3>1. CASE i \in DOMAIN s /\ p[i] = s[i]
      BY <1>1, <1>6, <2>1, <3>1 DEF Elements
    <3>2. CASE i - Len(s) \in DOMAIN t /\ p[i] = t[i - Len(s)]
      BY <1>1, <1>6, <3>2 DEF Closed
    <3>3. QED
      BY <1>2, <3>1, <3>2
  <2>3. QED
    BY <2>1, <2>2 DEF Closed
<1>7. QED
  BY <1>1, <1>3, <1>4, <1>5, <1>6

LEMMA KeyJoin ==
    ASSUME NEW s \in Seq(EffectRecords), NEW t \in Seq(EffectRecords), KeyOrder(s), KeyOrder(t),
           \/ Effect("record", Key) \notin Elements(s)
           \/ Effect("remove_owned", Key) \notin Elements(t)
    PROVE  KeyOrder(s \o t)
<1> DEFINE p == s \o t
<1>1. /\ Len(p) = Len(s) + Len(t) /\ Len(s) \in Nat /\ Len(t) \in Nat
      /\ DOMAIN p = 1 .. Len(p) /\ DOMAIN s = 1 .. Len(s) /\ DOMAIN t = 1 .. Len(t)
      /\ \A i \in 1 .. Len(s) : p[i] = s[i]
      /\ \A i \in 1 .. Len(t) : p[Len(s) + i] = t[i]
  OBVIOUS
<1> HIDE DEF p
<1>2. \A i \in DOMAIN p : \/ i \in DOMAIN s /\ p[i] = s[i]
                         \/ \E k \in DOMAIN t : i = Len(s) + k /\ p[i] = t[k]
  <2>1. ASSUME NEW i \in DOMAIN p, i > Len(s)
        PROVE  \E k \in DOMAIN t : i = Len(s) + k /\ p[i] = t[k]
    <3>1. PICK k : k = i - Len(s)
      OBVIOUS
    <3>2. k \in DOMAIN t /\ i = Len(s) + k
      BY <1>1, <2>1, <3>1
    <3> QED
      BY <1>1, <3>2
  <2> QED
    BY <1>1, <2>1
<1>3. ASSUME NEW i \in DOMAIN p, NEW j \in DOMAIN p,
             p[i] = Effect("record", Key), p[j] = Effect("remove_owned", Key)
      PROVE  j < i
  <2>1. CASE i \in DOMAIN s /\ p[i] = s[i]
    <3>1. Effect("record", Key) \in Elements(s)
      BY <1>3, <2>1 DEF Elements
    <3>2. j \in DOMAIN s /\ p[j] = s[j]
      BY <1>2, <1>3, <3>1 DEF Elements
    <3> QED
      BY <1>3, <2>1, <3>2 DEF KeyOrder
  <2>2. CASE \E k \in DOMAIN t : i = Len(s) + k /\ p[i] = t[k]
    <3>1. PICK k \in DOMAIN t : i = Len(s) + k /\ p[i] = t[k]
      BY <2>2
    <3>2. CASE j \in DOMAIN s
      BY <1>1, <3>1, <3>2
    <3>3. CASE \E m \in DOMAIN t : j = Len(s) + m /\ p[j] = t[m]
      <4>1. PICK m \in DOMAIN t : j = Len(s) + m /\ p[j] = t[m]
        BY <3>3
      <4>2. m < k
        BY <1>3, <3>1, <4>1 DEF KeyOrder
      <4> QED
        BY <1>1, <3>1, <4>1, <4>2
    <3> QED
      BY <1>2, <3>2, <3>3
  <2> QED
    BY <1>2, <2>1, <2>2
<1> QED
  BY <1>3 DEF KeyOrder, p

LEMMA NoPart ==
    /\ << >> \in Seq(EffectRecords) /\ Chained(<< >>) /\ Elements(<< >>) = {}
BY DEF Chained, Elements

LEMMA InstallPlanOK ==
    ASSUME onUnraid \in BOOLEAN
    PROVE  /\ InstallPlan \in Seq(EffectRecords) /\ InstallPlan[1].do = "arm"
           /\ Chained(InstallPlan) /\ Closed(InstallPlan)
           /\ Effect("commit", "state") \in Elements(InstallPlan)
           /\ \A e \in Elements(InstallPlan) :
                /\ e.do \in {"arm", "create", "start", "archive", "commit", "drop"}
                /\ e.do = "create" => e.on \in Runtime \cup Files
                /\ e.do = "start" => e.on \in {"api", "proxy"}
                /\ e.do = "archive" => stateJson # Nothing
<1>1. PICK a : a = << Effect("arm", "attempt"), Effect("create", "network"),
                      Effect("create", "api"), Effect("start", "api"),
                      Effect("create", "proxy"), Effect("start", "proxy") >>
  OBVIOUS
<1>2. PICK b : b = IF onUnraid THEN << Effect("create", "api_template"), Effect("create", "proxy_template") >>
                               ELSE << >>
  OBVIOUS
<1>3. PICK c : c = IF stateJson = Nothing THEN << >> ELSE << Effect("archive", "state") >>
  OBVIOUS
<1>4. PICK d : d = << Effect("commit", "state"), Effect("drop", "attempt") >>
  OBVIOUS
<1>5. InstallPlan = ((a \o b) \o c) \o d
  BY <1>1, <1>2, <1>3, <1>4 DEF InstallPlan
<1>6. /\ a \in Seq(EffectRecords) /\ Chained(a) /\ a # << >> /\ a[1].do = "arm"
      /\ Elements(a) = {Effect("arm", "attempt"), Effect("create", "network"), Effect("create", "api"),
                        Effect("start", "api"), Effect("create", "proxy"), Effect("start", "proxy")}
  BY <1>1 DEF Chained, Elements, Effect, EffectRecords, Effects, Objects, Runtime, Templates
<1>7. /\ b \in Seq(EffectRecords) /\ Chained(b)
      /\ \A e \in Elements(b) : e.do = "create" /\ e.on \in Files
  <2>1. CASE onUnraid
    BY <1>2, <2>1 DEF Chained, Elements, Effect, EffectRecords, Effects, Objects, Templates, Files
  <2>2. CASE ~onUnraid
    BY <1>2, <2>2, NoPart
  <2>3. QED
    BY <2>1, <2>2
<1>8. /\ c \in Seq(EffectRecords) /\ Chained(c)
      /\ \A e \in Elements(c) : e.do = "archive" /\ stateJson # Nothing
  <2>1. CASE stateJson # Nothing
    BY <1>3, <2>1 DEF Chained, Elements, Effect, EffectRecords, Effects
  <2>2. CASE stateJson = Nothing
    BY <1>3, <2>2, NoPart
  <2>3. QED
    BY <2>1, <2>2
<1>9. /\ d \in Seq(EffectRecords) /\ Chained(d) /\ Closed(d)
      /\ Elements(d) = {Effect("commit", "state"), Effect("drop", "attempt")}
  BY <1>4 DEF Chained, Closed, Ends, Elements, Effect, EffectRecords, Effects
<1>10. PICK p : p = a \o b
  OBVIOUS
<1>11. PICK q : q = p \o c
  OBVIOUS
<1>12. /\ p \in Seq(EffectRecords) /\ Chained(p) /\ Elements(p) = Elements(a) \cup Elements(b)
       /\ p # << >> /\ p[1] = a[1]
  BY <1>6, <1>7, <1>10, Joining
<1>13. /\ q \in Seq(EffectRecords) /\ Chained(q) /\ Elements(q) = Elements(p) \cup Elements(c)
       /\ q # << >> /\ q[1] = p[1]
  BY <1>8, <1>11, <1>12, Joining
<1>14. \A e \in Elements(q) :
         /\ e.do \in {"arm", "create", "start", "archive"}
         /\ e.do = "create" => e.on \in Runtime \cup Files
         /\ e.do = "start" => e.on \in {"api", "proxy"}
         /\ e.do = "archive" => stateJson # Nothing
  BY <1>6, <1>7, <1>8, <1>12, <1>13 DEF Effect, Runtime
<1>15. \A e \in Elements(d) : e.do \in {"commit", "drop"}
  BY <1>9 DEF Effect
<1>16. InstallPlan = q \o d
  BY <1>5, <1>10, <1>11
<1>17. /\ InstallPlan \in Seq(EffectRecords) /\ Chained(InstallPlan) /\ InstallPlan[1] = q[1]
       /\ Elements(InstallPlan) = Elements(q) \cup Elements(d)
       /\ (\A e \in Elements(q) : e.do \notin Ends) /\ Closed(d) => Closed(InstallPlan)
  BY <1>9, <1>13, <1>15, <1>16, Joining
<1>18. \A e \in Elements(q) : e.do \notin Ends
  BY <1>14 DEF Ends
<1>19. QED
  BY <1>6, <1>9, <1>12, <1>13, <1>14, <1>15, <1>17, <1>18

LEMMA CleanPlanOK ==
    ASSUME onUnraid \in BOOLEAN
    PROVE  /\ CleanPlan \in Seq(EffectRecords) /\ Closed(CleanPlan)
           /\ \A e \in Elements(CleanPlan) :
                /\ e.do \in {"remove", "drop_key", "close"}
                /\ e.do = "remove" => e.on \in Served
                /\ e.do = "drop_key" => e.on = Key
           /\ \A r \in Runtime \cup Files : Effect("remove", r) \in Elements(CleanPlan)
           /\ Effect("drop_key", Key) \in Elements(CleanPlan)
<1>1. PICK a : a = IF onUnraid
                     THEN << Effect("remove", "proxy_template"), Effect("remove", "api_template") >>
                     ELSE << >>
  OBVIOUS
<1>2. PICK b : b = << Effect("remove", "proxy"), Effect("remove", "api"), Effect("remove", "network"),
                      Effect("drop_key", Key), Effect("close", "attempt") >>
  OBVIOUS
<1>3. CleanPlan = a \o b
  BY <1>1, <1>2 DEF CleanPlan
<1>4. /\ a \in Seq(EffectRecords) /\ Chained(a)
      /\ Elements(a) = {Effect("remove", r) : r \in Files}
  <2>1. CASE onUnraid
    BY <1>1, <2>1 DEF Chained, Elements, Effect, EffectRecords, Effects, Objects, Templates, Files
  <2>2. CASE ~onUnraid
    BY <1>1, <2>2, NoPart DEF Files
  <2>3. QED
    BY <2>1, <2>2
<1>5. /\ b \in Seq(EffectRecords) /\ Chained(b) /\ Closed(b)
      /\ Elements(b) = {Effect("remove", r) : r \in Runtime}
                         \cup {Effect("drop_key", Key), Effect("close", "attempt")}
  BY <1>2 DEF Chained, Closed, Ends, Elements, Effect, EffectRecords, Effects, Objects, Runtime, Key
<1>6. (\A e \in Elements(a) : e.do \notin Ends) /\ \A e \in Elements(b) : e.do # "arm"
  BY <1>4, <1>5 DEF Effect, Ends
<1>7. /\ CleanPlan \in Seq(EffectRecords) /\ Closed(CleanPlan)
      /\ Elements(CleanPlan) = Elements(a) \cup Elements(b)
  BY <1>3, <1>4, <1>5, <1>6, Joining
<1>8. Files \subseteq Served /\ Runtime \subseteq Served
  BY DEF Files, Served
<1>9. /\ \A r \in Runtime \cup Files : Effect("remove", r) \in Elements(CleanPlan)
      /\ Effect("drop_key", Key) \in Elements(CleanPlan)
  BY <1>4, <1>5, <1>7
<1>10. \A e \in Elements(a) \cup Elements(b) :
         /\ e.do \in {"remove", "drop_key", "close"}
         /\ e.do = "remove" => e.on \in Served
         /\ e.do = "drop_key" => e.on = Key
  BY <1>4, <1>5, <1>8 DEF Effect
<1>11. QED
  BY <1>7, <1>9, <1>10

LEMMA BothOK ==
    ASSUME NEW r \in Objects
    PROVE  /\ Both(r) \in Seq(EffectRecords) /\ Chained(Both(r)) /\ Both(r) # << >>
           /\ Elements(Both(r)) = {Effect("remove_owned", r), Effect("record", r)}
           /\ KeyOrder(Both(r))
BY DEF Both, Chained, Elements, Effect, EffectRecords, Effects, KeyOrder

LEMMA UninstallPlanOK ==
    ASSUME onUnraid \in BOOLEAN
    PROVE  /\ UninstallPlan \in Seq(EffectRecords) /\ Chained(UninstallPlan) /\ Closed(UninstallPlan)
           /\ KeyOrder(UninstallPlan)
           /\ Effect("remove_owned", Key) \in Elements(UninstallPlan) => Key \notin stateJson.removed
           /\ \A e \in Elements(UninstallPlan) :
                /\ e.do \in {"remove_owned", "record", "finish"}
                /\ e.do # "finish" => e.on \in Objects
           /\ \A r \in Runtime \cup Files : Effect("remove_owned", r) \in Elements(UninstallPlan)
<1> DEFINE Two(S) == {Effect("remove_owned", r) : r \in S} \cup {Effect("record", r) : r \in S}
           Good(s, S) == s \in Seq(EffectRecords) /\ Chained(s) /\ KeyOrder(s) /\ Elements(s) = Two(S)
<1>1. ASSUME NEW s, NEW t, NEW S, NEW T, Good(s, S), Good(t, T), Key \notin S \cap T
      PROVE  Good(s \o t, S \cup T)
  <2>1. \A e \in Elements(t) : e.do # "arm"
    BY <1>1 DEF Effect
  <2>2. /\ s \o t \in Seq(EffectRecords) /\ Chained(s \o t)
        /\ Elements(s \o t) = Elements(s) \cup Elements(t)
    BY <1>1, <2>1, Joining
  <2>3. KeyOrder(s \o t)
    <3>1. \/ Effect("record", Key) \notin Elements(s)
          \/ Effect("remove_owned", Key) \notin Elements(t)
      BY <1>1 DEF Effect
    <3> QED
      BY <1>1, <3>1, KeyJoin
  <2>4. QED
    BY <1>1, <2>2, <2>3
<1>2. \A r \in Objects : Good(Both(r), {r})
  BY BothOK
<1>3. Good(<< >>, {})
  BY NoPart DEF KeyOrder
<1> HIDE DEF Good
<1>4. PICK k : k = IF session /\ Key \notin stateJson.removed THEN Both(Key) ELSE << >>
  OBVIOUS
<1>5. PICK f : f = IF onUnraid THEN Both("api_template") \o Both("proxy_template") ELSE << >>
  OBVIOUS
<1>6. {"proxy", "api", "network", Key, "api_template", "proxy_template"} \subseteq Objects
  BY DEF Objects, Runtime, Templates
<1>7. PICK K \in SUBSET {Key} : Good(k, K) /\ (Key \in K => Key \notin stateJson.removed)
  <2>1. CASE session /\ Key \notin stateJson.removed
    <3>1. Good(k, {Key}) /\ {Key} \in SUBSET {Key}
      BY <1>2, <1>4, <1>6, <2>1
    <3>2. QED
      BY <2>1, <3>1
  <2>2. CASE ~(session /\ Key \notin stateJson.removed)
    <3>1. Good(k, {}) /\ {} \in SUBSET {Key}
      BY <1>3, <1>4, <2>2
    <3>2. QED
      BY <3>1
  <2>3. QED
    BY <2>1, <2>2
<1>8. Good(f, Files)
  <2>1. CASE onUnraid
    <3>1. Good(f, {"api_template"} \cup {"proxy_template"})
      BY <1>1, <1>2, <1>5, <1>6, <2>1 DEF Key
    <3>2. {"api_template"} \cup {"proxy_template"} = Files
      BY <2>1 DEF Files, Templates
    <3>3. QED
      BY <3>1, <3>2
  <2>2. CASE ~onUnraid
    BY <1>3, <1>5, <2>2 DEF Files
  <2>3. QED
    BY <2>1, <2>2
<1>9. PICK s : s = (((Both("proxy") \o Both("api")) \o k) \o Both("network")) \o f
  OBVIOUS
<1>10. PICK d : d = << Effect("finish", "state") >>
  OBVIOUS
<1>11. UninstallPlan = s \o d
  BY <1>4, <1>5, <1>9, <1>10 DEF UninstallPlan
<1>12. PICK S : /\ Good(s, S) /\ Runtime \cup Files \subseteq S /\ S \subseteq Objects
                /\ Key \in S => Key \notin stateJson.removed
  <2>0. Key \notin {"proxy"} /\ Key \notin {"api"} /\ Key \notin {"network"} /\ Key \notin Files
    BY DEF Key, Files, Templates
  <2>1. Good(Both("proxy") \o Both("api"), {"proxy"} \cup {"api"})
    BY <1>1, <1>2, <1>6, <2>0
  <2>2. Good((Both("proxy") \o Both("api")) \o k, ({"proxy"} \cup {"api"}) \cup K)
    BY <1>1, <1>7, <2>0, <2>1
  <2>3. Good(((Both("proxy") \o Both("api")) \o k) \o Both("network"), (({"proxy"} \cup {"api"}) \cup K) \cup {"network"})
    BY <1>1, <1>2, <1>6, <2>0, <2>2
  <2>4. Good(s, ((({"proxy"} \cup {"api"}) \cup K) \cup {"network"}) \cup Files)
    BY <1>1, <1>8, <1>9, <2>0, <2>3
  <2>5. /\ Runtime \cup Files \subseteq ((({"proxy"} \cup {"api"}) \cup K) \cup {"network"}) \cup Files
        /\ ((({"proxy"} \cup {"api"}) \cup K) \cup {"network"}) \cup Files \subseteq Objects
        /\ Key \in ((({"proxy"} \cup {"api"}) \cup K) \cup {"network"}) \cup Files => Key \in K
    BY <2>0 DEF Runtime, Files, Objects
  <2>6. QED
    BY <1>7, <2>4, <2>5
<1>13. /\ d \in Seq(EffectRecords) /\ Chained(d) /\ Closed(d) /\ Elements(d) = {Effect("finish", "state")}
       /\ KeyOrder(d)
  BY <1>10 DEF Chained, Closed, Ends, Elements, Effect, EffectRecords, Effects, KeyOrder
<1>14. (\A e \in Elements(s) : e.do \notin Ends) /\ \A e \in Elements(d) : e.do # "arm"
  BY <1>12, <1>13 DEF Effect, Ends, Good
<1>15. s \in Seq(EffectRecords) /\ Chained(s) /\ KeyOrder(s) /\ Elements(s) = Two(S)
  BY <1>12 DEF Good
<1>16. /\ UninstallPlan \in Seq(EffectRecords) /\ Chained(UninstallPlan) /\ Closed(UninstallPlan)
       /\ Elements(UninstallPlan) = Two(S) \cup {Effect("finish", "state")}
  <2> DEFINE p == UninstallPlan
             E == Elements(s)
             D == Elements(d)
  <2>1. /\ s \in Seq(EffectRecords) /\ d \in Seq(EffectRecords) /\ p = s \o d
        /\ Chained(s) /\ Chained(d) /\ Closed(d)
    BY <1>11, <1>13, <1>15
  <2> HIDE DEF p
  <2>2. /\ p \in Seq(EffectRecords) /\ Chained(p) /\ Elements(p) = E \cup D
        /\ ((\A e \in E : e.do \notin Ends) /\ Closed(d) => Closed(p))
    BY <1>14, <2>1, Joining
  <2>3. Closed(p)
    BY <1>14, <2>1, <2>2
  <2> QED
    BY <1>13, <1>15, <2>2, <2>3 DEF p
<1>17. KeyOrder(UninstallPlan)
  <2>1. Effect("remove_owned", Key) \notin Elements(d)
    BY <1>13 DEF Effect
  <2> QED
    BY <1>11, <1>13, <1>15, <2>1, KeyJoin
<1>18. Effect("remove_owned", Key) \in Elements(UninstallPlan) => Key \notin stateJson.removed
  BY <1>12, <1>16 DEF Effect
<1>19. \A e \in Elements(UninstallPlan) :
         /\ e.do \in {"remove_owned", "record", "finish"}
         /\ e.do # "finish" => e.on \in Objects
  BY <1>12, <1>16 DEF Effect
<1>20. \A r \in Runtime \cup Files : Effect("remove_owned", r) \in Elements(UninstallPlan)
  BY <1>12, <1>16
<1> QED
  BY <1>16, <1>17, <1>18, <1>19, <1>20

-----------------------------------------------------------------------------
(* The steps.                                                                *)

LEMMA NothingIsNoRecord ==
    /\ Nothing \notin Nat /\ Nothing \notin Attempt /\ Nothing \notin State
    /\ \A i \in Nat, s \in {"prepared", "starting", "cleaned", "cleanup-failed"} :
         [id |-> i, status |-> s] \in Attempt /\ [id |-> i, status |-> s] # Nothing
BY NothingAssumption DEF Attempt

LEMMA DeployInitOK == DeployInit => DeployInv
<1>1. ASSUME DeployInit PROVE DeployInv
  <2>1. DeployTypeOK
    <3>1. NoLocal \in Local /\ << >> \in Seq(EffectRecords)
      BY DEF NoLocal, Local
    <3>2. live \in [Objects -> Nat \cup {Nothing}]
      BY <1>1 DEF DeployInit
    <3>3. 0 \in 0 .. MaxCommands /\ 0 \in 0 .. MaxFailures /\ 0 \in Nat
      BY BoundsAssumption
    <3>4. /\ todo = << >> /\ op = "idle" /\ cur \in Local /\ up = {} /\ history = {} /\ stray = {}
          /\ attempt = Nothing /\ stateJson = Nothing /\ dirty = FALSE
          /\ onUnraid \in BOOLEAN /\ session \in BOOLEAN
          /\ lastInstall = 0 /\ commands = 0 /\ failures = 0
      BY <1>1, <3>1 DEF DeployInit
    <3>5. QED
      BY <3>1, <3>2, <3>3, <3>4 DEF DeployTypeOK
  <2>2. PlanOK /\ op = "idle"
    BY <1>1 DEF DeployInit, PlanOK
  <2>3. IdsOK /\ ObjectsOK /\ NewestOK /\ NothingOrphaned /\ CleanedIsClean
    BY <1>1 DEF DeployInit, IdsOK, ObjectsOK, NewestOK, Served, NothingOrphaned, CleanedIsClean, Present,
                Objects, Runtime, Templates, Key
  <2>4. QED
    BY <2>1, <2>2, <2>3 DEF DeployInv
<1>2. QED
  BY <1>1

\* A step after which no command runs.
LEMMA IdleOK ==
    ASSUME DeployTypeOK', op' = "idle", todo' = << >>, IdsOK', ObjectsOK', NewestOK',
           NothingOrphaned', CleanedIsClean'
    PROVE  DeployInv'
<1>1. PlanOK'
  BY DEF PlanOK
<1>2. QED
  BY <1>1 DEF DeployInv

\* NewestOK outlasts a step that makes no state, and holds while an attempt is open.
LEMMA NewestKept ==
    ASSUME NewestOK, lastInstall' = lastInstall,
           stateJson' # Nothing /\ stateJson'.status # "uninstalled" =>
               stateJson # Nothing /\ stateJson.status # "uninstalled" /\ stateJson'.id = stateJson.id,
           \A r \in Served : live'[r] \in {live[r], Nothing, 0, lastInstall}
    PROVE  NewestOK'
BY DEF NewestOK

LEMMA NewestTried ==
    ASSUME AttemptOK', stateJson' # Nothing /\ stateJson'.status # "uninstalled" => stateJson'.id = lastInstall'
    PROVE  NewestOK'
BY DEF AttemptOK, NewestOK

LEMMA Running ==
    ASSUME DeployInv, op # "idle"
    PROVE  /\ todo \in Seq(EffectRecords) /\ todo # << >> /\ Head(todo) = todo[1] /\ 1 \in DOMAIN todo
           /\ todo[1] \in EffectRecords
           /\ Tail(todo) \in Seq(EffectRecords) /\ cur \in Local /\ cur.id \in Nat
<1>1. todo \in Seq(EffectRecords) /\ todo # << >> /\ cur \in Local
  BY DEF DeployInv, DeployTypeOK, PlanOK
<1>2. Head(todo) = todo[1] /\ 1 \in DOMAIN todo /\ Tail(todo) \in Seq(EffectRecords)
  BY <1>1, PoppedList
<1>3. todo[1] \in EffectRecords
  BY <1>1, <1>2
<1>4. QED
  BY <1>1, <1>2, <1>3 DEF Local

LEMMA InstallKeeps ==
    ASSUME DeployInv, Install
    PROVE  DeployInv'
<1>1. DeployTypeOK /\ IdsOK /\ ObjectsOK /\ CleanedIsClean
  BY DEF DeployInv
<1>2. /\ op = "idle" /\ Preflight /\ lastInstall' = lastInstall + 1
      /\ attempt' = [id |-> lastInstall', status |-> "prepared"]
      /\ cur' = [id |-> lastInstall', retry |-> attempt, keyBefore |-> Present(Key), errors |-> FALSE]
      /\ op' = "install" /\ todo' = InstallPlan
      /\ UNCHANGED <<onUnraid, session, live, stray, up, dirty, stateJson, history, failures>>
      /\ commands' = commands + 1 /\ commands < MaxCommands
  BY DEF Install, Command, profile
<1>3. \A r \in Served : live[r] = Nothing
  BY <1>1, <1>2 DEF Preflight, Served, Files, ObjectsOK, Present, DeployTypeOK
<1>4. /\ InstallPlan \in Seq(EffectRecords) /\ InstallPlan[1].do = "arm"
      /\ Chained(InstallPlan) /\ Closed(InstallPlan)
      /\ Effect("commit", "state") \in Elements(InstallPlan)
      /\ \A e \in Elements(InstallPlan) :
            /\ e.do \in {"arm", "create", "start", "archive", "commit", "drop"}
            /\ e.do = "create" => e.on \in Runtime \cup Files
            /\ e.do = "start" => e.on \in {"api", "proxy"}
            /\ e.do = "archive" => stateJson # Nothing
  BY <1>1, InstallPlanOK DEF DeployTypeOK
<1>5. /\ attempt' \in Attempt /\ attempt' # Nothing /\ attempt'.id = lastInstall' /\ attempt'.status = "prepared"
      /\ lastInstall \in Nat /\ lastInstall' \in Nat
  <2>1. lastInstall \in Nat /\ lastInstall' \in Nat
    BY <1>1, <1>2 DEF DeployTypeOK
  <2>2. QED
    BY <1>2, <2>1, NothingIsNoRecord
<1>6. DeployTypeOK'
  <2>1. cur' \in Local
    BY <1>1, <1>2, <1>5 DEF DeployTypeOK, Local, Present
  <2>2. todo' # << >> /\ todo' \in Seq(EffectRecords)
    BY <1>2, <1>4 DEF Closed
  <2>3. commands' \in 0 .. MaxCommands
    BY <1>1, <1>2, BoundsAssumption DEF DeployTypeOK
  <2>4. QED
    BY <1>1, <1>2, <1>5, <2>1, <2>2, <2>3 DEF DeployTypeOK
<1>7. PlanOK'
  BY <1>2, <1>4 DEF PlanOK, Closed
<1>8. IdsOK'
  BY <1>1, <1>2, <1>5 DEF IdsOK, Present, DeployTypeOK, State
<1>9. ObjectsOK'
  BY <1>1, <1>2 DEF ObjectsOK, Present
<1>10. live[Key] # lastInstall' /\ \A r \in Objects : live[r] # lastInstall'
  BY <1>1, <1>2, <1>5, NothingIsNoRecord DEF IdsOK, Present, Objects, DeployTypeOK
<1>11. attempt # Nothing => /\ attempt.status = "cleaned" /\ attempt.id \in 1 .. lastInstall' - 1
                            /\ \A r \in Objects : live[r] # attempt.id
  <2>1. stray \subseteq Served
    BY <1>1 DEF DeployTypeOK, Served
  <2>2. QED
    BY <1>1, <1>2, <1>3, <1>5, <2>1, NothingIsNoRecord DEF Preflight, CleanedIsClean, IdsOK
<1>12. AttemptOK'
  <2>1. cur'.id = lastInstall' /\ cur'.retry = attempt /\ cur'.keyBefore = Present(Key)
    BY <1>2
  <2>2. QED
    BY <1>2, <1>3, <1>5, <1>10, <1>11, <2>1 DEF AttemptOK, Served, Present
<1>13. InstallOK'
  <2>1. ~cur'.errors /\ todo'[1].do = "arm"
    BY <1>2, <1>4
  <2>2. \A i \in DOMAIN todo' : todo'[i] \in Elements(InstallPlan)
    BY <1>2 DEF Elements
  <2>3. Has(Effect("commit", "state"))'
    BY <1>2, <1>4 DEF Has, Elements, Effect
  <2>4. Files' = Files /\ stateJson' = stateJson
    BY <1>2 DEF Files
  <2>5. QED
    BY <1>2, <1>4, <1>5, <2>1, <2>2, <2>3, <2>4 DEF InstallOK, Chained, Effect
<1>14. NothingOrphaned' /\ CleanedIsClean'
  BY <1>2, <1>3, <1>5 DEF NothingOrphaned, CleanedIsClean, Present, Served
<1>15. NewestOK'
  BY <1>2, <1>3 DEF NewestOK, Preflight
<1>16. QED
  BY <1>2, <1>6, <1>7, <1>8, <1>9, <1>12, <1>13, <1>14, <1>15 DEF DeployInv

LEMMA InstalledOK ==
    ASSUME cur.id \in Nat
    PROVE  Installed \in State /\ Installed # Nothing /\ Installed.id = cur.id /\ Installed.removed = {}
           /\ Installed.status = "installed"
<1>1. Installed \in State
  BY DEF Installed, State
<1>2. QED
  BY <1>1, NothingIsNoRecord DEF Installed

\* While install runs.
LEMMA InInstall ==
    ASSUME DeployInv, op = "install"
    PROVE  /\ DeployTypeOK /\ IdsOK /\ ObjectsOK /\ AttemptOK /\ InstallOK
           /\ Head(todo) = todo[1] /\ cur.id \in Nat /\ cur.id # Nothing
           /\ Head(todo).do # "drop" => Head(todo).do \notin Ends
           /\ Head(todo).do = "arm" <=> attempt.status = "prepared"
           /\ attempt \in Attempt
<1>1. DeployTypeOK /\ IdsOK /\ ObjectsOK /\ AttemptOK /\ InstallOK
  BY DEF DeployInv
<1>2. Head(todo) = todo[1] /\ 1 \in DOMAIN todo /\ cur.id \in Nat
  BY Running
<1>3. todo[1].do \in {"arm", "create", "start", "archive", "commit", "drop"}
  BY <1>1, <1>2 DEF InstallOK
<1>4. todo[1].do = "arm" <=> attempt.status = "prepared"
  BY <1>1 DEF InstallOK
<1>5. attempt \in Attempt
  BY <1>1 DEF AttemptOK, DeployTypeOK
<1>6. QED
  BY <1>1, <1>2, <1>3, <1>4, <1>5, NothingIsNoRecord DEF Ends

\* What one step of install leaves: of its facts only those about live, state
\* and attempt are at stake.
LEMMA InstallPops ==
    ASSUME DeployInv, op = "install", Pop, Head(todo).do # "drop", profile' = profile,
           DeployTypeOK', IdsOK', ObjectsOK', AttemptOK', attempt'.status = "starting",
           \A r \in Objects : Present(r) => Present(r)',
           todo[1].do = "create" => live'[todo[1].on] # Nothing,
           stateJson # Nothing => stateJson' # Nothing,
           Head(todo).do = "commit" => stateJson' = Installed,
           Head(todo).do # "commit" => stateJson' = stateJson
    PROVE  DeployInv'
<1>1. InstallOK
  BY DEF DeployInv
<1>2. Head(todo).do \notin Ends
  <2>2. Head(todo) = todo[1] /\ 1 \in DOMAIN todo
    BY Running
  <2>3. todo[1].do \in {"arm", "create", "start", "archive", "commit", "drop"}
    BY <1>1, <2>2 DEF InstallOK
  <2>4. QED
    BY <2>2, <2>3 DEF Ends
<1>3. /\ Head(todo) = todo[1] /\ 1 \in DOMAIN todo /\ todo[1] \in EffectRecords
      /\ todo' \in Seq(EffectRecords) /\ op' = op /\ cur' = cur
      /\ \A i \in DOMAIN todo' : i \in Nat /\ i > 0 /\ i + 1 \in DOMAIN todo /\ todo'[i] = todo[i + 1]
      /\ PlanOK'
      /\ \A e : Has(e) /\ e # todo[1] => Has(e)'
  BY <1>2, PopOK DEF Pop
<1>4. ~cur'.errors
  BY <1>1, <1>3 DEF InstallOK
<1>5. Files' = Files
  BY DEF Files, profile
<1>6. ASSUME NEW i \in DOMAIN todo'
      PROVE  /\ todo'[i].do \in {"arm", "create", "start", "archive", "commit", "drop"}
             /\ todo'[i].do # "arm"
             /\ todo'[i].do = "create" => todo'[i].on \in Runtime \cup Files'
             /\ todo'[i].do = "start" =>
                  /\ todo'[i].on \in {"api", "proxy"}
                  /\ live'[todo'[i].on] # Nothing \/ (i > 1 /\ todo'[i - 1] = Effect("create", todo'[i].on))
             /\ todo'[i].do = "archive" => stateJson' # Nothing
  <2>1. i \in Nat /\ i > 0 /\ i + 1 \in DOMAIN todo /\ todo'[i] = todo[i + 1] /\ i + 1 # 1
    BY <1>3
  <2>2. /\ todo[i + 1].do \in {"arm", "create", "start", "archive", "commit", "drop"}
        /\ todo[i + 1].do = "arm" => i + 1 = 1
        /\ todo[i + 1].do = "create" => todo[i + 1].on \in Runtime \cup Files
        /\ todo[i + 1].do = "start" =>
             /\ todo[i + 1].on \in {"api", "proxy"}
             /\ Present(todo[i + 1].on) \/ (i + 1 > 1 /\ todo[(i + 1) - 1] = Effect("create", todo[i + 1].on))
        /\ todo[i + 1].do = "archive" => stateJson # Nothing
    BY <1>1, <2>1 DEF InstallOK
  <2>3. ASSUME todo'[i].do = "start"
        PROVE  live'[todo'[i].on] # Nothing \/ (i > 1 /\ todo'[i - 1] = Effect("create", todo'[i].on))
    <3>1. todo'[i].on \in Objects
      BY <2>1, <2>2, <2>3 DEF Objects, Runtime
    <3>2. CASE Present(todo[i + 1].on)
      BY <2>1, <3>1, <3>2 DEF Present
    <3>3. CASE todo[(i + 1) - 1] = Effect("create", todo[i + 1].on)
      <4>1. todo[i] = Effect("create", todo'[i].on)
        BY <2>1, <3>3
      <4>2. CASE i = 1
        BY <4>1, <4>2 DEF Effect
      <4>3. CASE i > 1
        <5>1. PICK k \in Nat : k = i - 1 /\ k > 0
          BY <2>1, <4>3
        <5>2. k \in DOMAIN todo'
          BY <1>3, <2>1, <4>3, <5>1
        <5>3. todo'[k] = todo[k + 1] /\ k + 1 = i
          BY <1>3, <5>1, <5>2
        <5>4. QED
          BY <4>1, <4>3, <5>1, <5>3
      <4>4. QED
        BY <2>1, <4>2, <4>3
    <3>4. QED
      BY <2>2, <2>1, <2>3, <3>2, <3>3
  <2>4. QED
    BY <1>5, <2>1, <2>2, <2>3
<1>7. Has(Effect("commit", "state"))' \/ stateJson' = Installed'
  <2>1. Installed' = Installed
    BY <1>3 DEF Installed
  <2>2. CASE Head(todo).do = "commit"
    BY <2>1, <2>2
  <2>3. CASE Head(todo).do # "commit"
    <3>1. todo[1] # Effect("commit", "state")
      BY <1>3, <2>3 DEF Effect
    <3>2. QED
      BY <1>1, <1>3, <2>1, <2>3, <3>1 DEF InstallOK
  <2>4. QED
    BY <2>2, <2>3
<1>8. todo'[1].do # "arm"
  <2>1. todo' # << >> /\ todo' \in Seq(EffectRecords)
    BY <1>3 DEF PlanOK
  <2>2. 1 \in DOMAIN todo'
    BY <2>1, PoppedList
  <2>3. QED
    BY <1>6, <2>2
<1>9. InstallOK'
  BY <1>4, <1>6, <1>7, <1>8 DEF InstallOK, Present
<1>10. NothingOrphaned' /\ CleanedIsClean'
  BY DEF AttemptOK, NothingOrphaned, CleanedIsClean, Present, Served
<1>11. NewestOK'
  <2>1. lastInstall' = lastInstall /\ cur.id = lastInstall /\ cur.id \in Nat
    BY <1>3, InInstall DEF AttemptOK
  <2>2. QED
    BY <2>1, InstalledOK, NewestTried DEF DeployInv, NewestOK
<1>12. QED
  BY <1>3, <1>9, <1>10, <1>11 DEF DeployInv

\* The type of what a step of a command changes.
LEMMA RunningType ==
    ASSUME DeployInv, op # "idle", Pop, UNCHANGED <<profile, counters>>, Head(todo).do \notin Ends,
           live' \in [Objects -> Nat \cup {Nothing}], up' \subseteq Runtime, stray' \subseteq Templates, dirty' \in BOOLEAN,
           attempt' \in Attempt \cup {Nothing}, stateJson' \in State \cup {Nothing}, history' \subseteq Nat
    PROVE  DeployTypeOK'
<1>1. DeployTypeOK /\ PlanOK' /\ todo' \in Seq(EffectRecords) /\ op' = op /\ cur' = cur
  BY PopOK DEF DeployInv, Pop
<1>2. onUnraid' = onUnraid /\ session' = session /\ commands' = commands /\ failures' = failures
      /\ lastInstall' = lastInstall
  BY DEF profile, counters
<1>3. (op' = "idle") = (todo' = << >>)
  BY <1>1 DEF PlanOK
<1>4. QED
  BY <1>1, <1>2, <1>3 DEF DeployTypeOK

LEMMA ArmKeeps ==
    ASSUME DeployInv, Arm
    PROVE  DeployInv'
<1>1. /\ op = "install" /\ Head(todo).do = "arm" /\ Pop
      /\ attempt' = [attempt EXCEPT !.status = "starting"]
      /\ UNCHANGED <<profile, counters, live, stray, up, dirty, stateJson, history>>
  BY DEF Arm, At
<1>2. /\ DeployTypeOK /\ IdsOK /\ ObjectsOK /\ AttemptOK /\ InstallOK
      /\ Head(todo) = todo[1] /\ attempt \in Attempt
  BY <1>1, InInstall
<1>3. /\ attempt' \in Attempt /\ attempt' # Nothing /\ attempt'.id = attempt.id /\ attempt'.status = "starting"
  BY <1>1, <1>2, NothingIsNoRecord DEF Attempt
<1>4. DeployTypeOK'
  BY <1>1, <1>2, <1>3, RunningType DEF DeployTypeOK, Ends
<1>5. cur' = cur /\ lastInstall' = lastInstall /\ session' = session /\ onUnraid' = onUnraid
  BY <1>1 DEF Pop, profile, counters
<1>6. IdsOK' /\ ObjectsOK'
  BY <1>1, <1>2, <1>3, <1>5 DEF IdsOK, ObjectsOK, AttemptOK, Present
<1>7. AttemptOK'
  BY <1>1, <1>2, <1>3, <1>5 DEF AttemptOK, Present
<1>8. \A r \in Objects : Present(r) => Present(r)'
  BY <1>1 DEF Present
<1>9. todo[1].do = "create" => live'[todo[1].on] # Nothing
  BY <1>1, <1>2
<1>10. QED
  BY <1>1, <1>3, <1>4, <1>6, <1>7, <1>8, <1>9, InstallPops

\* An object of the attempt is made.
LEMMA MadeOK ==
    ASSUME DeployInv, op = "install", attempt.status = "starting", NEW r \in Objects,
           live' = [live EXCEPT ![r] = cur.id],
           UNCHANGED <<cur, attempt, stateJson, lastInstall, profile>>,
           r \in Served => r \in Runtime \cup Files,
           r = Key => session /\ ~Present(Key),
           \A q \in up' : Present(q) \/ q = r
    PROVE  /\ IdsOK' /\ ObjectsOK' /\ AttemptOK' /\ live' \in [Objects -> Nat \cup {Nothing}]
           /\ \A q \in Objects : Present(q) => Present(q)'
           /\ live'[r] # Nothing
<1>1. /\ DeployTypeOK /\ IdsOK /\ ObjectsOK /\ AttemptOK /\ cur.id \in Nat /\ cur.id # Nothing
  BY InInstall
<1>2. /\ live \in [Objects -> Nat \cup {Nothing}] /\ live' \in [Objects -> Nat \cup {Nothing}]
      /\ live'[r] = cur.id /\ \A q \in Objects \ {r} : live'[q] = live[q]
  BY <1>1 DEF DeployTypeOK
<1>3. /\ cur' = cur /\ attempt' = attempt /\ stateJson' = stateJson /\ lastInstall' = lastInstall
      /\ onUnraid' = onUnraid /\ session' = session
  BY DEF profile
<1>4. lastInstall \in Nat /\ cur.id = lastInstall
  BY <1>1 DEF DeployTypeOK, AttemptOK
<1>5. IdsOK'
  <2>1. \A q \in Objects : live'[q] # Nothing => live'[q] <= lastInstall
    BY <1>1, <1>2, <1>4 DEF IdsOK, Present
  <2>2. QED
    BY <1>1, <1>3, <2>1 DEF IdsOK, Present
<1>6. ObjectsOK'
  <2>1. \A q \in up' : live'[q] # Nothing
    BY <1>1, <1>2 DEF ObjectsOK, Present, DeployTypeOK, Objects
  <2>2. ASSUME ~onUnraid, NEW q \in Templates PROVE live'[q] = Nothing
    <3>1. q # r
      BY <2>2 DEF Files, Served, Runtime, Templates
    <3>2. live[q] = Nothing /\ q \in Objects
      BY <1>1, <2>2 DEF ObjectsOK, Present, Objects
    <3>3. QED
      BY <1>2, <3>1, <3>2
  <2>3. ASSUME ~session PROVE live'[Key] = Nothing
    BY <1>1, <1>2, <2>3 DEF ObjectsOK, Present, Objects
  <2>4. QED
    BY <1>3, <2>1, <2>2, <2>3 DEF ObjectsOK, Present
<1>7. AttemptOK'
  <2>1. \A q \in Served : live'[q] \in {Nothing, cur.id}
    BY <1>1, <1>2 DEF AttemptOK, Served, Objects
  <2>2. IF cur.keyBefore THEN live'[Key] \notin {Nothing, cur.id} ELSE live'[Key] \in {Nothing, cur.id}
    <3>1. CASE r = Key /\ ~cur.keyBefore
      BY <1>2, <3>1
    <3>2. CASE r = Key /\ cur.keyBefore
      BY <1>1, <3>2 DEF AttemptOK, Present
    <3>3. CASE r # Key
      BY <1>1, <1>2, <3>3 DEF AttemptOK, Objects
    <3>4. QED
      BY <3>1, <3>2, <3>3
  <2>3. cur.retry # Nothing => \A q \in Objects : live'[q] # cur.retry.id
    BY <1>1, <1>2 DEF AttemptOK
  <2>4. QED
    BY <1>1, <1>3, <2>1, <2>2, <2>3 DEF AttemptOK
<1>8. QED
  BY <1>1, <1>2, <1>5, <1>6, <1>7 DEF Present

LEMMA CreateKeeps ==
    ASSUME DeployInv, CreateObject
    PROVE  DeployInv'
<1>1. /\ op = "install" /\ Head(todo).do = "create" /\ Pop
      /\ live' = [live EXCEPT ![Head(todo).on] = cur.id]
      /\ UNCHANGED <<profile, counters, stray, up, dirty, attempt, stateJson, history>>
  BY DEF CreateObject, At, This
<1>2. /\ DeployTypeOK /\ InstallOK /\ AttemptOK /\ Head(todo) = todo[1] /\ attempt.status = "starting"
  BY <1>1, InInstall DEF AttemptOK
<1>3. PICK r : r = Head(todo).on
  OBVIOUS
<1>4. r \in Runtime \cup Files
  BY <1>1, <1>2, <1>3, Running DEF InstallOK
<1>5. r \in Objects /\ r # Key
  BY <1>4 DEF Objects, Runtime, Files, Templates, Key
<1>6. cur' = cur /\ \A q \in up' : Present(q)
  BY <1>1, <1>2, InInstall DEF Pop, ObjectsOK
<1>7. /\ IdsOK' /\ ObjectsOK' /\ AttemptOK' /\ live' \in [Objects -> Nat \cup {Nothing}]
      /\ \A q \in Objects : Present(q) => Present(q)'
      /\ live'[r] # Nothing
  <2>1. live' = [live EXCEPT ![r] = cur.id] /\ (r \in Served => r \in Runtime \cup Files)
    BY <1>1, <1>3, <1>4
  <2>2. UNCHANGED <<cur, attempt, stateJson, lastInstall, profile>>
    BY <1>1, <1>6 DEF counters
  <2>3. QED
    BY <1>1, <1>2, <1>5, <1>6, <2>1, <2>2, MadeOK
<1>8. DeployTypeOK'
  BY <1>1, <1>2, <1>7, RunningType DEF DeployTypeOK, Ends
<1>9. QED
  BY <1>1, <1>2, <1>3, <1>7, <1>8, InstallPops

LEMMA StartKeeps ==
    ASSUME DeployInv, Start
    PROVE  DeployInv'
<1>1. /\ op = "install" /\ Head(todo).do = "start" /\ Pop
      /\ up' = up \cup {Head(todo).on}
      /\ IF Head(todo).on = "api"
           THEN /\ dirty' = TRUE
                /\ live' = IF session /\ ~Present(Key) THEN [live EXCEPT ![Key] = cur.id] ELSE live
           ELSE UNCHANGED <<dirty, live>>
      /\ UNCHANGED <<profile, counters, stray, attempt, stateJson, history>>
  BY DEF Start, At, This
<1>2. /\ DeployTypeOK /\ IdsOK /\ ObjectsOK /\ InstallOK /\ AttemptOK /\ Head(todo) = todo[1]
      /\ attempt.status = "starting"
  BY <1>1, InInstall DEF AttemptOK
<1>3. Head(todo).on \in {"api", "proxy"} /\ Present(Head(todo).on)
  <2>1. 1 \in DOMAIN todo /\ ~(1 > 1)
    BY <1>1, Running
  <2>2. QED
    BY <1>1, <1>2, <2>1 DEF InstallOK
<1>4. cur' = cur /\ lastInstall' = lastInstall /\ session' = session /\ onUnraid' = onUnraid
  BY <1>1 DEF Pop, profile, counters
<1>5. /\ IdsOK' /\ ObjectsOK' /\ AttemptOK' /\ live' \in [Objects -> Nat \cup {Nothing}]
      /\ \A q \in Objects : Present(q) => Present(q)'
  <2>1. CASE live' = [live EXCEPT ![Key] = cur.id] /\ session /\ ~Present(Key)
    <3>1. Key \in Objects /\ Key \notin Served /\ \A q \in up' : q \in up \/ Present(q)
      BY <1>1, <1>3 DEF Objects, Served, Runtime, Templates, Key
    <3>2. UNCHANGED <<cur, attempt, stateJson, lastInstall, profile>>
      BY <1>1, <1>4
    <3>3. \A q \in up' : Present(q) \/ q = Key
      BY <3>1, <1>2 DEF ObjectsOK
    <3>4. QED
      BY <1>1, <1>2, <2>1, <3>1, <3>2, <3>3, MadeOK
  <2>2. CASE live' = live
    <3>1. \A q \in up' : Present(q)
      BY <1>1, <1>2, <1>3 DEF ObjectsOK
    <3>2. QED
      BY <1>1, <1>2, <1>4, <2>2, <3>1 DEF IdsOK, ObjectsOK, AttemptOK, Present, DeployTypeOK
  <2>3. QED
    BY <1>1, <2>1, <2>2
<1>6. DeployTypeOK'
  BY <1>1, <1>2, <1>3, <1>5, RunningType DEF DeployTypeOK, Ends, Runtime
<1>7. QED
  BY <1>1, <1>2, <1>5, <1>6, InstallPops

LEMMA ArchiveKeeps ==
    ASSUME DeployInv, Archive
    PROVE  DeployInv'
<1>1. /\ op = "install" /\ Head(todo).do = "archive" /\ Pop
      /\ history' = history \cup {stateJson.id}
      /\ UNCHANGED <<profile, counters, live, stray, up, dirty, attempt, stateJson>>
  BY DEF Archive, At
<1>2. /\ DeployTypeOK /\ IdsOK /\ ObjectsOK /\ InstallOK /\ AttemptOK /\ Head(todo) = todo[1]
      /\ attempt.status = "starting"
  BY <1>1, InInstall DEF AttemptOK
<1>3. stateJson # Nothing
  BY <1>1, <1>2, Running DEF InstallOK
<1>4. history' \subseteq Nat
  BY <1>1, <1>2, <1>3 DEF DeployTypeOK, State
<1>5. DeployTypeOK'
  BY <1>1, <1>2, <1>4, RunningType DEF DeployTypeOK, Ends
<1>6. cur' = cur /\ lastInstall' = lastInstall /\ session' = session /\ onUnraid' = onUnraid
  BY <1>1 DEF Pop, profile, counters
<1>7. IdsOK' /\ ObjectsOK' /\ AttemptOK'
  BY <1>1, <1>2, <1>6 DEF IdsOK, ObjectsOK, AttemptOK, Present
<1>8. \A r \in Objects : Present(r) => Present(r)'
  BY <1>1 DEF Present
<1>9. QED
  BY <1>1, <1>2, <1>5, <1>7, <1>8, InstallPops

LEMMA CommitKeeps ==
    ASSUME DeployInv, Commit
    PROVE  DeployInv'
<1>1. /\ op = "install" /\ Head(todo).do = "commit" /\ Pop /\ stateJson' = Installed
      /\ UNCHANGED <<profile, counters, live, stray, up, dirty, attempt, history>>
  BY DEF Commit, At
<1>2. /\ DeployTypeOK /\ IdsOK /\ ObjectsOK /\ InstallOK /\ AttemptOK /\ Head(todo) = todo[1]
      /\ attempt.status = "starting" /\ cur.id \in Nat
  BY <1>1, InInstall DEF AttemptOK
<1>3. stateJson' \in State /\ stateJson' # Nothing /\ stateJson'.id = lastInstall /\ lastInstall \in Nat
  BY <1>1, <1>2, InstalledOK DEF AttemptOK, DeployTypeOK
<1>4. DeployTypeOK'
  BY <1>1, <1>2, <1>3, RunningType DEF DeployTypeOK, Ends
<1>5. cur' = cur /\ lastInstall' = lastInstall /\ session' = session /\ onUnraid' = onUnraid
  BY <1>1 DEF Pop, profile, counters
<1>6. IdsOK' /\ ObjectsOK' /\ AttemptOK'
  BY <1>1, <1>2, <1>3, <1>5 DEF IdsOK, ObjectsOK, AttemptOK, Present
<1>7. \A r \in Objects : Present(r) => Present(r)'
  BY <1>1 DEF Present
<1>8. QED
  BY <1>1, <1>2, <1>3, <1>4, <1>6, <1>7, InstallPops

\* The type of what the end of a command leaves.
LEMMA StoppedType ==
    ASSUME DeployTypeOK, Stop, UNCHANGED <<profile, lastInstall, commands>>, failures' \in 0 .. MaxFailures,
           live' \in [Objects -> Nat \cup {Nothing}], up' \subseteq Runtime, dirty' \in BOOLEAN, stray' \subseteq Templates,
           attempt' \in Attempt \cup {Nothing}, stateJson' \in State \cup {Nothing}, history' \subseteq Nat
    PROVE  DeployTypeOK' /\ op' = "idle" /\ todo' = << >>
<1>1. op' = "idle" /\ todo' = << >> /\ cur' = NoLocal /\ NoLocal \in Local /\ << >> \in Seq(EffectRecords)
  BY DEF Stop, NoLocal, Local
<1>2. QED
  BY <1>1 DEF DeployTypeOK, profile

LEMMA DropKeeps ==
    ASSUME DeployInv, Drop
    PROVE  DeployInv'
<1>1. /\ op = "install" /\ Head(todo).do = "drop" /\ Stop /\ attempt' = Nothing
      /\ UNCHANGED <<profile, counters, live, stray, up, dirty, stateJson, history>>
  BY DEF Drop, At
<1>2. /\ DeployTypeOK /\ IdsOK /\ ObjectsOK /\ InstallOK /\ AttemptOK /\ Head(todo) = todo[1]
      /\ cur.id \in Nat
  BY <1>1, InInstall
<1>3. stateJson = Installed
  <2>1. 1 = Len(todo) /\ DOMAIN todo = 1 .. Len(todo)
    <3>1. 1 \in DOMAIN todo /\ Head(todo) = todo[1] /\ todo[1].do \in Ends
      BY <1>1, <1>2, Running DEF Ends
    <3>2. todo \in Seq(EffectRecords) /\ todo # << >>
      BY <1>1, Running
    <3>3. QED
      BY <3>1, <3>2, PoppedList DEF DeployInv, PlanOK
  <2>2. ~Has(Effect("commit", "state"))
    BY <1>1, <1>2, <2>1 DEF Has, Effect
  <2>3. QED
    BY <1>2, <2>2 DEF InstallOK
<1>4. DeployTypeOK' /\ op' = "idle" /\ todo' = << >>
  BY <1>1, <1>2, StoppedType DEF DeployTypeOK, counters
<1>5. IdsOK' /\ ObjectsOK'
  BY <1>1, <1>2 DEF IdsOK, ObjectsOK, Present, profile, counters
<1>6. NothingOrphaned'
  <2>1. stateJson # Nothing /\ stateJson.id = cur.id /\ stateJson.removed = {} /\ stateJson.status = "installed"
    BY <1>2, <1>3, InstalledOK
  <2>2. \A r \in Served : live[r] \in {Nothing, cur.id}
    BY <1>2 DEF AttemptOK
  <2>3. QED
    BY <1>1, <2>1, <2>2 DEF NothingOrphaned, Present, Served
<1>7. CleanedIsClean'
  BY <1>1 DEF CleanedIsClean
<1>8. NewestOK'
  BY <1>1, NewestKept DEF DeployInv, counters
<1>9. QED
  BY <1>4, <1>5, <1>6, <1>7, <1>8, IdleOK

-----------------------------------------------------------------------------
(* A failed install is cleaned up.                                          *)

LEMMA AttemptCovers ==
    ASSUME AttemptOK'
    PROVE  NothingOrphaned' /\ CleanedIsClean'
BY DEF AttemptOK, NothingOrphaned, CleanedIsClean, Present, Served

\* A failure of install, which may have made its effect.
LEMMA CleanBegins ==
    ASSUME DeployInv, op = "install", NEW p, op' = "clean", todo' = p, cur' = cur,
           \/ p = CleanPlan
           \/ p = Restoring /\ attempt.status = "prepared" /\ live' = live,
           UNCHANGED <<profile, up, dirty, history, lastInstall, commands>>,
           failures' \in 0 .. MaxFailures, stateJson' \in {stateJson, Installed},
           live' \in [Objects -> Nat \cup {Nothing}], stray' \subseteq Templates, attempt' \in Attempt,
           IdsOK', ObjectsOK', AttemptOK'
    PROVE  DeployInv'
<1>1. /\ DeployTypeOK /\ IdsOK /\ ObjectsOK /\ AttemptOK /\ InstallOK /\ cur.id \in Nat
  BY InInstall
<1>2. op' = "clean" /\ todo' = p /\ cur' = cur
  OBVIOUS
<1>3. onUnraid' = onUnraid /\ session' = session
  BY DEF profile
<1>5. NothingOrphaned' /\ CleanedIsClean'
  BY AttemptCovers
<1>6. p \in Seq(EffectRecords) /\ Closed(p)
  <2>1. Restoring \in Seq(EffectRecords) /\ Closed(Restoring)
    BY DEF Restoring, Closed, Effect, EffectRecords, Effects, Ends
  <2>2. QED
    BY <1>1, <2>1, CleanPlanOK DEF DeployTypeOK
<1>7. PlanOK'
  BY <1>2, <1>6 DEF PlanOK, Closed
<1>8. stateJson' \in State \cup {Nothing}
  BY <1>1, InstalledOK DEF DeployTypeOK
<1>9. DeployTypeOK'
  <2>1. todo' \in Seq(EffectRecords) /\ todo' # << >>
    BY <1>2, <1>6 DEF Closed
  <2>2. QED
    BY <1>1, <1>2, <1>3, <1>8, <2>1 DEF DeployTypeOK
<1>10. NewestOK'
  BY <1>1, InstalledOK, NewestTried DEF DeployInv, NewestOK, AttemptOK
<1>11. CleanOK'
  <2>1. CASE p = Restoring /\ attempt.status = "prepared" /\ live' = live
    BY <1>1, <1>2, <2>1 DEF CleanOK, Restoring, AttemptOK, Present
  <2>2. CASE p = CleanPlan
    <3>1. /\ \A e \in Elements(p) :
               /\ e.do \in {"remove", "drop_key", "close"}
               /\ e.do = "remove" => e.on \in Served
               /\ e.do = "drop_key" => e.on = Key
          /\ \A r \in Runtime \cup Files : Effect("remove", r) \in Elements(p)
          /\ Effect("drop_key", Key) \in Elements(p)
      BY <1>1, <2>2, CleanPlanOK DEF DeployTypeOK
    <3>2. \A i \in DOMAIN todo' : todo'[i] \in Elements(p)
      BY <1>2 DEF Elements
    <3>3. \A r \in Served : live'[r] # Nothing => r \in Runtime \cup Files
      BY <1>1, <1>3 DEF ObjectsOK, Present, Served, Files, DeployTypeOK
    <3>4. \A r \in Served : live'[r] # Nothing => \E i \in DOMAIN todo' : todo'[i] = Effect("remove", r)
      BY <1>2, <3>1, <3>3 DEF Elements
    <3>5. \E i \in DOMAIN todo' : todo'[i] = Effect("drop_key", Key)
      BY <1>2, <3>1 DEF Elements
    <3>6. QED
      BY <3>1, <3>2, <3>4, <3>5 DEF CleanOK, Has, Present, Effect
  <2>3. QED
    BY <2>1, <2>2
<1>12. QED
  BY <1>2, <1>5, <1>7, <1>9, <1>10, <1>11 DEF DeployInv

\* A failure that made nothing but, it may be, the state.
LEMMA CleanFollows ==
    ASSUME DeployInv, op = "install", NEW p, Clean(p),
           \/ p = CleanPlan
           \/ p = Restoring /\ Head(todo).do = "arm",
           UNCHANGED <<profile, live, stray, up, dirty, history, lastInstall, commands>>,
           failures' \in 0 .. MaxFailures, stateJson' \in {stateJson, Installed}
    PROVE  DeployInv'
<1>1. /\ DeployTypeOK /\ IdsOK /\ ObjectsOK /\ AttemptOK /\ InstallOK /\ cur.id \in Nat
      /\ Head(todo).do = "arm" <=> attempt.status = "prepared"
      /\ attempt \in Attempt
  BY InInstall
<1>2. op' = "clean" /\ todo' = p /\ cur' = cur /\ attempt' = attempt
  BY DEF Clean
<1>3. onUnraid' = onUnraid /\ session' = session
  BY DEF profile
<1>4. AttemptOK'
  BY <1>1, <1>2 DEF AttemptOK, Present
<1>5. stateJson' # Nothing => stateJson'.id <= lastInstall
  BY <1>1, InstalledOK DEF IdsOK, AttemptOK, DeployTypeOK
<1>6. IdsOK' /\ ObjectsOK'
  BY <1>1, <1>2, <1>3, <1>5 DEF IdsOK, ObjectsOK, Present
<1>7. live' \in [Objects -> Nat \cup {Nothing}] /\ stray' \subseteq Templates
  BY <1>1 DEF DeployTypeOK
<1>8. QED
  BY <1>1, <1>2, <1>4, <1>6, <1>7, CleanBegins

\* While a failed install is cleaned up.
LEMMA InClean ==
    ASSUME DeployInv, op = "clean"
    PROVE  /\ DeployTypeOK /\ IdsOK /\ ObjectsOK /\ AttemptOK
           /\ Head(todo) = todo[1] /\ 1 \in DOMAIN todo /\ cur.id \in Nat /\ cur.id # Nothing
           /\ Head(todo).do \in {"remove", "drop_key", "close", "restore"}
           /\ Head(todo).do = "restore" => (\A r \in Served : ~Present(r)) /\ live[Key] # cur.id
           /\ Head(todo).do # "restore" =>
                /\ \A i \in DOMAIN todo :
                     /\ todo[i].do \in {"remove", "drop_key", "close"}
                     /\ todo[i].do = "remove" => todo[i].on \in Served
                     /\ todo[i].do = "drop_key" => todo[i].on = Key
                /\ ~cur.errors =>
                     /\ \A r \in Served \ stray : Present(r) => Has(Effect("remove", r))
                     /\ live[Key] = cur.id => Has(Effect("drop_key", Key))
<1>1. DeployTypeOK /\ IdsOK /\ ObjectsOK /\ AttemptOK /\ CleanOK
  BY DEF DeployInv
<1>2. Head(todo) = todo[1] /\ 1 \in DOMAIN todo /\ cur.id \in Nat
  BY Running
<1>3. CASE todo = Restoring /\ (\A r \in Served : ~Present(r)) /\ live[Key] # cur.id
  <2>1. todo[1].do = "restore"
    BY <1>3 DEF Restoring, Effect
  <2>2. QED
    BY <1>1, <1>2, <1>3, <2>1, NothingIsNoRecord
<1>4. CASE ~(todo = Restoring /\ (\A r \in Served : ~Present(r)) /\ live[Key] # cur.id)
  <2>1. /\ \A i \in DOMAIN todo :
             /\ todo[i].do \in {"remove", "drop_key", "close"}
             /\ todo[i].do = "remove" => todo[i].on \in Served
             /\ todo[i].do = "drop_key" => todo[i].on = Key
        /\ ~cur.errors =>
             /\ \A r \in Served \ stray : Present(r) => Has(Effect("remove", r))
             /\ live[Key] = cur.id => Has(Effect("drop_key", Key))
    BY <1>1, <1>4 DEF CleanOK
  <2>2. todo[1].do \in {"remove", "drop_key", "close"}
    BY <1>2, <2>1
  <2>3. QED
    BY <1>1, <1>2, <2>1, <2>2, NothingIsNoRecord
<1>5. QED
  BY <1>3, <1>4

\* One step of the cleanup, which may have failed.
LEMMA CleanPops ==
    ASSUME DeployInv, op = "clean", Head(todo).do \in {"remove", "drop_key"}, todo' = Tail(todo), op' = op,
           cur' \in Local, cur'.id = cur.id, cur'.retry = cur.retry, cur'.keyBefore = cur.keyBefore,
           UNCHANGED <<profile, lastInstall, commands, stray, dirty, attempt, stateJson, history>>,
           failures' \in 0 .. MaxFailures,
           live' \in [Objects -> Nat \cup {Nothing}], \A q \in Objects : live'[q] \in {live[q], Nothing},
           up' \subseteq up, \A q \in up' : live'[q] # Nothing,
           cur.keyBefore => live'[Key] = live[Key],
           cur.errors => cur'.errors,
           ~cur'.errors /\ Head(todo).do = "remove" => live'[Head(todo).on] = Nothing \/ Head(todo).on \in stray,
           ~cur'.errors /\ Head(todo).do = "drop_key" => live'[Key] # cur.id
    PROVE  DeployInv'
<1>1. /\ DeployTypeOK /\ IdsOK /\ ObjectsOK /\ AttemptOK
      /\ Head(todo) = todo[1] /\ 1 \in DOMAIN todo /\ cur.id \in Nat /\ cur.id # Nothing
      /\ \A i \in DOMAIN todo :
           /\ todo[i].do \in {"remove", "drop_key", "close"}
           /\ todo[i].do = "remove" => todo[i].on \in Served
           /\ todo[i].do = "drop_key" => todo[i].on = Key
      /\ ~cur.errors =>
           /\ \A r \in Served \ stray : Present(r) => Has(Effect("remove", r))
           /\ live[Key] = cur.id => Has(Effect("drop_key", Key))
  BY InClean
<1>2. Head(todo).do \notin Ends
  BY DEF Ends
<1>3. /\ todo' \in Seq(EffectRecords)
      /\ \A i \in DOMAIN todo' : i \in Nat /\ i > 0 /\ i + 1 \in DOMAIN todo /\ todo'[i] = todo[i + 1]
      /\ PlanOK'
      /\ \A e : Has(e) /\ e # todo[1] => Has(e)'
  BY <1>2, PopOK
<1>4. onUnraid' = onUnraid /\ session' = session
  BY DEF profile
<1>5. DeployTypeOK'
  BY <1>1, <1>3, <1>4 DEF DeployTypeOK, PlanOK
<1>6. IdsOK' /\ ObjectsOK'
  BY <1>1, <1>4 DEF IdsOK, ObjectsOK, Present, Objects
<1>7. AttemptOK'
  <2>1. \A q \in Served : live'[q] \in {Nothing, cur.id}
    BY <1>1 DEF AttemptOK, Served, Objects
  <2>2. IF cur.keyBefore THEN live'[Key] \notin {Nothing, cur.id} ELSE live'[Key] \in {Nothing, cur.id}
    BY <1>1 DEF AttemptOK, Objects
  <2>3. attempt.status = "prepared" => (\A r \in Served : live'[r] = Nothing) /\ live'[Key] # cur.id
    BY <1>1 DEF AttemptOK, Served, Objects, Present
  <2>4. cur.retry # Nothing => \A q \in Objects : live'[q] # cur.retry.id
    <3>1. ASSUME cur.retry # Nothing, NEW q \in Objects PROVE live'[q] # cur.retry.id
      <4>1. cur.retry \in Attempt /\ cur.retry.id \in Nat
        BY <1>1, <3>1 DEF DeployTypeOK, Local, Attempt
      <4>2. live[q] # cur.retry.id /\ live'[q] \in {live[q], Nothing}
        BY <1>1, <3>1 DEF AttemptOK
      <4>3. QED
        BY <4>1, <4>2, NothingIsNoRecord
    <3>2. QED
      BY <3>1
  <2>5. QED
    BY <1>1, <2>1, <2>2, <2>3, <2>4 DEF AttemptOK, Present
<1>8. CleanOK'
  <2>1. \A i \in DOMAIN todo' :
            /\ todo'[i].do \in {"remove", "drop_key", "close"}
            /\ todo'[i].do = "remove" => todo'[i].on \in Served
            /\ todo'[i].do = "drop_key" => todo'[i].on = Key
    BY <1>1, <1>3
  <2>2. ASSUME ~cur'.errors, NEW r \in Served \ stray', live'[r] # Nothing
        PROVE  Has(Effect("remove", r))'
    <3>1. Present(r) /\ ~cur.errors
      BY <2>2 DEF Present, Served, Objects
    <3>2. todo[1] # Effect("remove", r)
      BY <1>1, <2>2 DEF Effect
    <3>3. QED
      BY <1>1, <1>3, <3>1, <3>2
  <2>3. ASSUME ~cur'.errors, live'[Key] = cur.id
        PROVE  Has(Effect("drop_key", Key))'
    <3>1. live[Key] = cur.id /\ ~cur.errors
      BY <1>1, <2>3 DEF Objects
    <3>2. todo[1] # Effect("drop_key", Key)
      BY <1>1, <2>3 DEF Effect
    <3>3. QED
      BY <1>1, <1>3, <3>1, <3>2
  <2>4. QED
    BY <2>1, <2>2, <2>3 DEF CleanOK, Present
<1>9. NothingOrphaned' /\ CleanedIsClean'
  BY <1>7, AttemptCovers
<1>10. NewestOK'
  BY <1>7, NewestTried DEF DeployInv, NewestOK
<1>11. QED
  BY <1>3, <1>5, <1>6, <1>7, <1>8, <1>9, <1>10 DEF DeployInv

LEMMA RestoreKeeps ==
    ASSUME DeployInv, op = "clean", Head(todo).do = "restore", Stop,
           UNCHANGED <<profile, live, stray, up, dirty, stateJson, history, lastInstall, commands>>,
           failures' \in 0 .. MaxFailures,
           \/ attempt' = cur.retry
           \/ attempt' = [id |-> cur.id, status |-> "cleanup-failed"]
    PROVE  DeployInv'
<1>1. /\ DeployTypeOK /\ IdsOK /\ ObjectsOK /\ AttemptOK /\ cur.id \in Nat
      /\ (\A r \in Served : ~Present(r)) /\ live[Key] # cur.id
  BY InClean
<1>2. cur \in Local /\ cur.retry \in Attempt \cup {Nothing}
  BY <1>1 DEF DeployTypeOK, Local
<1>3. /\ attempt' \in Attempt \cup {Nothing}
      /\ attempt' # Nothing => /\ attempt'.id \in 1 .. cur.id
                               /\ attempt'.status \in {"cleaned", "cleanup-failed"}
                               /\ attempt'.status = "cleaned" => \A r \in Objects : live[r] # attempt'.id
  <2>1. CASE attempt' = cur.retry
    BY <1>1, <1>2, <2>1 DEF AttemptOK
  <2>2. CASE attempt' = [id |-> cur.id, status |-> "cleanup-failed"]
    <3>1. attempt' \in Attempt /\ attempt'.id = cur.id /\ attempt'.status = "cleanup-failed"
      BY <1>1, <2>2, NothingIsNoRecord
    <3>2. cur.id \in 1 .. cur.id
      BY <1>1 DEF AttemptOK, IdsOK
    <3>3. QED
      BY <3>1, <3>2
  <2>3. QED
    BY <2>1, <2>2
<1>4. DeployTypeOK' /\ op' = "idle" /\ todo' = << >>
  BY <1>1, <1>3, StoppedType DEF DeployTypeOK
<1>5. IdsOK' /\ ObjectsOK'
  BY <1>1, <1>3 DEF IdsOK, ObjectsOK, Present, profile, AttemptOK
<1>6. NothingOrphaned' /\ CleanedIsClean'
  BY <1>1, <1>3 DEF NothingOrphaned, CleanedIsClean, Present, AttemptOK, Served
<1>7. NewestOK'
  BY NewestKept DEF DeployInv
<1>8. QED
  BY <1>4, <1>5, <1>6, <1>7, IdleOK

LEMMA RemoveKeeps ==
    ASSUME DeployInv, RemoveNew
    PROVE  DeployInv'
<1>1. /\ op = "clean" /\ Head(todo).do = "remove" /\ todo' = Tail(todo) /\ op' = op /\ cur' = cur
      /\ IF live[Head(todo).on] = cur.id /\ Head(todo).on \notin stray
           THEN live' = [live EXCEPT ![Head(todo).on] = Nothing] /\ up' = up \ {Head(todo).on}
           ELSE UNCHANGED <<live, up>>
      /\ UNCHANGED <<profile, lastInstall, commands, failures, stray, dirty, attempt, stateJson, history>>
  BY DEF RemoveNew, At, This, Pop, counters
<1>2. /\ DeployTypeOK /\ ObjectsOK /\ AttemptOK /\ cur.id # Nothing /\ Head(todo).on \in Served
  BY <1>1, InClean
<1>3. PICK r \in Served : r = Head(todo).on
  BY <1>2
<1>4. r \in Objects /\ r # Key
  BY DEF Served, Objects, Runtime, Templates, Key
<1>5. /\ live \in [Objects -> Nat \cup {Nothing}] /\ up \subseteq Runtime /\ Runtime \subseteq Objects
      /\ cur \in Local /\ failures \in 0 .. MaxFailures
  BY <1>2 DEF DeployTypeOK, Objects
<1>6. /\ live' \in [Objects -> Nat \cup {Nothing}] /\ (live'[r] = Nothing \/ r \in stray)
      /\ live'[r] \in {live[r], Nothing} /\ \A q \in Objects \ {r} : live'[q] = live[q]
      /\ up' \subseteq up /\ \A q \in up' : live'[q] # Nothing
  <2>1. CASE live[r] = cur.id /\ r \notin stray
    BY <1>1, <1>2, <1>3, <1>4, <1>5, <2>1 DEF ObjectsOK, Present
  <2>2. CASE ~(live[r] = cur.id /\ r \notin stray)
    BY <1>1, <1>2, <1>3, <1>4, <1>5, <2>2 DEF ObjectsOK, Present, AttemptOK
  <2>3. QED
    BY <2>1, <2>2
<1>7. live'[Key] = live[Key] /\ \A q \in Objects : live'[q] \in {live[q], Nothing}
  BY <1>4, <1>6 DEF Objects
<1>8. QED
  BY <1>1, <1>3, <1>5, <1>6, <1>7, CleanPops

LEMMA DropKeyKeeps ==
    ASSUME DeployInv, DropKey
    PROVE  DeployInv'
<1>1. /\ op = "clean" /\ Head(todo).do = "drop_key" /\ todo' = Tail(todo) /\ op' = op /\ cur' = cur
      /\ live' = IF session /\ ~cur.errors /\ ~cur.keyBefore THEN [live EXCEPT ![Key] = Nothing] ELSE live
      /\ UNCHANGED <<profile, lastInstall, commands, failures, stray, up, dirty, attempt, stateJson, history>>
  BY DEF DropKey, At, Pop, counters
<1>2. /\ DeployTypeOK /\ ObjectsOK /\ AttemptOK /\ cur.id # Nothing
  BY <1>1, InClean
<1>3. /\ live \in [Objects -> Nat \cup {Nothing}] /\ up \subseteq Runtime /\ Key \notin Runtime
      /\ cur \in Local /\ failures \in 0 .. MaxFailures /\ Key \in Objects /\ Runtime \subseteq Objects
  BY <1>2 DEF DeployTypeOK, Objects, Runtime, Key
<1>4. /\ live' \in [Objects -> Nat \cup {Nothing}]
      /\ \A q \in Objects \ {Key} : live'[q] = live[q]
      /\ live'[Key] \in {live[Key], Nothing}
      /\ cur.keyBefore => live'[Key] = live[Key]
      /\ ~cur.errors => live'[Key] # cur.id
  <2>1. CASE session /\ ~cur.errors /\ ~cur.keyBefore
    BY <1>1, <1>2, <1>3, <2>1
  <2>2. CASE ~(session /\ ~cur.errors /\ ~cur.keyBefore)
    BY <1>1, <1>2, <1>3, <2>2 DEF ObjectsOK, AttemptOK, Present
  <2>3. QED
    BY <2>1, <2>2
<1>5. \A q \in up' : live'[q] # Nothing
  BY <1>1, <1>2, <1>3, <1>4 DEF ObjectsOK, Present
<1>6. \A q \in Objects : live'[q] \in {live[q], Nothing}
  BY <1>4
<1>7. QED
  BY <1>1, <1>3, <1>4, <1>5, <1>6, CleanPops

\* The end of a cleanup that got to its last effect: what is left of the
\* attempt has made it note an error.
LEMMA NothingLeft ==
    ASSUME DeployInv, op = "clean", Head(todo).do = "close", ~cur.errors
    PROVE  (\A r \in Served \ stray : ~Present(r)) /\ live[Key] # cur.id
<1>1. /\ Head(todo) = todo[1] /\ 1 \in DOMAIN todo
      /\ \A r \in Served \ stray : Present(r) => Has(Effect("remove", r))
      /\ live[Key] = cur.id => Has(Effect("drop_key", Key))
  BY InClean
<1>2. todo \in Seq(EffectRecords) /\ todo # << >> /\ todo[1].do \in Ends
  BY <1>1, Running DEF Ends
<1>3. Len(todo) = 1
  BY <1>1, <1>2 DEF DeployInv, PlanOK
<1>4. \A i \in DOMAIN todo : i = 1
  BY <1>2, <1>3, PoppedList
<1>5. \A d, r : d # "close" => ~Has(Effect(d, r))
  BY <1>1, <1>4 DEF Has, Effect
<1>6. QED
  BY <1>1, <1>5

LEMMA CloseKeeps ==
    ASSUME DeployInv, Close
    PROVE  DeployInv'
<1>1. /\ op = "clean" /\ Head(todo).do = "close" /\ Stop
      /\ attempt' = [id |-> cur.id, status |-> IF cur.errors THEN "cleanup-failed" ELSE "cleaned"]
      /\ UNCHANGED <<profile, live, stray, up, dirty, stateJson, history, lastInstall, commands, failures>>
  BY DEF Close, At, counters
<1>2. /\ DeployTypeOK /\ IdsOK /\ ObjectsOK /\ AttemptOK /\ cur.id \in Nat /\ cur.id # Nothing
  BY <1>1, InClean
<1>3. /\ attempt' \in Attempt /\ attempt' # Nothing /\ attempt'.id = cur.id
      /\ attempt'.status = IF cur.errors THEN "cleanup-failed" ELSE "cleaned"
  BY <1>1, <1>2, NothingIsNoRecord
<1>4. DeployTypeOK' /\ op' = "idle" /\ todo' = << >>
  BY <1>1, <1>2, <1>3, StoppedType DEF DeployTypeOK
<1>5. IdsOK' /\ ObjectsOK'
  BY <1>1, <1>2, <1>3 DEF IdsOK, ObjectsOK, Present, profile, AttemptOK
<1>6. NothingOrphaned' /\ CleanedIsClean'
  <2>1. CASE cur.errors
    BY <1>1, <1>2, <1>3, <2>1 DEF NothingOrphaned, CleanedIsClean, Present, AttemptOK, Served
  <2>2. CASE ~cur.errors
    <3>1. (\A r \in Served \ stray : ~Present(r)) /\ live[Key] # cur.id
      BY <1>1, <2>2, NothingLeft
    <3>2. \A r \in Objects \ stray : live[r] # cur.id
      BY <1>2, <3>1 DEF Present, Objects, Served
    <3>3. QED
      BY <1>1, <1>3, <3>1, <3>2 DEF NothingOrphaned, CleanedIsClean, Present, Served
  <2>3. QED
    BY <2>1, <2>2
<1>7. NewestOK'
  BY <1>1, NewestKept DEF DeployInv
<1>8. QED
  BY <1>4, <1>5, <1>6, <1>7, IdleOK

\* A command that stops where it is: killed, or with nothing left to try.
LEMMA StopKeeps ==
    ASSUME DeployInv, Stop, failures' \in 0 .. MaxFailures,
           UNCHANGED <<profile, live, stray, up, dirty, attempt, stateJson, history, lastInstall, commands>>
    PROVE  DeployInv'
<1>1. DeployTypeOK /\ IdsOK /\ ObjectsOK /\ NothingOrphaned /\ CleanedIsClean
  BY DEF DeployInv
<1>2. DeployTypeOK' /\ op' = "idle" /\ todo' = << >>
  BY <1>1, StoppedType DEF DeployTypeOK
<1>3. IdsOK' /\ ObjectsOK'
  BY <1>1 DEF IdsOK, ObjectsOK, Present, profile
<1>4. NothingOrphaned' /\ CleanedIsClean'
  BY <1>1 DEF NothingOrphaned, CleanedIsClean, Present
<1>5. NewestOK'
  BY NewestKept DEF DeployInv
<1>6. QED
  BY <1>2, <1>3, <1>4, <1>5, IdleOK

\* The cleanup notes an error.
LEMMA ErrorNoted ==
    ASSUME DeployInv, op = "clean", cur' = [cur EXCEPT !.errors = TRUE], op' = op, attempt' = attempt,
           failures' \in 0 .. MaxFailures,
           UNCHANGED <<profile, live, stray, up, dirty, stateJson, history, lastInstall, commands>>,
           \/ Head(todo).do \in {"remove", "drop_key"} /\ todo' = Tail(todo)
           \/ Head(todo).do = "close" /\ todo' = todo
    PROVE  DeployInv'
<1>1. /\ DeployTypeOK /\ IdsOK /\ ObjectsOK /\ AttemptOK /\ PlanOK /\ NothingOrphaned /\ CleanedIsClean
  BY DEF DeployInv
<1>2. /\ cur \in Local /\ cur' \in Local /\ cur'.id = cur.id /\ cur'.retry = cur.retry
      /\ cur'.keyBefore = cur.keyBefore /\ cur'.errors = TRUE
  BY <1>1 DEF DeployTypeOK, Local
<1>3. CASE Head(todo).do \in {"remove", "drop_key"} /\ todo' = Tail(todo)
  <2>1. /\ live' \in [Objects -> Nat \cup {Nothing}] /\ \A q \in up' : live'[q] # Nothing
        /\ up' = up /\ live' = live
    BY <1>1 DEF DeployTypeOK, ObjectsOK, Present
  <2>2. QED
    BY <1>2, <1>3, <2>1, CleanPops
<1>4. CASE Head(todo).do = "close" /\ todo' = todo
  <2>1. DeployTypeOK' /\ PlanOK'
    BY <1>1, <1>2, <1>4 DEF DeployTypeOK, PlanOK, profile
  <2>2. IdsOK' /\ ObjectsOK' /\ AttemptOK'
    BY <1>1, <1>2 DEF IdsOK, ObjectsOK, AttemptOK, Present, profile
  <2>3. NothingOrphaned' /\ CleanedIsClean'
    BY <1>1 DEF NothingOrphaned, CleanedIsClean, Present
  <2>4. CleanOK'
    BY <1>2, <1>4, InClean DEF CleanOK
  <2>5. NewestOK'
    BY NewestKept DEF DeployInv
  <2>6. QED
    BY <1>4, <2>1, <2>2, <2>3, <2>4, <2>5 DEF DeployInv
<1>5. QED
  BY <1>3, <1>4

LEMMA RaisesKeeps ==
    ASSUME DeployInv, CommandRaises
    PROVE  DeployInv'
<1>1. /\ op # "idle" /\ failures < MaxFailures /\ failures' = failures + 1
      /\ CASE op = "install"   -> InstallRaises
           [] op = "clean"     -> CleanRaises
           [] op = "uninstall" -> Stop /\ UNCHANGED attempt
      /\ UNCHANGED <<profile, live, stray, up, dirty, stateJson, history, lastInstall, commands>>
  BY DEF CommandRaises
<1>2. DeployTypeOK /\ op \in {"install", "clean", "uninstall"} /\ failures' \in 0 .. MaxFailures
  BY <1>1, BoundsAssumption DEF DeployInv, DeployTypeOK
<1>3. CASE op = "install"
  <2>1. InstallRaises
    BY <1>1, <1>3
  <2>2. CASE Head(todo).do = "arm" /\ Clean(Restoring)
    BY <1>1, <1>2, <1>3, <2>2, CleanFollows
  <2>3. CASE Clean(CleanPlan)
    BY <1>1, <1>2, <1>3, <2>3, CleanFollows
  <2>4. CASE Head(todo).do = "drop" /\ Stop /\ UNCHANGED attempt
    BY <1>1, <1>2, <2>4, StopKeeps
  <2>5. QED
    BY <2>1, <2>2, <2>3, <2>4 DEF InstallRaises
<1>4. CASE op = "clean"
  <2>1. CleanRaises
    BY <1>1, <1>4
  <2>2. CASE /\ Head(todo).do \in {"remove", "drop_key"} /\ todo' = Tail(todo)
             /\ cur' = [cur EXCEPT !.errors = TRUE] /\ UNCHANGED <<op, attempt>>
    BY <1>1, <1>2, <1>4, <2>2, ErrorNoted
  <2>3. CASE /\ Head(todo).do = "close" /\ cur' = [cur EXCEPT !.errors = TRUE]
             /\ UNCHANGED <<op, todo, attempt>>
    BY <1>1, <1>2, <1>4, <2>3, ErrorNoted
  <2>4. CASE Head(todo).do = "close" /\ Stop /\ UNCHANGED attempt
    BY <1>1, <1>2, <2>4, StopKeeps
  <2>5. CASE Head(todo).do = "restore" /\ Stop /\ attempt' = [id |-> cur.id, status |-> "cleanup-failed"]
    BY <1>1, <1>2, <1>4, <2>5, RestoreKeeps
  <2>6. QED
    BY <2>1, <2>2, <2>3, <2>4, <2>5 DEF CleanRaises
<1>5. CASE op = "uninstall"
  <2>1. Stop /\ UNCHANGED attempt
    BY <1>1, <1>5
  <2>2. QED
    BY <1>1, <1>2, <2>1, StopKeeps
<1>6. QED
  BY <1>2, <1>3, <1>4, <1>5

LEMMA LateInstallKeeps ==
    ASSUME DeployInv, op = "install", LateInInstall, failures' \in 0 .. MaxFailures,
           UNCHANGED <<profile, up, dirty, history, lastInstall, commands>>
    PROVE  DeployInv'
<1>1. /\ DeployTypeOK /\ IdsOK /\ ObjectsOK /\ AttemptOK /\ InstallOK /\ Head(todo) = todo[1]
      /\ Head(todo).do = "arm" <=> attempt.status = "prepared"
      /\ attempt \in Attempt
  BY InInstall
<1>2. onUnraid' = onUnraid /\ session' = session
  BY DEF profile
<1>3. CASE /\ Head(todo).do = "arm" /\ attempt' = [attempt EXCEPT !.status = "starting"]
           /\ op' = "clean" /\ todo' = Restoring /\ UNCHANGED <<cur, live, stray, stateJson>>
  <2>1. /\ attempt' \in Attempt /\ attempt' # Nothing /\ attempt'.id = attempt.id /\ attempt'.status = "starting"
    BY <1>1, <1>3, NothingIsNoRecord DEF Attempt
  <2>2. IdsOK' /\ ObjectsOK'
    BY <1>1, <1>2, <1>3, <2>1 DEF IdsOK, ObjectsOK, AttemptOK, Present
  <2>3. AttemptOK'
    BY <1>1, <1>3, <2>1 DEF AttemptOK, Present
  <2>4. live' \in [Objects -> Nat \cup {Nothing}] /\ stray' \subseteq Templates
    BY <1>1, <1>3 DEF DeployTypeOK
  <2>5. QED
    BY <1>1, <1>3, <2>1, <2>2, <2>3, <2>4, CleanBegins
<1>4. CASE /\ Head(todo).do = "create" /\ This \in Templates
           /\ live' = [live EXCEPT ![This] = cur.id] /\ stray' = stray \cup {This}
           /\ Clean(CleanPlan) /\ UNCHANGED stateJson
  <2>1. PICK r \in Templates : r = This
    BY <1>4
  <2>2. r \in Runtime \cup Files
    BY <1>1, <1>4, <2>1, Running DEF InstallOK, This
  <2>3. r \in Objects /\ r # Key
    BY DEF Objects, Templates, Key
  <2>4. attempt.status = "starting" /\ \A q \in up' : Present(q)
    BY <1>1, <1>4 DEF AttemptOK, ObjectsOK
  <2>5. cur' = cur /\ attempt' = attempt /\ op' = "clean" /\ todo' = CleanPlan
    BY <1>4 DEF Clean
  <2>6. \A q \in Objects : live'[q] = IF q = r THEN cur.id ELSE live[q]
    BY <1>1, <1>4, <2>1 DEF DeployTypeOK
  <2>7. IdsOK' /\ ObjectsOK' /\ AttemptOK' /\ live' \in [Objects -> Nat \cup {Nothing}]
    <3>1. live' = [live EXCEPT ![r] = cur.id]
      BY <1>4, <2>1
    <3>2. UNCHANGED <<cur, attempt, stateJson, lastInstall, profile>>
      BY <1>4, <2>5
    <3>3. QED
      BY <2>2, <2>3, <2>4, <3>1, <3>2, MadeOK
  <2>8. stray' \subseteq Templates
    BY <1>1, <1>4 DEF DeployTypeOK
  <2>9. QED
    BY <1>1, <1>4, <2>5, <2>7, <2>8, CleanBegins
<1>5. CASE Head(todo).do = "commit" /\ stateJson' = Installed /\ Clean(CleanPlan) /\ UNCHANGED <<live, stray>>
  BY <1>5, CleanFollows
<1>6. QED
  BY <1>3, <1>4, <1>5 DEF LateInInstall

LEMMA LateCleanKeeps ==
    ASSUME DeployInv, op = "clean", LateInClean, failures' \in 0 .. MaxFailures,
           UNCHANGED <<profile, dirty, history, lastInstall, commands>>
    PROVE  DeployInv'
<1>1. /\ Head(todo).do \in {"remove", "drop_key"}
      /\ Head(todo).do = "drop_key" => ~cur.keyBefore
      /\ live' = [live EXCEPT ![Head(todo).on] = Nothing] /\ up' = up \ {Head(todo).on}
      /\ todo' = Tail(todo) /\ cur' = [cur EXCEPT !.errors = TRUE]
      /\ UNCHANGED <<op, attempt, stray, stateJson>>
  BY DEF LateInClean, This
<1>2. /\ DeployTypeOK /\ ObjectsOK /\ AttemptOK
      /\ Head(todo).do = "remove" => Head(todo).on \in Served
  BY <1>1, InClean
<1>3. /\ cur' \in Local /\ cur'.id = cur.id /\ cur'.retry = cur.retry
      /\ cur'.keyBefore = cur.keyBefore /\ cur'.errors = TRUE
  BY <1>1, <1>2 DEF DeployTypeOK, Local
<1>4. /\ live \in [Objects -> Nat \cup {Nothing}] /\ up \subseteq Runtime /\ Runtime \subseteq Objects
      /\ Served \subseteq Objects /\ Key \in Objects /\ Key \notin Served
  BY <1>2 DEF DeployTypeOK, Objects, Served, Runtime, Templates, Key
<1>5. /\ live' \in [Objects -> Nat \cup {Nothing}] /\ \A q \in Objects : live'[q] \in {live[q], Nothing}
      /\ \A q \in up' : live'[q] # Nothing
      /\ cur.keyBefore => live'[Key] = live[Key]
  BY <1>1, <1>2, <1>4 DEF ObjectsOK, Present
<1>6. QED
  BY <1>1, <1>3, <1>5, CleanPops

LEMMA LateRaiseKeeps ==
    ASSUME DeployInv, RaiseLate
    PROVE  DeployInv'
<1>1. failures' \in 0 .. MaxFailures
  BY BoundsAssumption DEF DeployInv, DeployTypeOK, RaiseLate
<1>2. QED
  BY <1>1, LateInstallKeeps, LateCleanKeeps DEF RaiseLate

LEMMA KilledKeeps ==
    ASSUME DeployInv, CommandKilled
    PROVE  DeployInv'
<1>1. /\ failures < MaxFailures /\ failures' = failures + 1 /\ Stop
      /\ UNCHANGED <<profile, live, stray, up, dirty, attempt, stateJson, history, lastInstall, commands>>
  BY DEF CommandKilled
<1>2. failures' \in 0 .. MaxFailures
  BY <1>1, BoundsAssumption DEF DeployInv, DeployTypeOK
<1>3. QED
  BY <1>1, <1>2, StopKeeps

LEMMA AdoptKeeps ==
    ASSUME DeployInv, Adopt
    PROVE  DeployInv'
<1>1. /\ op = "idle" /\ commands < MaxCommands /\ commands' = commands + 1 /\ stateJson = Nothing
      /\ {"api", "proxy"} \subseteq up
      /\ stateJson' = [id |-> live["api"], status |-> "adopted", removed |-> {}]
      /\ live["api"] \notin {Nothing, 0} /\ stray' = {}
      /\ UNCHANGED <<profile, live, up, dirty, attempt, history, op, todo, cur, lastInstall, failures>>
  BY DEF Adopt, Command
<1>2. /\ NewestOK /\ DeployTypeOK /\ PlanOK /\ IdsOK /\ ObjectsOK /\ NothingOrphaned /\ CleanedIsClean
  BY DEF DeployInv
<1>3. live["api"] \in Nat /\ live["api"] = lastInstall
  BY <1>1, <1>2 DEF NewestOK, DeployTypeOK, Objects, Runtime, Served
<1>4. stateJson' \in State /\ stateJson'.id = live["api"]
  BY <1>1, <1>3 DEF State
<1>5. DeployTypeOK' /\ PlanOK'
  BY <1>1, <1>2, <1>4, BoundsAssumption DEF DeployTypeOK, PlanOK, profile
<1>6. IdsOK' /\ ObjectsOK'
  BY <1>1, <1>2, <1>3, <1>4 DEF IdsOK, ObjectsOK, Present, profile
<1>7. NothingOrphaned'
  BY <1>1, <1>2, <1>3, <1>4, NothingIsNoRecord DEF NothingOrphaned, NewestOK, Served, State
<1>8. CleanedIsClean'
  <2>1. "api" \in Objects \ stray
    BY <1>2 DEF DeployTypeOK, Objects, Runtime, Templates
  <2>2. attempt # Nothing /\ attempt.status = "cleaned" => attempt.id # lastInstall /\ attempt.id \in 1 .. lastInstall
    BY <1>2, <1>3, <2>1 DEF CleanedIsClean, IdsOK
  <2>3. \A r \in Served : live[r] \in {Nothing, 0, lastInstall}
    BY <1>2 DEF NewestOK
  <2>4. \A r \in Templates : attempt # Nothing /\ attempt.status = "cleaned" => live[r] # attempt.id
    BY <1>3, <2>2, <2>3, NothingIsNoRecord DEF Served
  <2>5. QED
    BY <1>1, <1>2, <2>4 DEF CleanedIsClean, DeployTypeOK
<1>9. NewestOK'
  BY <1>1, <1>2, <1>3, <1>4 DEF NewestOK
<1>10. QED
  BY <1>1, <1>5, <1>6, <1>7, <1>8, <1>9 DEF DeployInv

LEMMA BackupKeeps ==
    ASSUME DeployInv, RestoreBackup
    PROVE  DeployInv'
<1>1. /\ op = "idle" /\ commands < MaxCommands /\ commands' = commands + 1 /\ session
      /\ live' = [live EXCEPT ![Key] = 0] /\ dirty' = TRUE
      /\ UNCHANGED <<profile, stray, up, attempt, stateJson, history, op, todo, cur, lastInstall, failures>>
  BY DEF RestoreBackup, Command
<1>2. /\ DeployTypeOK /\ PlanOK /\ IdsOK /\ ObjectsOK /\ NothingOrphaned /\ CleanedIsClean
  BY DEF DeployInv
<1>3. /\ live' \in [Objects -> Nat \cup {Nothing}] /\ live'[Key] = 0
      /\ \A q \in Objects \ {Key} : live'[q] = live[q]
      /\ Served \subseteq Objects /\ Key \notin Served /\ up \subseteq Served /\ 0 # Nothing
  BY <1>1, <1>2, NothingIsNoRecord DEF DeployTypeOK, Objects, Served, Runtime, Templates, Key
<1>4. DeployTypeOK' /\ PlanOK'
  BY <1>1, <1>2, <1>3, BoundsAssumption DEF DeployTypeOK, PlanOK, profile
<1>5. IdsOK'
  <2>1. \A r \in Objects : live'[r] # Nothing => live'[r] <= lastInstall
    BY <1>2, <1>3 DEF IdsOK, Present, DeployTypeOK
  <2>2. QED
    BY <1>1, <1>2, <2>1 DEF IdsOK, Present
<1>6. ObjectsOK'
  BY <1>1, <1>2, <1>3 DEF ObjectsOK, Present, profile, Served
<1>7. NothingOrphaned'
  BY <1>1, <1>2, <1>3 DEF NothingOrphaned, Present, Served
<1>8. CleanedIsClean'
  BY <1>1, <1>2, <1>3 DEF CleanedIsClean, IdsOK
<1>9. NewestOK'
  BY <1>1, <1>3, NewestKept DEF DeployInv
<1>10. QED
  BY <1>1, <1>4, <1>5, <1>6, <1>7, <1>8, <1>9 DEF DeployInv

LEMMA RecreateKeeps ==
    ASSUME DeployInv, Recreate
    PROVE  DeployInv'
<1>1. /\ op = "idle" /\ commands < MaxCommands /\ commands' = commands + 1
      /\ UNCHANGED <<profile, stray, up, dirty, attempt, stateJson, history, op, todo, cur, lastInstall, failures>>
  BY DEF Recreate, Command
<1>2. PICK r \in Runtime \cup Files : ~Present(r) /\ live' = [live EXCEPT ![r] = 0]
  BY DEF Recreate
<1>3. /\ DeployTypeOK /\ PlanOK /\ IdsOK /\ ObjectsOK /\ NothingOrphaned /\ CleanedIsClean
  BY DEF DeployInv
<1>4. r \in Objects /\ r # Key /\ 0 # Nothing /\ (~onUnraid => r \notin Templates)
  BY NothingIsNoRecord DEF Files, Objects, Runtime, Templates, Key
<1>5. live' \in [Objects -> Nat \cup {Nothing}] /\ live'[r] = 0 /\ \A q \in Objects \ {r} : live'[q] = live[q]
  BY <1>2, <1>3, <1>4 DEF DeployTypeOK
<1>6. DeployTypeOK' /\ PlanOK'
  BY <1>1, <1>3, <1>5, BoundsAssumption DEF DeployTypeOK, PlanOK, profile
<1>7. IdsOK'
  <2>1. \A q \in Objects : live'[q] # Nothing => live'[q] <= lastInstall
    BY <1>3, <1>5 DEF IdsOK, Present, DeployTypeOK
  <2>2. QED
    BY <1>1, <1>3, <2>1 DEF IdsOK, Present
<1>8. ObjectsOK'
  BY <1>1, <1>3, <1>4, <1>5 DEF ObjectsOK, Present, profile, DeployTypeOK, Objects
<1>9. NothingOrphaned'
  BY <1>1, <1>3, <1>5 DEF NothingOrphaned, Objects
<1>10. CleanedIsClean'
  BY <1>1, <1>3, <1>5 DEF CleanedIsClean, IdsOK
<1>11. NewestOK'
  BY <1>1, <1>5, NewestKept DEF DeployInv, Served, Objects
<1>12. QED
  BY <1>1, <1>6, <1>7, <1>8, <1>9, <1>10, <1>11 DEF DeployInv

-----------------------------------------------------------------------------
(* Uninstall.                                                               *)

LEMMA UninstallKeeps ==
    ASSUME DeployInv, Uninstall
    PROVE  DeployInv'
<1>1. /\ op = "idle" /\ commands < MaxCommands /\ commands' = commands + 1 /\ stateJson # Nothing
      /\ stateJson.status # "uninstalled" /\ OwnershipProved
      /\ stateJson' = [stateJson EXCEPT !.status = "uninstalling"]
      /\ op' = "uninstall" /\ todo' = UninstallPlan /\ cur' = [NoLocal EXCEPT !.id = stateJson.id]
      /\ UNCHANGED <<profile, live, stray, up, dirty, attempt, history, lastInstall, failures>>
  BY DEF Uninstall, Command
<1>2. /\ DeployTypeOK /\ IdsOK /\ ObjectsOK /\ NothingOrphaned /\ CleanedIsClean
  BY DEF DeployInv
<1>3. /\ stateJson' \in State /\ stateJson' # Nothing /\ stateJson'.id = stateJson.id
      /\ stateJson'.removed = stateJson.removed /\ stateJson'.status = "uninstalling"
  BY <1>1, <1>2, NothingIsNoRecord DEF DeployTypeOK, State
<1>4. /\ UninstallPlan \in Seq(EffectRecords) /\ Chained(UninstallPlan) /\ Closed(UninstallPlan)
      /\ KeyOrder(UninstallPlan)
      /\ Effect("remove_owned", Key) \in Elements(UninstallPlan) => Key \notin stateJson.removed
      /\ \A e \in Elements(UninstallPlan) :
           /\ e.do \in {"remove_owned", "record", "finish"}
           /\ e.do # "finish" => e.on \in Objects
      /\ \A r \in Runtime \cup Files : Effect("remove_owned", r) \in Elements(UninstallPlan)
  BY <1>2, UninstallPlanOK DEF DeployTypeOK
<1>5. cur' \in Local
  BY <1>1, <1>2 DEF DeployTypeOK, State, Local, NoLocal
<1>6. todo' # << >> /\ todo' \in Seq(EffectRecords)
  BY <1>1, <1>4 DEF Closed
<1>7. DeployTypeOK'
  BY <1>1, <1>2, <1>3, <1>5, <1>6, BoundsAssumption DEF DeployTypeOK, profile
<1>8. PlanOK'
  BY <1>1, <1>4 DEF PlanOK, Closed
<1>9. IdsOK' /\ ObjectsOK'
  BY <1>1, <1>2, <1>3 DEF IdsOK, ObjectsOK, Present, profile
<1>10. NothingOrphaned' /\ CleanedIsClean'
  BY <1>1, <1>2, <1>3 DEF NothingOrphaned, CleanedIsClean, Present
<1>11. UninstallOK'
  <2>1. \A i \in DOMAIN todo' : todo'[i] \in Elements(UninstallPlan)
    BY <1>1 DEF Elements
  <2>2. \A r \in Served : live'[r] # Nothing => r \in Runtime \cup Files
    BY <1>1, <1>2 DEF ObjectsOK, Present, Served, Files, DeployTypeOK
  <2>3. \A r \in Served : live'[r] # Nothing => \E i \in DOMAIN todo' : todo'[i] = Effect("remove_owned", r)
    BY <1>1, <1>4, <2>2 DEF Elements
  <2>4. \A i \in DOMAIN todo' :
          todo'[i].do = "record" => i > 1 /\ todo'[i - 1] = Effect("remove_owned", todo'[i].on)
    BY <1>1, <1>4 DEF Chained
  <2>5. ASSUME NEW r \in Served, live'[r] # Nothing PROVE live'[r] = stateJson'.id
    <3>1. r \in Runtime \cup Files /\ Present(r) /\ live'[r] = live[r]
      BY <1>1, <2>2, <2>5 DEF Present
    <3>2. live[r] \in {Nothing, 0, lastInstall} /\ stateJson.id = lastInstall
      BY <1>1 DEF DeployInv, NewestOK
    <3>3. CASE r \in Runtime
      BY <1>1, <1>3, <3>1, <3>3 DEF OwnershipProved
    <3>4. CASE r \in Files
      BY <1>1, <1>3, <3>1, <3>2, <3>4 DEF OwnershipProved
    <3>5. QED
      BY <3>1, <3>3, <3>4
  <2>6. Has(Effect("remove_owned", Key))' => Key \notin stateJson'.removed
    BY <1>3, <1>4, <2>1 DEF Has, Effect
  <2>7. KeyOrder(todo')
    BY <1>1, <1>4
  <2>8. QED
    BY <1>3, <1>4, <2>1, <2>3, <2>4, <2>5, <2>6, <2>7 DEF UninstallOK, Has, Present, Effect
<1>12. NewestOK'
  BY <1>1, <1>3, NewestKept DEF DeployInv
<1>13. QED
  BY <1>1, <1>7, <1>8, <1>9, <1>10, <1>11, <1>12 DEF DeployInv

LEMMA InUninstall ==
    ASSUME DeployInv, op = "uninstall"
    PROVE  /\ DeployTypeOK /\ IdsOK /\ ObjectsOK /\ NothingOrphaned /\ CleanedIsClean /\ UninstallOK
           /\ Head(todo) = todo[1] /\ 1 \in DOMAIN todo
           /\ Head(todo).do \in {"remove_owned", "record", "finish"}
           /\ Head(todo).do # "finish" => Head(todo).on \in Objects /\ Head(todo).do \notin Ends
           /\ Head(todo).do = "record" => ~Present(Head(todo).on)
<1>1. /\ DeployTypeOK /\ IdsOK /\ ObjectsOK /\ NothingOrphaned /\ CleanedIsClean /\ UninstallOK
  BY DEF DeployInv
<1>2. Head(todo) = todo[1] /\ 1 \in DOMAIN todo /\ ~(1 > 1)
  BY Running
<1>3. QED
  BY <1>1, <1>2 DEF UninstallOK, Ends

LEMMA UninstallPops ==
    ASSUME DeployInv, op = "uninstall", Head(todo).do # "finish", Pop, profile' = profile,
           DeployTypeOK', IdsOK', ObjectsOK', NothingOrphaned', CleanedIsClean', NewestOK',
           stateJson' # Nothing, stateJson'.status = "uninstalling", stateJson'.id = stateJson.id,
           stateJson'.removed \in {stateJson.removed, stateJson.removed \cup {Head(todo).on}},
           Key \in stateJson'.removed \ stateJson.removed => Head(todo) = Effect("record", Key),
           \A r \in Objects : live'[r] \in {live[r], Nothing},
           Head(todo).do = "remove_owned" => live'[Head(todo).on] = Nothing
    PROVE  DeployInv'
<1>1. UninstallOK /\ Head(todo) = todo[1] /\ Head(todo).do \notin Ends
  BY InUninstall
<1>2. /\ todo' \in Seq(EffectRecords) /\ op' = op /\ 1 \in DOMAIN todo
      /\ \A i \in DOMAIN todo' : i \in Nat /\ i > 0 /\ i + 1 \in DOMAIN todo /\ todo'[i] = todo[i + 1]
      /\ PlanOK'
      /\ \A e : Has(e) /\ e # todo[1] => Has(e)'
  BY <1>1, PopOK DEF Pop
<1>3. ASSUME NEW r \in Served, live'[r] # Nothing
      PROVE  live'[r] = stateJson'.id /\ Has(Effect("remove_owned", r))'
  <2>1. Present(r) /\ live'[r] = live[r] /\ todo[1] # Effect("remove_owned", r)
    BY <1>1, <1>3 DEF Present, Served, Objects, Effect
  <2>2. QED
    BY <1>1, <1>2, <2>1 DEF UninstallOK
<1>4. ASSUME NEW i \in DOMAIN todo'
      PROVE  /\ todo'[i].do \in {"remove_owned", "record", "finish"}
             /\ todo'[i].do # "finish" => todo'[i].on \in Objects
             /\ todo'[i].do = "record" =>
                  live'[todo'[i].on] = Nothing \/ (i > 1 /\ todo'[i - 1] = Effect("remove_owned", todo'[i].on))
  <2>1. i \in Nat /\ i > 0 /\ i + 1 \in DOMAIN todo /\ todo'[i] = todo[i + 1]
    BY <1>2
  <2>2. /\ todo[i + 1].do \in {"remove_owned", "record", "finish"}
        /\ todo[i + 1].do # "finish" => todo[i + 1].on \in Objects
        /\ todo[i + 1].do = "record" =>
             ~Present(todo[i + 1].on)
             \/ (i + 1 > 1 /\ todo[(i + 1) - 1] = Effect("remove_owned", todo[i + 1].on))
    BY <1>1, <2>1 DEF UninstallOK
  <2>3. ASSUME todo'[i].do = "record"
        PROVE  live'[todo'[i].on] = Nothing \/ (i > 1 /\ todo'[i - 1] = Effect("remove_owned", todo'[i].on))
    <3>1. todo'[i].on \in Objects
      BY <2>1, <2>2, <2>3
    <3>2. CASE ~Present(todo[i + 1].on)
      BY <2>1, <3>1, <3>2 DEF Present
    <3>3. CASE todo[(i + 1) - 1] = Effect("remove_owned", todo[i + 1].on)
      <4>1. todo[i] = Effect("remove_owned", todo'[i].on)
        BY <2>1, <3>3
      <4>2. CASE i = 1
        BY <1>1, <4>1, <4>2 DEF Effect
      <4>3. CASE i > 1
        <5>1. PICK k \in Nat : k = i - 1 /\ k > 0
          BY <2>1, <4>3
        <5>2. k \in DOMAIN todo'
          BY <1>2, <2>1, <4>3, <5>1
        <5>3. todo'[k] = todo[k + 1] /\ k + 1 = i
          BY <1>2, <5>1, <5>2
        <5>4. QED
          BY <4>1, <4>3, <5>1, <5>3
      <4>4. QED
        BY <2>1, <4>2, <4>3
    <3>4. QED
      BY <2>1, <2>2, <2>3, <3>2, <3>3
  <2>4. QED
    BY <2>1, <2>2, <2>3
<1>5. KeyOrder(todo')
  BY <1>1, <1>2 DEF UninstallOK, KeyOrder
<1>6. ASSUME Has(Effect("remove_owned", Key))'
      PROVE  Key \notin stateJson'.removed
  <2>1. PICK i \in DOMAIN todo' : todo'[i] = Effect("remove_owned", Key)
    BY <1>6 DEF Has
  <2>2. i + 1 \in DOMAIN todo /\ todo[i + 1] = Effect("remove_owned", Key) /\ ~(i + 1 < 1)
    BY <1>2, <2>1
  <2>3. Key \notin stateJson.removed
    BY <1>1, <2>2 DEF UninstallOK, Has
  <2>4. todo[1] # Effect("record", Key)
    BY <1>1, <1>2, <2>2 DEF UninstallOK, KeyOrder
  <2>5. QED
    BY <1>1, <2>3, <2>4
<1>7. UninstallOK'
  BY <1>3, <1>4, <1>5, <1>6 DEF UninstallOK, Present
<1>8. QED
  BY <1>2, <1>7 DEF DeployInv

LEMMA RemoveOwnedKeeps ==
    ASSUME DeployInv, RemoveOwned
    PROVE  DeployInv'
<1>1. /\ op = "uninstall" /\ Head(todo).do = "remove_owned" /\ Pop
      /\ live' = [live EXCEPT ![Head(todo).on] = Nothing] /\ up' = up \ {Head(todo).on}
      /\ UNCHANGED <<profile, counters, stray, dirty, attempt, stateJson, history>>
  BY DEF RemoveOwned, At, This
<1>2. /\ DeployTypeOK /\ IdsOK /\ ObjectsOK /\ NothingOrphaned /\ CleanedIsClean /\ UninstallOK
      /\ Head(todo).on \in Objects /\ Head(todo).do \notin Ends
  BY <1>1, InUninstall
<1>3. PICK r \in Objects : r = Head(todo).on
  BY <1>2
<1>4. /\ live' \in [Objects -> Nat \cup {Nothing}] /\ live'[r] = Nothing
      /\ \A q \in Objects \ {r} : live'[q] = live[q]
      /\ up' = up \ {r} /\ up \subseteq Runtime /\ Runtime \subseteq Objects
  BY <1>1, <1>2, <1>3 DEF DeployTypeOK, Objects
<1>5. DeployTypeOK'
  BY <1>1, <1>2, <1>4, RunningType DEF DeployTypeOK
<1>6. lastInstall' = lastInstall /\ onUnraid' = onUnraid /\ session' = session
  BY <1>1 DEF profile, counters
<1>7. \A q \in Objects : live'[q] \in {live[q], Nothing}
  BY <1>4
<1>8. IdsOK' /\ ObjectsOK'
  BY <1>1, <1>2, <1>4, <1>6, <1>7 DEF IdsOK, ObjectsOK, Present, Objects
<1>9. NothingOrphaned'
  <2>1. \A q \in Served : live'[q] # Nothing => live'[q] = live[q]
    BY <1>7 DEF Served, Objects
  <2>2. QED
    BY <1>1, <1>2, <2>1 DEF NothingOrphaned, Present, Served
<1>10. CleanedIsClean'
  BY <1>1, <1>2, <1>7, NothingIsNoRecord DEF CleanedIsClean, DeployTypeOK, Attempt
<1>11. stateJson' # Nothing /\ stateJson'.status = "uninstalling"
  BY <1>1, <1>2 DEF UninstallOK
<1>12. NewestOK'
  BY <1>1, <1>6, <1>7, NewestKept DEF DeployInv, Served, Objects
<1>13. QED
  BY <1>1, <1>3, <1>4, <1>5, <1>7, <1>8, <1>9, <1>10, <1>11, <1>12, UninstallPops

LEMMA RecordKeeps ==
    ASSUME DeployInv, Record
    PROVE  DeployInv'
<1>1. /\ op = "uninstall" /\ Head(todo).do = "record" /\ Pop
      /\ stateJson' = [stateJson EXCEPT !.removed = @ \cup {Head(todo).on}]
      /\ UNCHANGED <<profile, counters, live, stray, up, dirty, attempt, history>>
  BY DEF Record, At, This
<1>2. /\ DeployTypeOK /\ IdsOK /\ ObjectsOK /\ NothingOrphaned /\ CleanedIsClean /\ UninstallOK
      /\ Head(todo).on \in Objects /\ ~Present(Head(todo).on) /\ Head(todo).do \notin Ends
  BY <1>1, InUninstall
<1>3. /\ stateJson' \in State /\ stateJson' # Nothing /\ stateJson'.id = stateJson.id
      /\ stateJson'.status = "uninstalling" /\ stateJson # Nothing /\ stateJson.status = "uninstalling"
      /\ stateJson'.removed = stateJson.removed \cup {Head(todo).on}
  BY <1>1, <1>2, NothingIsNoRecord DEF UninstallOK, DeployTypeOK, State
<1>4. DeployTypeOK'
  BY <1>1, <1>2, <1>3, RunningType DEF DeployTypeOK
<1>5. lastInstall' = lastInstall /\ onUnraid' = onUnraid /\ session' = session
  BY <1>1 DEF profile, counters
<1>6. IdsOK' /\ ObjectsOK'
  BY <1>1, <1>2, <1>3, <1>5 DEF IdsOK, ObjectsOK, Present
<1>7. NothingOrphaned' /\ CleanedIsClean'
  BY <1>1, <1>2, <1>3 DEF NothingOrphaned, CleanedIsClean, Present
<1>8. \A q \in Objects : live'[q] \in {live[q], Nothing}
  BY <1>1
<1>9. NewestOK'
  BY <1>1, <1>3, <1>5, NewestKept DEF DeployInv
<1>10. Key \in stateJson'.removed \ stateJson.removed => Head(todo) = Effect("record", Key)
  BY <1>1, <1>3, Running DEF EffectRecords, Effect
<1>11. QED
  BY <1>1, <1>3, <1>4, <1>6, <1>7, <1>8, <1>9, <1>10, UninstallPops

LEMMA FinishKeeps ==
    ASSUME DeployInv, Finish
    PROVE  DeployInv'
<1>1. /\ op = "uninstall" /\ Head(todo).do = "finish" /\ Stop
      /\ stateJson' = [stateJson EXCEPT !.status = "uninstalled"]
      /\ UNCHANGED <<profile, counters, live, stray, up, dirty, attempt, history>>
  BY DEF Finish, At
<1>2. /\ DeployTypeOK /\ IdsOK /\ ObjectsOK /\ NothingOrphaned /\ CleanedIsClean /\ UninstallOK
      /\ Head(todo) = todo[1] /\ 1 \in DOMAIN todo
  BY <1>1, InUninstall
<1>3. stateJson' \in State /\ stateJson'.id = stateJson.id /\ stateJson # Nothing
  BY <1>1, <1>2 DEF UninstallOK, DeployTypeOK, State
<1>4. DeployTypeOK' /\ op' = "idle" /\ todo' = << >>
  BY <1>1, <1>2, <1>3, StoppedType DEF DeployTypeOK, counters
<1>5. IdsOK' /\ ObjectsOK'
  BY <1>1, <1>2, <1>3 DEF IdsOK, ObjectsOK, Present, profile, counters
<1>6. \A r \in Served : live[r] = Nothing
  <2>1. todo \in Seq(EffectRecords) /\ todo # << >> /\ todo[1].do \in Ends
    BY <1>1, <1>2, Running DEF Ends
  <2>2. Len(todo) = 1
    BY <1>2, <2>1 DEF DeployInv, PlanOK
  <2>3. \A i \in DOMAIN todo : i = 1
    BY <2>1, <2>2, PoppedList
  <2>4. \A r : ~Has(Effect("remove_owned", r))
    BY <1>1, <1>2, <2>3 DEF Has, Effect
  <2>5. QED
    BY <1>2, <2>4 DEF UninstallOK, Present
<1>7. NothingOrphaned' /\ CleanedIsClean'
  BY <1>1, <1>2, <1>6 DEF NothingOrphaned, CleanedIsClean, Present, Served
<1>8. NewestOK'
  <2>1. stateJson'.status = "uninstalled" /\ lastInstall' = lastInstall
    BY <1>1, <1>2 DEF UninstallOK, DeployTypeOK, State, counters
  <2>2. QED
    BY <1>1, <2>1, NewestKept DEF DeployInv
<1>9. QED
  BY <1>4, <1>5, <1>7, <1>8, IdleOK

-----------------------------------------------------------------------------
(* Every step, and the theorems.                                            *)

LEMMA DeployNextOK ==
    ASSUME DeployInv, [DeployNext]_deployVars
    PROVE  DeployInv'
<1>1. CASE Install
  BY <1>1, InstallKeeps
<1>2. CASE Adopt
  BY <1>2, AdoptKeeps
<1>3. CASE Uninstall
  BY <1>3, UninstallKeeps
<1>4. CASE RestoreBackup \/ Recreate
  BY <1>4, BackupKeeps, RecreateKeeps
<1>5. CASE DeployStep
  <2>1. CASE Arm \/ CreateObject \/ Start \/ Archive \/ Commit \/ Drop
    BY <2>1, ArmKeeps, CreateKeeps, StartKeeps, ArchiveKeeps, CommitKeeps, DropKeeps
  <2>2. CASE Restore
    <3>1. /\ op = "clean" /\ Head(todo).do = "restore" /\ Stop /\ attempt' = cur.retry
          /\ UNCHANGED <<profile, live, stray, up, dirty, stateJson, history, lastInstall, commands, failures>>
      BY <2>2 DEF Restore, At, counters
    <3>2. failures' \in 0 .. MaxFailures
      BY <3>1 DEF DeployInv, DeployTypeOK
    <3>3. QED
      BY <3>1, <3>2, RestoreKeeps
  <2>3. CASE RemoveNew \/ DropKey \/ Close
    BY <2>3, RemoveKeeps, DropKeyKeeps, CloseKeeps
  <2>4. CASE KeyMissing
    <3>1. /\ Stop
          /\ UNCHANGED <<profile, live, stray, up, dirty, attempt, stateJson, history, lastInstall, commands, failures>>
      BY <2>4 DEF KeyMissing, counters
    <3>2. failures' \in 0 .. MaxFailures
      BY <3>1 DEF DeployInv, DeployTypeOK
    <3>3. QED
      BY <3>1, <3>2, StopKeeps
  <2>5. CASE RemoveOwned \/ Record \/ Finish
    BY <2>5, RemoveOwnedKeeps, RecordKeeps, FinishKeeps
  <2>6. QED
    BY <1>5, <2>1, <2>2, <2>3, <2>4, <2>5 DEF DeployStep
<1>6. CASE CommandRaises \/ RaiseLate \/ CommandKilled
  BY <1>6, RaisesKeeps, LateRaiseKeeps, KilledKeeps
<1>7. CASE UNCHANGED deployVars
  BY <1>7 DEF deployVars, profile, counters, DeployInv, DeployTypeOK, PlanOK, IdsOK, ObjectsOK, AttemptOK,
              InstallOK, CleanOK, UninstallOK, KeyOrder, NewestOK, NothingOrphaned, CleanedIsClean, Present, Has, Files, Installed
<1>8. QED
  BY <1>1, <1>2, <1>3, <1>4, <1>5, <1>6, <1>7 DEF DeployNext

\* The invariant above holds: at every instant what is in Docker, the attempt
\* and the state are what the running command's remaining effects account for.
THEOREM DeployInvariant == DeploySpec => []DeployInv
<1>1. DeployInit => DeployInv
  BY DeployInitOK
<1>2. DeployInv /\ [DeployNext]_deployVars => DeployInv'
  BY DeployNextOK
<1>3. QED
  BY <1>1, <1>2, PTL DEF DeploySpec

\* Every variable of the deployment stays in its type: in particular every
\* attempt and state that is written has a status its store accepts.
THEOREM DeployTypeCorrect == DeploySpec => []DeployTypeOK
<1>1. DeployInv => DeployTypeOK
  BY DEF DeployInv
<1>2. QED
  BY <1>1, DeployInvariant, PTL

\* Wherever install, its cleanup, adopt or uninstall is killed or fails, every
\* container, network and template is named by evidence on disk:
\* install-attempt.json or state.json carries its install id.  The one exception
\* is a template whose write raised after its rename: copied_templates does not
\* name it, and the theorem says nothing of it.
THEOREM NothingIsOrphaned == DeploySpec => []NothingOrphaned
<1>1. DeployInv => NothingOrphaned
  BY DEF DeployInv
<1>2. QED
  BY <1>1, DeployInvariant, PTL

\* The status "cleaned", which lets the next install go on, is never written
\* while an object of the attempt is left, but for a template whose write raised
\* after its rename: the cleanup of a failed install skips nothing else without
\* noting an error, the effects that raise after they were made included.
THEOREM CleanedAttemptsAreClean == DeploySpec => []CleanedIsClean
<1>1. DeployInv => CleanedIsClean
  BY DEF DeployInv
<1>2. QED
  BY <1>1, DeployInvariant, PTL

\* The step of OnlyOwnRemoved.
OwnOnly == \A r \in Objects : Present(r) /\ live'[r] = Nothing =>
              \/ /\ op = "uninstall"
                 /\ live[r] = stateJson.id \/ (r = Key /\ Key \notin stateJson.removed)
              \/ op = "clean" /\ live[r] = cur.id

LEMMA RemovalOK ==
    ASSUME DeployInv, [DeployNext]_deployVars
    PROVE  OwnOnly
<1>1. DeployTypeOK
  BY DEF DeployInv
<1>2. CASE UNCHANGED live
  BY <1>2 DEF OwnOnly, Present
<1>3. CASE RemoveOwned
  <2>1. /\ op = "uninstall" /\ Head(todo).do = "remove_owned"
        /\ live' = [live EXCEPT ![Head(todo).on] = Nothing]
    BY <1>3 DEF RemoveOwned, At, This
  <2>2. /\ UninstallOK /\ Head(todo) = todo[1] /\ 1 \in DOMAIN todo /\ todo[1] \in EffectRecords
    BY <2>1, InUninstall, Running
  <2>3. ASSUME NEW r \in Objects, Present(r), live'[r] = Nothing
        PROVE  live[r] = stateJson.id \/ (r = Key /\ Key \notin stateJson.removed)
    <3>1. Head(todo).on = r
      BY <1>1, <2>1, <2>3 DEF Present, DeployTypeOK
    <3>2. todo[1] = Effect("remove_owned", r)
      BY <2>1, <2>2, <3>1 DEF EffectRecords, Effect
    <3>3. CASE r \in Served
      BY <2>2, <2>3, <3>3 DEF UninstallOK
    <3>4. CASE r = Key
      BY <2>2, <3>2, <3>4 DEF UninstallOK, Has
    <3>5. QED
      BY <3>3, <3>4 DEF Objects, Served
  <2>4. QED
    BY <2>1, <2>3 DEF OwnOnly
<1>4. CASE RemoveNew
  BY <1>1, <1>4 DEF RemoveNew, At, OwnOnly, Present, DeployTypeOK
<1>5. CASE DropKey
  <2>1. op = "clean" /\ AttemptOK
    BY <1>5, InClean DEF DropKey, At
  <2>2. CASE live' = [live EXCEPT ![Key] = Nothing] /\ ~cur.keyBefore
    BY <1>1, <2>1, <2>2 DEF OwnOnly, Present, AttemptOK, DeployTypeOK
  <2>3. QED
    BY <1>2, <1>5, <2>2 DEF DropKey
<1>6. ASSUME NEW r \in Objects, NEW i \in Nat, live' = [live EXCEPT ![r] = i]
      PROVE  OwnOnly
  BY <1>1, <1>6, NothingIsNoRecord DEF OwnOnly, Present, DeployTypeOK
<1>7. Key \in Objects
  BY DEF Objects
<1>8. CASE CreateObject
  <2>1. op = "install" /\ cur.id \in Nat
    BY <1>8, InInstall DEF CreateObject, At
  <2>2. Head(todo).on \in Objects \/ Head(todo).on \notin DOMAIN live
    BY <1>1 DEF DeployTypeOK
  <2>3. QED
    BY <1>1, <1>8, <2>1, <2>2, NothingIsNoRecord DEF CreateObject, This, OwnOnly, Present, DeployTypeOK
<1>9. CASE Start
  <2>1. op = "install" /\ cur.id \in Nat
    BY <1>9, InInstall DEF Start, At
  <2>2. QED
    BY <1>2, <1>6, <1>7, <1>9, <2>1 DEF Start
<1>10. CASE RestoreBackup
  BY <1>6, <1>7, <1>10 DEF RestoreBackup
<1>11. CASE Recreate
  <2>1. Runtime \cup Files \subseteq Objects
    BY DEF Files, Objects
  <2>2. QED
    BY <1>6, <1>11, <2>1 DEF Recreate
<1>12. CASE RaiseLate
  <2>1. CASE op = "install" /\ LateInInstall
    <3>1. cur.id \in Nat
      BY <2>1, InInstall
    <3>2. Templates \subseteq Objects
      BY DEF Objects
    <3>3. QED
      BY <1>2, <1>6, <2>1, <3>1, <3>2 DEF LateInInstall
  <2>2. CASE op = "clean" /\ LateInClean
    <3>1. AttemptOK /\ Head(todo) = todo[1] /\ todo[1] \in EffectRecords
      BY <2>2, InClean, Running
    <3>2. live' = [live EXCEPT ![Head(todo).on] = Nothing]
      BY <2>2 DEF LateInClean, This
    <3>3. CASE Head(todo).do = "remove" /\ live[Head(todo).on] = cur.id
      BY <1>1, <2>2, <3>2, <3>3 DEF OwnOnly, Present, DeployTypeOK
    <3>4. CASE Head(todo).do = "drop_key" /\ ~cur.keyBefore
      <4>1. Head(todo).on = Key
        BY <2>2, <3>4, InClean
      <4>2. QED
        BY <1>1, <2>2, <3>1, <3>2, <4>1, <3>4 DEF OwnOnly, Present, AttemptOK, DeployTypeOK
    <3>5. QED
      BY <2>2, <3>3, <3>4 DEF LateInClean, This
  <2>3. QED
    BY <1>12, <2>1, <2>2 DEF RaiseLate
<1>13. QED
  BY <1>2, <1>3, <1>4, <1>5, <1>8, <1>9, <1>10, <1>11, <1>12
     DEF DeployNext, DeployStep, Install, Adopt, Uninstall, Arm, Archive, Commit, Drop, Restore, Close,
         KeyMissing, Record, Finish, CommandRaises, CommandKilled, deployVars

\* An install that fails removes only what carries its own id, and an uninstall
\* only what carries the id of its state: a container, network or template that
\* was made by hand in its place is never removed.  The session key goes with an
\* uninstall whoever made it, as long as its removal is not recorded.
THEOREM OnlyOwnIsRemoved == DeploySpec => OnlyOwnRemoved
<1>1. DeployInv /\ [DeployNext]_deployVars => [OwnOnly]_deployVars
  BY RemovalOK
<1>2. QED
  BY <1>1, DeployInvariant, PTL DEF DeploySpec, OnlyOwnRemoved, OwnOnly

-----------------------------------------------------------------------------
(* An active state describes a complete runtime, if what raises is not made.  *)

\* state.json names a runtime that is to be complete.
Claimed == stateJson # Nothing /\ stateJson.status \in {"installed", "adopted"}

\* In every plan the commit comes after all but the end, and the session key goes
\* after the API that uses it.
Follows(d, e) ==
    /\ d.do = "commit" => e.do = "drop"
    /\ d.do = "drop_key" => e.do # "remove"
    /\ d = Effect("remove_owned", Key) => e # Effect("remove_owned", "api")
Ordered(s) == \A i, j \in DOMAIN s : i < j => Follows(s[i], s[j])

\* How far install has come: what is not there yet is still to be made, and until
\* all of it is there the state claims nothing.
Growing ==
    /\ todo[1].do # "drop" => ~Claimed
    /\ \A r \in Runtime \cup Files : live[r] = cur.id \/ Has(Effect("create", r))
    /\ \A r \in {"api", "proxy"} : r \in up \/ Has(Effect("start", r))

WholeOK ==
    /\ ActiveStateIsWhole
    /\ session /\ "api" \in up => Present(Key)
    /\ Ordered(todo)
    /\ op = "install" => Growing
    /\ op = "clean" => ~Claimed

LEMMA OrderedJoin ==
    ASSUME NEW s \in Seq(EffectRecords), NEW t \in Seq(EffectRecords), Ordered(s), Ordered(t),
           \A d \in Elements(s), e \in Elements(t) : Follows(d, e)
    PROVE  /\ s \o t \in Seq(EffectRecords) /\ Ordered(s \o t)
           /\ Elements(s \o t) = Elements(s) \cup Elements(t)
<1>1. PICK p : p = s \o t
  OBVIOUS
<1>2. /\ p \in Seq(EffectRecords) /\ Len(p) = Len(s) + Len(t) /\ Len(s) \in Nat /\ Len(t) \in Nat
      /\ DOMAIN p = 1 .. Len(p) /\ DOMAIN s = 1 .. Len(s) /\ DOMAIN t = 1 .. Len(t)
      /\ \A i \in 1 .. Len(s) : p[i] = s[i]
      /\ \A i \in 1 .. Len(t) : p[Len(s) + i] = t[i]
  BY <1>1
<1>3. ASSUME NEW i \in DOMAIN p
      PROVE  \/ i <= Len(s) /\ i \in DOMAIN s /\ p[i] = s[i]
             \/ i > Len(s) /\ i - Len(s) \in DOMAIN t /\ p[i] = t[i - Len(s)]
  <2>1. CASE i <= Len(s)
    BY <1>2, <2>1
  <2>2. CASE i > Len(s)
    <3>1. PICK k \in DOMAIN t : k = i - Len(s) /\ Len(s) + k = i
      BY <1>2, <2>2
    <3>2. p[i] = t[k]
      BY <1>2, <3>1
    <3>3. QED
      BY <2>2, <3>1, <3>2
  <2>3. QED
    BY <1>2, <2>1, <2>2
<1>4. ASSUME NEW i \in DOMAIN p, NEW j \in DOMAIN p, i < j
      PROVE  Follows(p[i], p[j])
  <2>1. CASE j <= Len(s)
    BY <1>2, <1>3, <1>4, <2>1 DEF Ordered
  <2>2. CASE i <= Len(s) /\ j > Len(s)
    BY <1>2, <1>3, <2>2 DEF Elements
  <2>3. CASE i > Len(s)
    <3>1. PICK k \in DOMAIN t, l \in DOMAIN t : k = i - Len(s) /\ l = j - Len(s) /\ p[i] = t[k] /\ p[j] = t[l]
      BY <1>2, <1>3, <1>4, <2>3
    <3>2. k < l
      BY <1>2, <1>4, <3>1
    <3>3. QED
      BY <3>1, <3>2 DEF Ordered
  <2>4. QED
    BY <1>2, <2>1, <2>2, <2>3
<1>5. Elements(p) = Elements(s) \cup Elements(t)
  <2>1. Elements(p) \subseteq Elements(s) \cup Elements(t)
    BY <1>3 DEF Elements
  <2>2. Elements(s) \subseteq Elements(p)
    BY <1>2 DEF Elements
  <2>3. ASSUME NEW i \in DOMAIN t PROVE t[i] \in Elements(p)
    <3>1. Len(s) + i \in DOMAIN p /\ p[Len(s) + i] = t[i]
      BY <1>2
    <3>2. QED
      BY <3>1 DEF Elements
  <2>4. QED
    BY <2>1, <2>2, <2>3 DEF Elements
<1>6. QED
  BY <1>1, <1>2, <1>4, <1>5 DEF Ordered

\* Effects that nothing has to wait for.
Plain(s) == \A e \in Elements(s) : e.do \in {"arm", "create", "start", "archive", "remove", "record", "restore"}

LEMMA PlainOrder ==
    ASSUME NEW s \in Seq(EffectRecords), Plain(s)
    PROVE  Ordered(s) /\ \A d \in Elements(s) : \A e : Follows(d, e)
<1>1. \A d \in Elements(s) : \A e : Follows(d, e)
  BY DEF Plain, Follows, Effect
<1>2. QED
  BY <1>1 DEF Ordered, Elements

LEMMA InstallOrder ==
    ASSUME onUnraid \in BOOLEAN
    PROVE  /\ Ordered(InstallPlan)
           /\ \A r \in Runtime \cup Files : Effect("create", r) \in Elements(InstallPlan)
           /\ \A r \in {"api", "proxy"} : Effect("start", r) \in Elements(InstallPlan)
<1>1. PICK a : a = << Effect("arm", "attempt"), Effect("create", "network"),
                      Effect("create", "api"), Effect("start", "api"),
                      Effect("create", "proxy"), Effect("start", "proxy") >>
  OBVIOUS
<1>2. PICK b : b = IF onUnraid THEN << Effect("create", "api_template"), Effect("create", "proxy_template") >>
                               ELSE << >>
  OBVIOUS
<1>3. PICK c : c = IF stateJson = Nothing THEN << >> ELSE << Effect("archive", "state") >>
  OBVIOUS
<1>4. PICK d : d = << Effect("commit", "state"), Effect("drop", "attempt") >>
  OBVIOUS
<1>5. /\ a \in Seq(EffectRecords) /\ Plain(a)
      /\ Elements(a) = {Effect("arm", "attempt"), Effect("create", "network"), Effect("create", "api"),
                        Effect("start", "api"), Effect("create", "proxy"), Effect("start", "proxy")}
  BY <1>1 DEF Plain, Elements, Effect, EffectRecords, Effects, Objects, Runtime, Templates
<1>6. b \in Seq(EffectRecords) /\ Plain(b) /\ Elements(b) = {Effect("create", r) : r \in Files}
  <2>1. CASE onUnraid
    BY <1>2, <2>1 DEF Plain, Elements, Effect, EffectRecords, Effects, Objects, Templates, Files
  <2>2. CASE ~onUnraid
    BY <1>2, <2>2, NoPart DEF Plain, Files
  <2>3. QED
    BY <2>1, <2>2
<1>7. c \in Seq(EffectRecords) /\ Plain(c)
  <2>1. CASE stateJson # Nothing
    BY <1>3, <2>1 DEF Plain, Elements, Effect, EffectRecords, Effects
  <2>2. CASE stateJson = Nothing
    BY <1>3, <2>2, NoPart DEF Plain
  <2>3. QED
    BY <2>1, <2>2
<1>8. d \in Seq(EffectRecords) /\ Ordered(d)
  BY <1>4 DEF Ordered, Follows, Effect, EffectRecords, Effects
<1>9. PICK p : p = a \o b
  OBVIOUS
<1>10. PICK q : q = p \o c
  OBVIOUS
<1>11. p \in Seq(EffectRecords) /\ Elements(p) = Elements(a) \cup Elements(b) /\ Plain(p)
  BY <1>5, <1>6, <1>9, PlainOrder, OrderedJoin DEF Plain
<1>12. q \in Seq(EffectRecords) /\ Elements(q) = Elements(p) \cup Elements(c) /\ Plain(q)
  BY <1>7, <1>10, <1>11, PlainOrder, OrderedJoin DEF Plain
<1>13. InstallPlan = q \o d
  BY <1>1, <1>2, <1>3, <1>4, <1>9, <1>10 DEF InstallPlan
<1>14. Ordered(InstallPlan) /\ Elements(q) \subseteq Elements(InstallPlan)
  BY <1>8, <1>12, <1>13, PlainOrder, OrderedJoin
<1>15. QED
  BY <1>5, <1>6, <1>11, <1>12, <1>14 DEF Runtime

LEMMA CleanOrder ==
    ASSUME onUnraid \in BOOLEAN
    PROVE  Ordered(CleanPlan) /\ Ordered(Restoring)
<1>1. PICK a : a = IF onUnraid
                     THEN << Effect("remove", "proxy_template"), Effect("remove", "api_template") >>
                     ELSE << >>
  OBVIOUS
<1>2. PICK b : b = << Effect("remove", "proxy"), Effect("remove", "api"), Effect("remove", "network"),
                      Effect("drop_key", Key), Effect("close", "attempt") >>
  OBVIOUS
<1>3. a \in Seq(EffectRecords) /\ Plain(a)
  <2>1. CASE onUnraid
    BY <1>1, <2>1 DEF Plain, Elements, Effect, EffectRecords, Effects, Objects, Templates
  <2>2. CASE ~onUnraid
    BY <1>1, <2>2, NoPart DEF Plain
  <2>3. QED
    BY <2>1, <2>2
<1>4. b \in Seq(EffectRecords) /\ Ordered(b)
  BY <1>2 DEF Ordered, Follows, Effect, EffectRecords, Effects, Objects, Runtime, Key
<1>5. Ordered(CleanPlan)
  BY <1>1, <1>2, <1>3, <1>4, PlainOrder, OrderedJoin DEF CleanPlan
<1>6. Restoring \in Seq(EffectRecords) /\ Plain(Restoring)
  BY DEF Restoring, Plain, Elements, Effect, EffectRecords, Effects
<1>7. QED
  BY <1>5, <1>6, PlainOrder

LEMMA UninstallOrder ==
    ASSUME onUnraid \in BOOLEAN
    PROVE  Ordered(UninstallPlan)
<1> DEFINE Part(s) == s \in Seq(EffectRecords) /\ Ordered(s)
                      /\ \A e \in Elements(s) : e.do \in {"remove_owned", "record", "finish"}
           Rest(s) == Part(s) /\ Effect("remove_owned", "api") \notin Elements(s)
<1>1. ASSUME NEW s, NEW t, Part(s), Rest(t)
      PROVE  Part(s \o t) /\ (Rest(s) => Rest(s \o t))
  <2>1. \A d \in Elements(s), e \in Elements(t) : Follows(d, e)
    BY <1>1 DEF Follows
  <2>2. QED
    BY <1>1, <2>1, OrderedJoin
<1>2. ASSUME NEW r \in Objects PROVE Part(Both(r)) /\ (r # "api" => Rest(Both(r)))
  <2>1. /\ Both(r) \in Seq(EffectRecords)
        /\ Elements(Both(r)) = {Effect("remove_owned", r), Effect("record", r)}
    BY BothOK
  <2>2. Ordered(Both(r))
    BY DEF Both, Ordered, Follows, Effect
  <2>3. QED
    BY <2>1, <2>2 DEF Effect
<1>3. Rest(<< >>)
  BY NoPart DEF Ordered
<1>4. Rest(<< Effect("finish", "state") >>)
  BY DEF Ordered, Elements, Effect, EffectRecords, Effects
<1>5. {"proxy", "api", "network", Key, "api_template", "proxy_template"} \subseteq Objects
  BY DEF Objects, Runtime, Templates
<1>6. Part(Both("proxy") \o Both("api"))
  <2>1. \A d \in Elements(Both("proxy")) : \A e : Follows(d, e)
    <3>1. Elements(Both("proxy")) = {Effect("remove_owned", "proxy"), Effect("record", "proxy")}
      BY <1>5, BothOK
    <3>2. QED
      BY <3>1 DEF Follows, Effect, Key
  <2>2. Both("proxy") \in Seq(EffectRecords) /\ Both("api") \in Seq(EffectRecords)
        /\ Ordered(Both("proxy")) /\ Ordered(Both("api"))
    BY <1>2, <1>5
  <2>3. QED
    BY <1>2, <1>5, <2>1, <2>2, OrderedJoin
<1> HIDE DEF Part, Rest
<1>7. PICK k : k = IF session /\ Key \notin stateJson.removed THEN Both(Key) ELSE << >>
  OBVIOUS
<1>8. PICK f : f = IF onUnraid THEN Both("api_template") \o Both("proxy_template") ELSE << >>
  OBVIOUS
<1>9. Rest(k)
  BY <1>2, <1>3, <1>5, <1>7 DEF Key
<1>10. Rest(f)
  <2>1. Part(Both("api_template")) /\ Rest(Both("api_template")) /\ Rest(Both("proxy_template"))
    BY <1>2, <1>5
  <2>2. QED
    BY <1>1, <1>3, <1>8, <2>1
<1>11. Rest(Both("network"))
  BY <1>2, <1>5
<1>12. Part(((((Both("proxy") \o Both("api")) \o k) \o Both("network")) \o f) \o << Effect("finish", "state") >>)
  BY <1>1, <1>4, <1>6, <1>9, <1>10, <1>11
<1>13. QED
  BY <1>7, <1>8, <1>12 DEF UninstallPlan, Part

LEMMA OrderedTail ==
    ASSUME DeployInv, op # "idle", Ordered(todo), todo' = Tail(todo)
    PROVE  /\ Ordered(todo') /\ Head(todo) = todo[1]
           /\ \A e : Has(e) => e = todo[1] \/ Follows(todo[1], e)
           /\ \A e : Has(e) => e = todo[1] \/ Has(e)'
<1>1. todo \in Seq(EffectRecords) /\ todo # << >>
  BY Running
<1>2. /\ Len(todo) \in Nat \ {0} /\ Head(todo) = todo[1] /\ DOMAIN todo = 1 .. Len(todo)
      /\ DOMAIN todo' = 1 .. Len(todo) - 1
      /\ \A i \in 1 .. Len(todo) - 1 : todo'[i] = todo[i + 1]
  BY <1>1, PoppedList
<1>3. ASSUME NEW i \in DOMAIN todo', NEW j \in DOMAIN todo', i < j
      PROVE  Follows(todo'[i], todo'[j])
  <2>1. i + 1 \in DOMAIN todo /\ j + 1 \in DOMAIN todo /\ i + 1 < j + 1
    BY <1>2, <1>3
  <2>2. todo'[i] = todo[i + 1] /\ todo'[j] = todo[j + 1]
    BY <1>2
  <2>3. QED
    BY <2>1, <2>2 DEF Ordered
<1>4. ASSUME NEW e, Has(e), e # todo[1]
      PROVE  Follows(todo[1], e) /\ Has(e)'
  <2>1. PICK i \in DOMAIN todo : todo[i] = e
    BY <1>4 DEF Has
  <2>2. 1 \in DOMAIN todo /\ 1 < i /\ i - 1 \in DOMAIN todo' /\ todo'[i - 1] = e
    BY <1>2, <1>4, <2>1
  <2>3. Has(e)'
    BY <2>2 DEF Has
  <2>4. QED
    BY <2>1, <2>2, <2>3 DEF Ordered
<1>5. QED
  BY <1>2, <1>3, <1>4 DEF Ordered

\* What a step may not touch for the claim to stay true.
LEMMA ClaimStands ==
    ASSUME ActiveStateIsWhole, profile' = profile, stateJson' = stateJson, up' = up,
           \A r \in Runtime \cup Files : live'[r] = live[r], Present(Key) => Present(Key)'
    PROVE  ActiveStateIsWhole'
<1>1. Files' = Files /\ session' = session
  BY DEF Files, profile
<1>2. QED
  BY <1>1 DEF ActiveStateIsWhole

\* A step after which no command runs.
LEMMA EndKeepsWhole ==
    ASSUME DeployInv, WholeOK, op' = "idle", todo' = << >>, UNCHANGED <<profile, live, up>>,
           stateJson' = stateJson \/ ~Claimed'
    PROVE  WholeOK'
<1>1. ActiveStateIsWhole'
  BY ClaimStands DEF WholeOK, Claimed, ActiveStateIsWhole, Present
<1>2. QED
  BY <1>1 DEF WholeOK, Ordered, Present, profile

\* A step of install before its commit.
LEMMA GrowthKeeps ==
    ASSUME DeployInv, WholeOK, op = "install", Pop, Head(todo).do \notin {"commit", "drop"},
           profile' = profile, stateJson' = stateJson, up \subseteq up',
           \A r \in Runtime \cup Files : live[r] = cur.id => live'[r] = cur.id,
           Head(todo).do = "create" => live'[Head(todo).on] = cur.id,
           Head(todo).do = "start" => Head(todo).on \in up',
           session /\ "api" \in up' => Present(Key)'
    PROVE  WholeOK'
<1>1. /\ Ordered(todo') /\ Head(todo) = todo[1] /\ op' = op /\ cur' = cur
      /\ \A e : Has(e) => e = todo[1] \/ Has(e)'
  BY OrderedTail DEF Pop, WholeOK
<1>2. ~Claimed /\ ~Claimed'
  BY <1>1 DEF WholeOK, Growing, Claimed
<1>3. Files' = Files /\ session' = session
  BY DEF Files, profile
<1>4. ASSUME NEW r \in Runtime \cup Files
      PROVE  live'[r] = cur'.id \/ Has(Effect("create", r))'
  BY <1>1 DEF WholeOK, Growing, Effect
<1>5. ASSUME NEW r \in {"api", "proxy"}
      PROVE  r \in up' \/ Has(Effect("start", r))'
  BY <1>1 DEF WholeOK, Growing, Effect
<1>6. Growing'
  BY <1>2, <1>3, <1>4, <1>5 DEF Growing, Effect
<1>7. ActiveStateIsWhole'
  BY <1>2 DEF ActiveStateIsWhole, Claimed
<1>8. QED
  BY <1>1, <1>2, <1>3, <1>6, <1>7 DEF WholeOK

LEMMA InstallWhole == ASSUME DeployInv, WholeOK, Install PROVE WholeOK'
<1>1. /\ op' = "install" /\ todo' = InstallPlan /\ Preflight
      /\ UNCHANGED <<onUnraid, session, live, up, stateJson>>
  BY DEF Install, profile
<1>2. /\ Ordered(InstallPlan)
      /\ \A r \in Runtime \cup Files : Effect("create", r) \in Elements(InstallPlan)
      /\ \A r \in {"api", "proxy"} : Effect("start", r) \in Elements(InstallPlan)
  BY InstallOrder DEF DeployInv, DeployTypeOK
<1>3. ~Claimed /\ ~Claimed' /\ Files' = Files
  BY <1>1 DEF Preflight, Claimed, Files
<1>4. \A e \in Elements(InstallPlan) : Has(e)'
  BY <1>1 DEF Has, Elements
<1>5. Growing'
  BY <1>2, <1>3, <1>4 DEF Growing, Effect
<1>6. ActiveStateIsWhole'
  BY <1>3 DEF ActiveStateIsWhole, Claimed
<1>7. QED
  BY <1>1, <1>2, <1>3, <1>5, <1>6 DEF WholeOK, Present

LEMMA ArmArchiveWhole == ASSUME DeployInv, WholeOK, Arm \/ Archive PROVE WholeOK'
<1>1. /\ op = "install" /\ Pop /\ Head(todo).do \in {"arm", "archive"}
      /\ UNCHANGED <<profile, live, up, stateJson>>
  BY DEF Arm, Archive, At
<1>2. session /\ "api" \in up' => Present(Key)'
  BY <1>1 DEF WholeOK, Present
<1>3. QED
  BY <1>1, <1>2, GrowthKeeps

LEMMA CreateWhole == ASSUME DeployInv, WholeOK, CreateObject PROVE WholeOK'
<1>1. /\ op = "install" /\ Pop /\ Head(todo).do = "create"
      /\ live' = [live EXCEPT ![Head(todo).on] = cur.id]
      /\ UNCHANGED <<profile, up, stateJson>>
  BY DEF CreateObject, At, This
<1>2. /\ live \in [Objects -> Nat \cup {Nothing}] /\ InstallOK /\ Head(todo) = todo[1] /\ 1 \in DOMAIN todo
  BY <1>1, InInstall, Running DEF DeployTypeOK
<1>3. Head(todo).on \in Runtime \cup Files /\ Runtime \cup Files \subseteq Objects /\ Key \notin Runtime \cup Files
  BY <1>1, <1>2 DEF InstallOK, Files, Objects, Runtime, Templates, Key
<1>4. session /\ "api" \in up' => Present(Key)'
  BY <1>1, <1>2, <1>3 DEF WholeOK, Present
<1>5. QED
  BY <1>1, <1>2, <1>3, <1>4, GrowthKeeps

LEMMA StartWhole == ASSUME DeployInv, WholeOK, Start PROVE WholeOK'
<1>1. /\ op = "install" /\ Pop /\ Head(todo).do = "start" /\ up' = up \cup {Head(todo).on}
      /\ UNCHANGED <<profile, stateJson>>
      /\ IF Head(todo).on = "api" /\ session /\ ~Present(Key) THEN live' = [live EXCEPT ![Key] = cur.id]
                                                              ELSE live' = live
  BY DEF Start, At, This
<1>2. /\ live \in [Objects -> Nat \cup {Nothing}] /\ cur.id # Nothing
  BY <1>1, InInstall DEF DeployTypeOK
<1>3. Key \in Objects /\ Key \notin Runtime \cup Files /\ Runtime \cup Files \subseteq Objects
  BY DEF Files, Objects, Runtime, Templates, Key
<1>4. \A r \in Runtime \cup Files : live'[r] = live[r]
  BY <1>1, <1>2, <1>3
<1>5. session /\ "api" \in up' => Present(Key)'
  BY <1>1, <1>2, <1>3 DEF WholeOK, Present
<1>6. QED
  BY <1>1, <1>4, <1>5, GrowthKeeps

LEMMA CommitWhole == ASSUME DeployInv, WholeOK, Commit PROVE WholeOK'
<1>1. /\ op = "install" /\ Pop /\ Head(todo).do = "commit" /\ stateJson' = Installed
      /\ UNCHANGED <<profile, live, up>> /\ op' = op /\ cur' = cur
  BY DEF Commit, At, Pop
<1>2. /\ Ordered(todo') /\ Head(todo) = todo[1]
      /\ \A e : Has(e) => e = todo[1] \/ Follows(todo[1], e)
      /\ \A i \in DOMAIN todo : todo[i].do # "commit" => todo[i].do = "drop"
  <2>1. /\ Ordered(todo') /\ Head(todo) = todo[1]
        /\ \A e : Has(e) => e = todo[1] \/ Follows(todo[1], e)
    BY <1>1, OrderedTail DEF Pop, WholeOK
  <2>2. QED
    BY <1>1, <2>1 DEF Has, Follows
<1>3. \A r : ~Has(Effect("create", r)) /\ ~Has(Effect("start", r))
  BY <1>1, <1>2 DEF Follows, Effect
<1>4. /\ \A r \in Runtime \cup Files : live[r] = cur.id
      /\ {"api", "proxy"} \subseteq up /\ (session => Present(Key))
  BY <1>1, <1>3 DEF WholeOK, Growing
<1>5. Files' = Files /\ session' = session /\ live' = live /\ up' = up
  BY <1>1 DEF Files, profile
<1>6. ActiveStateIsWhole'
  <2>1. stateJson'.id = cur.id
    BY <1>1 DEF Installed
  <2>2. \A r \in Runtime \cup Files : live'[r] = stateJson'.id
    BY <1>4, <1>5, <2>1
  <2>3. "api" \in up' /\ "proxy" \in up' /\ (session' => live'[Key] # Nothing)
    BY <1>4, <1>5 DEF Present
  <2>4. QED
    BY <1>5, <2>2, <2>3 DEF ActiveStateIsWhole, Present
<1>7. todo'[1].do = "drop"
  <2>1. todo # << >> /\ todo \in Seq(EffectRecords) /\ todo' = Tail(todo)
    BY <1>1, Running DEF Pop
  <2>2. Len(todo) # 1
    BY <1>1, <1>2, <2>1 DEF DeployInv, PlanOK, Ends
  <2>3. /\ Len(todo) \in Nat \ {0} /\ DOMAIN todo = 1 .. Len(todo)
        /\ \A i \in 1 .. Len(todo) - 1 : todo'[i] = todo[i + 1]
    BY <2>1, PoppedList
  <2>4. 1 \in 1 .. Len(todo) - 1 /\ 1 \in DOMAIN todo /\ 1 + 1 \in DOMAIN todo
    BY <2>2, <2>3
  <2>5. Follows(todo[1], todo[1 + 1])
    BY <2>4 DEF WholeOK, Ordered
  <2>6. QED
    BY <1>1, <1>2, <2>3, <2>4, <2>5 DEF Follows
<1>8. Growing'
  <2>1. \A r \in Runtime \cup Files : live'[r] = cur'.id
    BY <1>1, <1>4, <1>5
  <2>2. "api" \in up' /\ "proxy" \in up'
    BY <1>4, <1>5
  <2>3. QED
    BY <1>5, <1>7, <2>1, <2>2 DEF Growing
<1>9. QED
  BY <1>1, <1>2, <1>4, <1>5, <1>6, <1>8 DEF WholeOK, Present

LEMMA CleanWhole ==
    ASSUME DeployInv, WholeOK, op = "clean", UNCHANGED <<profile, live, up, stateJson>>,
           op' = "clean", todo' = Tail(todo) \/ todo' = todo
    PROVE  WholeOK'
<1>1. Ordered(todo')
  BY OrderedTail DEF WholeOK
<1>2. ~Claimed /\ ~Claimed'
  BY DEF WholeOK, Claimed
<1>3. QED
  BY <1>1, <1>2 DEF WholeOK, ActiveStateIsWhole, Claimed, Present, profile

LEMMA RaisesWhole == ASSUME DeployInv, WholeOK, CommandRaises PROVE WholeOK'
<1>1. /\ op # "idle" /\ UNCHANGED <<profile, live, up, stateJson>>
      /\ CASE op = "install" -> InstallRaises [] op = "clean" -> CleanRaises
           [] op = "uninstall" -> Stop /\ UNCHANGED attempt
  BY DEF CommandRaises
<1>2. CASE Stop
  BY <1>1, <1>2, EndKeepsWhole DEF Stop
<1>3. CASE op = "install"
  <2>1. InstallRaises /\ Head(todo) = todo[1]
    BY <1>1, <1>3, Running
  <2>2. CASE op' = "clean" /\ todo' \in {Restoring, CleanPlan} /\ Head(todo).do # "drop"
    <3>1. Ordered(todo')
      BY <2>2, CleanOrder DEF DeployInv, DeployTypeOK
    <3>2. ~Claimed /\ ~Claimed'
      BY <1>1, <1>3, <2>1, <2>2 DEF WholeOK, Growing, Claimed
    <3>3. QED
      BY <1>1, <2>2, <3>1, <3>2 DEF WholeOK, ActiveStateIsWhole, Claimed, Present, profile
  <2>3. QED
    BY <1>2, <2>1, <2>2 DEF InstallRaises, Clean
<1>4. CASE op = "clean"
  <2>1. CleanRaises
    BY <1>1, <1>4
  <2>2. CASE op' = op /\ (todo' = Tail(todo) \/ todo' = todo)
    BY <1>1, <1>4, <2>2, CleanWhole
  <2>3. QED
    BY <1>2, <2>1, <2>2 DEF CleanRaises
<1>5. CASE op = "uninstall"
  BY <1>1, <1>2, <1>5
<1>6. QED
  BY <1>1, <1>3, <1>4, <1>5 DEF DeployInv, DeployTypeOK

LEMMA RemoveWhole == ASSUME DeployInv, WholeOK, RemoveNew PROVE WholeOK'
<1>1. /\ op = "clean" /\ Head(todo).do = "remove" /\ Pop /\ UNCHANGED <<profile, stateJson>>
      /\ up' \subseteq up
      /\ live' = live \/ live' = [live EXCEPT ![Head(todo).on] = Nothing]
  BY DEF RemoveNew, At, This
<1>2. /\ live \in [Objects -> Nat \cup {Nothing}] /\ CleanOK /\ Head(todo) = todo[1] /\ 1 \in DOMAIN todo
  BY <1>1, Running DEF DeployInv, DeployTypeOK
<1>3. todo[1].on \in Served
  BY <1>1, <1>2 DEF CleanOK, Restoring, Effect
<1>4. Key \in Objects /\ Key \notin Served
  BY DEF Served, Objects, Runtime, Templates, Key
<1>5. live'[Key] = live[Key]
  BY <1>1, <1>2, <1>3, <1>4
<1>6. Ordered(todo') /\ op' = op
  BY <1>1, OrderedTail DEF Pop, WholeOK
<1>7. ~Claimed /\ ~Claimed'
  BY <1>1 DEF WholeOK, Claimed
<1>8. QED
  BY <1>1, <1>5, <1>6, <1>7 DEF WholeOK, ActiveStateIsWhole, Claimed, Present, profile

\* The key is removed when the API that needs it is gone.
LEMMA DropKeyWhole == ASSUME DeployInv, WholeOK, DropKey PROVE WholeOK'
<1>1. /\ op = "clean" /\ Head(todo).do = "drop_key" /\ Pop /\ UNCHANGED <<profile, up, stateJson>>
      /\ live' = IF session /\ ~cur.errors /\ ~cur.keyBefore THEN [live EXCEPT ![Key] = Nothing] ELSE live
  BY DEF DropKey, At
<1>2. /\ live \in [Objects -> Nat \cup {Nothing}] /\ CleanOK /\ ObjectsOK
      /\ Head(todo) = todo[1] /\ 1 \in DOMAIN todo
  BY <1>1, Running DEF DeployInv, DeployTypeOK
<1>3. /\ Ordered(todo') /\ op' = op
      /\ \A e : Has(e) => e = todo[1] \/ Follows(todo[1], e)
  BY <1>1, OrderedTail DEF Pop, WholeOK
<1>4. ~Claimed /\ ~Claimed'
  BY <1>1 DEF WholeOK, Claimed
<1>5. ~cur.errors => "api" \notin up
  <2>1. todo # Restoring
    BY <1>1, <1>2 DEF Restoring, Effect
  <2>2. ~Has(Effect("remove", "api"))
    BY <1>1, <1>2, <1>3 DEF Follows, Effect
  <2>3. "api" \in Served \ stray
    BY DEF Served, Runtime, Templates, DeployInv, DeployTypeOK
  <2>4. QED
    BY <1>2, <2>1, <2>2, <2>3 DEF CleanOK, ObjectsOK
<1>6. session' /\ "api" \in up' => Present(Key)'
  BY <1>1, <1>5 DEF WholeOK, Present, profile
<1>7. QED
  BY <1>1, <1>3, <1>4, <1>6 DEF WholeOK, ActiveStateIsWhole, Claimed

\* What adopt finds is one install: all that is served is of the newest.
LEMMA AdoptWhole == ASSUME DeployInv, WholeOK, Adopt PROVE WholeOK'
<1>1. /\ op = "idle" /\ stateJson = Nothing /\ {"api", "proxy"} \subseteq up
      /\ live["proxy"] = live["api"] /\ live["network"] = live["api"]
      /\ \A r \in {"api"} \cup Files : live[r] \notin {Nothing, 0}
      /\ stateJson' = [id |-> live["api"], status |-> "adopted", removed |-> {}]
      /\ UNCHANGED <<onUnraid, session, live, up, op, todo>>
  BY DEF Adopt, Command, profile
<1>2. \A r \in Served : live[r] \in {Nothing, 0, lastInstall}
  BY DEF DeployInv, NewestOK
<1>5. \A r \in Files : live[r] = live["api"]
  BY <1>1, <1>2 DEF Files, Runtime, Served
<1>6. \A r \in Runtime \cup Files : live[r] = live["api"]
  BY <1>1, <1>5 DEF Runtime
<1>7. Files' = Files /\ stateJson'.id = live["api"]
  BY <1>1 DEF Files
<1>8. session => Present(Key)
  BY <1>1 DEF WholeOK
<1>9. ActiveStateIsWhole'
  BY <1>1, <1>6, <1>7, <1>8 DEF ActiveStateIsWhole, Present
<1>10. QED
  BY <1>1, <1>9 DEF WholeOK, Present

LEMMA UninstallWhole == ASSUME DeployInv, WholeOK, Uninstall PROVE WholeOK'
<1>1. /\ op' = "uninstall" /\ todo' = UninstallPlan
      /\ stateJson' = [stateJson EXCEPT !.status = "uninstalling"] /\ stateJson # Nothing
      /\ UNCHANGED <<onUnraid, session, live, up>>
  BY DEF Uninstall, profile
<1>2. Ordered(todo')
  BY <1>1, UninstallOrder DEF DeployInv, DeployTypeOK
<1>3. ~Claimed'
  BY <1>1 DEF Claimed, DeployInv, DeployTypeOK, State
<1>4. QED
  BY <1>1, <1>2, <1>3 DEF WholeOK, ActiveStateIsWhole, Claimed, Present

LEMMA RemoveOwnedWhole == ASSUME DeployInv, WholeOK, RemoveOwned PROVE WholeOK'
<1>1. /\ op = "uninstall" /\ Head(todo).do = "remove_owned" /\ Pop /\ UNCHANGED <<profile, stateJson>>
      /\ live' = [live EXCEPT ![Head(todo).on] = Nothing] /\ up' = up \ {Head(todo).on}
  BY DEF RemoveOwned, At, This
<1>2. /\ live \in [Objects -> Nat \cup {Nothing}] /\ UninstallOK /\ ObjectsOK
      /\ Head(todo) = todo[1] /\ todo[1] \in EffectRecords
  BY <1>1, Running DEF DeployInv, DeployTypeOK
<1>3. /\ Ordered(todo') /\ op' = op
      /\ \A e : Has(e) => e = todo[1] \/ Follows(todo[1], e)
  BY <1>1, OrderedTail DEF Pop, WholeOK
<1>4. ~Claimed'
  BY <1>1, <1>2 DEF UninstallOK, Claimed
<1>5. CASE Head(todo).on = Key
  <2>1. todo[1] = Effect("remove_owned", Key)
    BY <1>1, <1>2, <1>5 DEF EffectRecords, Effect
  <2>2. ~Has(Effect("remove_owned", "api"))
    BY <1>3, <2>1 DEF Follows, Effect, Key
  <2>3. "api" \notin up
    BY <1>2, <2>2 DEF UninstallOK, ObjectsOK, Served, Runtime
  <2>4. QED
    BY <1>1, <1>3, <1>4, <2>3 DEF WholeOK, ActiveStateIsWhole, Claimed
<1>6. CASE Head(todo).on # Key
  <2>1. live'[Key] = live[Key]
    BY <1>1, <1>2, <1>6 DEF Objects
  <2>2. session' = session
    BY <1>1 DEF profile
  <2>3. QED
    BY <1>1, <1>3, <1>4, <2>1, <2>2 DEF WholeOK, ActiveStateIsWhole, Claimed, Present
<1>7. QED
  BY <1>5, <1>6

LEMMA RecordWhole == ASSUME DeployInv, WholeOK, Record PROVE WholeOK'
<1>1. /\ op = "uninstall" /\ Pop /\ UNCHANGED <<profile, live, up>>
      /\ stateJson' = [stateJson EXCEPT !.removed = @ \cup {This}]
  BY DEF Record, At
<1>2. Ordered(todo') /\ op' = op
  BY <1>1, OrderedTail DEF Pop, WholeOK
<1>3. ~Claimed'
  BY <1>1 DEF Claimed, DeployInv, DeployTypeOK, State, UninstallOK
<1>4. QED
  BY <1>1, <1>2, <1>3 DEF WholeOK, ActiveStateIsWhole, Claimed, Present, profile

LEMMA FinishWhole == ASSUME DeployInv, WholeOK, Finish PROVE WholeOK'
<1>1. /\ op = "uninstall" /\ Stop /\ UNCHANGED <<profile, live, up>>
      /\ stateJson' = [stateJson EXCEPT !.status = "uninstalled"]
  BY DEF Finish, At
<1>2. ~Claimed'
  BY <1>1 DEF Claimed, DeployInv, DeployTypeOK, State, UninstallOK
<1>3. QED
  BY <1>1, <1>2, EndKeepsWhole DEF Stop

LEMMA BackupWhole == ASSUME DeployInv, WholeOK, RestoreBackup PROVE WholeOK'
<1>1. /\ live' = [live EXCEPT ![Key] = 0]
      /\ UNCHANGED <<profile, up, stateJson, op, todo, cur>> /\ op = "idle"
  BY DEF RestoreBackup, Command
<1>2. live \in [Objects -> Nat \cup {Nothing}] /\ Key \in Objects
  BY DEF DeployInv, DeployTypeOK, Objects
<1>3. Runtime \cup Files \subseteq Objects /\ Key \notin Runtime \cup Files
  BY DEF Files, Objects, Runtime, Templates, Key
<1>4. Present(Key)'
  BY <1>1, <1>2, NothingIsNoRecord DEF Present
<1>5. \A r \in Runtime \cup Files : live'[r] = live[r]
  BY <1>1, <1>2, <1>3
<1>6. ActiveStateIsWhole'
  BY <1>1, <1>4, <1>5, ClaimStands DEF WholeOK
<1>7. QED
  BY <1>1, <1>4, <1>6 DEF WholeOK

\* What is made by hand was missing, so no state claimed it.
LEMMA RecreateWhole == ASSUME DeployInv, WholeOK, Recreate PROVE WholeOK'
<1>1. UNCHANGED <<profile, up, stateJson, op, todo, cur>> /\ op = "idle"
  BY DEF Recreate, Command
<1>2. PICK r \in Runtime \cup Files : ~Present(r) /\ live' = [live EXCEPT ![r] = 0]
  BY DEF Recreate
<1>3. live \in [Objects -> Nat \cup {Nothing}] /\ r # Key /\ Key \in Objects
      /\ (stateJson # Nothing => stateJson.id \in Nat)
  BY DEF DeployInv, DeployTypeOK, Objects, Files, Runtime, Templates, Key, State
<1>4. live'[Key] = live[Key]
  BY <1>2, <1>3
<1>5. ~Claimed
  BY <1>2, <1>3, NothingIsNoRecord DEF WholeOK, ActiveStateIsWhole, Claimed, Present
<1>6. QED
  BY <1>1, <1>4, <1>5 DEF WholeOK, ActiveStateIsWhole, Claimed, Present, profile

LEMMA StopWhole ==
    ASSUME DeployInv, WholeOK, Drop \/ Restore \/ Close \/ KeyMissing \/ CommandKilled
    PROVE  WholeOK'
BY EndKeepsWhole DEF Drop, Restore, Close, KeyMissing, CommandKilled, Stop

\* A state that is installed or adopted names a runtime that is complete: every
\* container, network and template carries its id, both containers run and the
\* session key is there, whatever failed, was killed or was adopted before.  It
\* takes that an effect which raises was not made: a save that raises after its
\* rename leaves an installed state beside what its cleanup removes.
THEOREM ActiveStatesAreWhole ==
    ASSUME ~LateFailure
    PROVE  DeploySpec => []ActiveStateIsWhole
<1>1. DeployInit => WholeOK
  BY DEF DeployInit, WholeOK, ActiveStateIsWhole, Ordered
<1>2. ASSUME DeployInv, WholeOK, [DeployNext]_deployVars
      PROVE  WholeOK'
  <2>1. CASE UNCHANGED deployVars
    BY <1>2, <2>1 DEF deployVars, profile, WholeOK, ActiveStateIsWhole, Growing, Claimed, Has, Present, Files
  <2>2. CASE DeployStep
    BY <1>2, <2>2, ArmArchiveWhole, CreateWhole, StartWhole, CommitWhole, StopWhole, RemoveWhole, DropKeyWhole,
       RemoveOwnedWhole, RecordWhole, FinishWhole DEF DeployStep
  <2>3. ~RaiseLate
    BY DEF RaiseLate
  <2>4. QED
    BY <1>2, <2>1, <2>2, <2>3, InstallWhole, AdoptWhole, UninstallWhole, BackupWhole, RecreateWhole, RaisesWhole, StopWhole
       DEF DeployNext
<1>3. WholeOK => ActiveStateIsWhole
  BY DEF WholeOK
<1>4. QED
  BY <1>1, <1>2, <1>3, DeployInvariant, PTL DEF DeploySpec
=============================================================================
