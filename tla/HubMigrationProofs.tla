-------------------------- MODULE HubMigrationProofs -------------------------
(***************************************************************************)
(* Proofs about HubMigration for every sequence of readers and every       *)
(* number of commands, faults and writes.                                  *)
(*                                                                         *)
(* The invariant has two parts.  FilesInv is what the files, the sources   *)
(* and the hub satisfy at every instant, and so what a crash leaves; the   *)
(* other conjuncts say what the running command may rely on, told by its   *)
(* next effect.  Two facts carry the cutover: from the first comparison on *)
(* no source runs, so that what has been compared or copied stays the last *)
(* word of its source; and a source is started again only when the hub is  *)
(* gone.                                                                   *)
(***************************************************************************)
EXTENDS HubMigration, TLAPS

\* What the effects have in common.
Trying == {"check", "copy", "fill", "publish", "note", "enter_install"}
Installing == {"arm", "prepare", "create", "start", "archive", "commit"}
Cleaning == {"remove", "drop_keys", "close"}
RollingBack == {"roll_back_state", "roll_back_journal"}

\* The tree of a reader holds all its source has written.
Kept(r) == tree[r] # None /\ tree[r].db # None /\ tree[r].db.from = src[r]
AllTrees == \A r \in Readers : tree[r] # None

-----------------------------------------------------------------------------
(* At every instant.                                                        *)

\* Install ids are given out in order.
IdsKnown ==
    /\ hub # None => hub.id <= lastId
    /\ attempt # None => attempt.id <= lastId
    /\ state # None => state.id <= lastId
    /\ \A i \in migrated : i <= lastId

\* The container against the attempt and the state.
OwnerOK ==
    /\ hub # None =>
        \/ attempt # None /\ attempt.id = hub.id /\ attempt.status \in {"starting", "cleanup-failed"}
        \/ state # None /\ state.id = hub.id /\ state.status \in {"installed", "uninstalling"}
    /\ Active /\ hub # None => hub.up /\ hub.id = state.id
    /\ Active /\ attempt # None =>
         /\ attempt.id = state.id
         /\ hub # None => attempt.status \in {"starting", "cleanup-failed"}
    /\ state # None /\ state.status \in {"uninstalled", "rolled_back"} =>
         hub = None \/ hub.id # state.id

\* The container against the trees it mounts.
DataOK ==
    /\ hub # None => AllTrees
    /\ hub # None /\ hub.up => \A r \in Readers : tree[r] # None /\ tree[r].db # None

\* A hub that migrate has installed.
CutoverOK ==
    Active /\ state.id \in migrated /\ hub # None =>
        /\ up = {} /\ \A r \in Readers : Kept(r)
        /\ journal # None => journal.status # "rolled_back"

FilesInv == IdsKnown /\ OwnerOK /\ DataOK /\ CutoverOK

-----------------------------------------------------------------------------
(* While a command runs.                                                    *)

PlaceOK ==
    /\ pc \in Trying \cup {"copying", "stop", "leave", "committed", "handle", "fail"} => cmd = "migrate"
    /\ pc \in Installing \cup {"drop"} \cup Cleaning => cmd \in {"install", "migrate"}
    /\ pc \in UninstallEffects => cmd \in {"uninstall", "migrate", "rollback"}
    /\ pc \in {"enter_uninstall", "restart"} => cmd \in {"migrate", "rollback"}
    /\ pc \in RollingBack => cmd = "rollback"

JournalOK ==
    /\ cmd = "migrate" => journal # None /\ journal.status \in {"prepared", "copying", "failed"}
    /\ cmd = "rollback" => journal # None /\ journal.status \in {"committed", "rolled_back"}
    /\ cmd = "rollback" /\ pc # "restart" => journal.status = "committed"

\* A hub whose install is over but for its attempt.
Settled == Active /\ hub # None /\ (attempt # None => attempt.status = "starting")

\* install and its cleanup: the attempt is its own, the container is made by it.
\* The cleanup may run beside the state of this very install, of which the save
\* raised after its rename.
InstallOK ==
    /\ pc \in Installing \cup Cleaning =>
         /\ attempt # None /\ attempt.id = cur.id /\ cur.id = lastId
         /\ attempt.status \in {"prepared", "starting"}
         /\ state # None => \/ state.status \in {"uninstalled", "rolled_back"} /\ state.id # cur.id
                            \/ pc \in Cleaning /\ state.status = "installed" /\ state.id = cur.id
         /\ ~cur.installed
    /\ pc \in Installing => cur.id \notin migrated
    /\ pc \in Installing \ {"arm"} => attempt.status = "starting"
    /\ pc \in {"arm", "prepare", "create", "drop_keys"} => hub = None
    /\ pc \in {"arm", "prepare", "create"} => ~cur.started
    /\ pc = "start" => hub = [id |-> cur.id, up |-> FALSE] /\ cur.started
    /\ pc \in {"archive", "commit"} => hub = [id |-> cur.id, up |-> TRUE] /\ cur.started
    /\ pc = "archive" => state # None
    /\ pc \in {"create", "start", "archive", "commit", "remove", "drop_keys"} => AllTrees
    /\ pc = "close" /\ ~cur.errors => hub = None
    /\ pc = "drop" => Settled

\* The try block of migrate, and install inside it: no source runs.
TryOK ==
    /\ cmd = "migrate" /\ pc \in Trying \cup Installing => up = {}
    /\ cmd = "migrate" /\ pc \in Trying =>
         ~cur.started /\ ~cur.installed /\ \A r \in Readers \ cur.left : Kept(r)
    /\ cmd = "migrate" /\ pc \in {"enter_install"} \cup Installing => \A r \in Readers : Kept(r)
    /\ pc = "publish" => \A r \in Readers : Turn(r) => work[r] = SourceTree(r)
    /\ pc = "note" => \A r \in Readers : Turn(r) => Kept(r)
    /\ pc \in {"copying", "stop"} =>
         ~cur.started /\ ~cur.installed /\ cur.left = Readers
    /\ pc = "leave" => Settled

\* uninstall, by itself or inside another command.
UninstallOK ==
    /\ pc = "mark" => Active
    /\ pc = "down" => state # None /\ state.status = "uninstalling"
    /\ pc \in {"drop_credentials", "finish", "reconcile"} => hub = None /\ state # None
    /\ pc = "enter_uninstall" /\ cmd = "migrate" => Settled

\* The handler of migrate and the rest of rollback.
HandlerOK ==
    /\ pc = "handle" /\ cur.installed => Settled
    /\ cmd = "migrate" /\ pc \notin {"fail", "restart"} => ~cur.unclean
    /\ pc = "fail" /\ ~cur.unclean => hub = None
    /\ pc = "fail" /\ cur.unclean /\ ~excused => hub # None
    /\ pc = "restart" => hub = None \/ journal.status = "rolled_back"
    /\ pc = "restart" \/ cmd = "rollback" =>
         cur.left \subseteq Sources /\ journal.initial \subseteq up \cup cur.left
    /\ pc = "restart" /\ journal.status = "committed" => state # None
    /\ pc \in RollingBack => hub = None /\ state # None /\ journal.initial \subseteq up

\* Who serves the readers.
ServedOK ==
    /\ ReadersStayServed
    /\ cmd = "install" /\ journal # None /\ journal.status \in {"failed", "rolled_back"} /\ ~excused =>
         journal.initial \subseteq up
    /\ cmd = "uninstall" => excused

RunInv == PlaceOK /\ JournalOK /\ InstallOK /\ TryOK /\ UninstallOK /\ HandlerOK

IInv == TypeOK /\ FilesInv /\ RunInv /\ ServedOK
-----------------------------------------------------------------------------
(* Facts every step uses.                                                   *)

LEMMA InitInv == Init => IInv
<1> SUFFICES ASSUME Init PROVE IInv
  OBVIOUS
<1>a. NoCopies \in [Readers -> Manifest \cup {None}]
  BY DEF NoCopies
<1>b. NoLocal \in Local
  BY <1>a DEF NoLocal, Local
<1>c. 0 \in 0 .. MaxWrites /\ 0 \in 0 .. MaxRuns /\ 0 \in 0 .. MaxFaults
  BY BoundsAssumption
<1>1. TypeOK
  <2>1. up \subseteq Sources /\ src \in [Readers -> 0 .. MaxWrites]
    BY <1>c DEF Init
  <2>2. /\ tree \in [Readers -> Manifest \cup {None}] /\ work \in [Readers -> Manifest \cup {None}]
        /\ hub \in Container \cup {None} /\ attempt \in Attempt \cup {None}
        /\ state \in State \cup {None} /\ journal \in Journal \cup {None} /\ history \subseteq Nat
    BY <1>a DEF Init
  <2>3. /\ cmd \in {"idle", "install", "uninstall", "migrate", "rollback"}
        /\ pc \in Effects \cup {"idle"} /\ (cmd = "idle") = (pc = "idle")
    BY DEF Init
  <2>4. cur \in Local /\ migrated \subseteq Nat /\ excused \in BOOLEAN
        /\ lastId \in Nat /\ runs \in 0 .. MaxRuns /\ faults \in 0 .. MaxFaults
    BY <1>b, <1>c DEF Init
  <2> QED
    BY <2>1, <2>2, <2>3, <2>4 DEF TypeOK
<1>2. FilesInv
  BY NoneAssumption DEF Init, FilesInv, IdsKnown, OwnerOK, DataOK, CutoverOK, Active
<1>3. RunInv
  BY DEF Init, RunInv, PlaceOK, JournalOK, InstallOK, TryOK, UninstallOK, HandlerOK,
         Trying, Installing, Cleaning, RollingBack, UninstallEffects
<1>4. ServedOK
  BY DEF Init, ServedOK, ReadersStayServed
<1> QED
  BY <1>1, <1>2, <1>3, <1>4 DEF IInv

\* A command that ends or is killed leaves what the files say.
LEMMA StopInv ==
    ASSUME Stop PROVE RunInv'
BY DEF Stop, RunInv, PlaceOK, JournalOK, InstallOK, TryOK, UninstallOK, HandlerOK,
       Trying, Installing, Cleaning, RollingBack, UninstallEffects

LEMMA StopType ==
    ASSUME TypeOK, Stop
    PROVE  /\ cmd' \in {"idle", "install", "uninstall", "migrate", "rollback"}
           /\ pc' \in Effects \cup {"idle"} /\ (cmd' = "idle") = (pc' = "idle")
           /\ cur' \in Local
BY DEF Stop, NoLocal, Local, NoCopies

\* The rest of TypeOK when a step goes on to another effect.
LEMMA GoType ==
    ASSUME TypeOK, cmd # "idle", NEW do \in Effects \cup {"idle"}, NEW c \in Local, Go(do, c)
    PROVE  /\ cmd' \in {"idle", "install", "uninstall", "migrate", "rollback"}
           /\ pc' \in Effects \cup {"idle"} /\ (cmd' = "idle") = (pc' = "idle")
           /\ cur' \in Local
<1>1. CASE do = "idle"
  BY <1>1, StopType DEF Go
<1>2. CASE do # "idle"
  BY <1>2 DEF Go, TypeOK
<1> QED
  BY <1>1, <1>2

LEMMA Locals ==
    ASSUME NEW c \in Local
    PROVE  /\ [c EXCEPT !.errors = TRUE] \in Local
           /\ [c EXCEPT !.started = TRUE] \in Local
           /\ [c EXCEPT !.installed = TRUE] \in Local
           /\ \A b \in BOOLEAN : [c EXCEPT !.unclean = b] \in Local
           /\ \A i \in Nat : [c EXCEPT !.id = i] \in Local
           /\ \A k \in SUBSET Readers : [c EXCEPT !.keysBefore = k] \in Local
           /\ \A s \in SUBSET (Readers \cup Sources) : [c EXCEPT !.left = s] \in Local
           /\ \A f \in [Readers -> Manifest \cup {None}] : [c EXCEPT !.copied = f] \in Local
BY DEF Local

\* A command runs while there is an effect to come.
LEMMA Running ==
    ASSUME IInv, pc # "idle" PROVE cmd # "idle" /\ cmd \in {"install", "uninstall", "migrate", "rollback"}
BY DEF IInv, TypeOK

\* What is neither written nor moved.
LEMMA FilesFrame ==
    ASSUME FilesInv, UNCHANGED <<up, src, hub, tree, attempt, state, migrated, lastId>>,
           journal' # None => journal'.status # "rolled_back" \/ hub = None
                                \/ (journal # None /\ journal.status = "rolled_back")
    PROVE  FilesInv'
BY DEF FilesInv, IdsKnown, OwnerOK, DataOK, CutoverOK, Active, AllTrees, Kept
-----------------------------------------------------------------------------
(* install.                                                                 *)

\* A new attempt, from an idle host or inside migrate.
LEMMA OpenType ==
    ASSUME TypeOK, OpenAttempt
    PROVE  /\ lastId' \in Nat /\ attempt' \in Attempt /\ lastId' > lastId
           /\ attempt' # None /\ attempt'.id = lastId' /\ attempt'.status = "prepared"
BY NoneAssumption DEF OpenAttempt, TypeOK, Attempt

LEMMA OpenFiles ==
    ASSUME TypeOK, FilesInv, OpenAttempt, hub = None, ~Active,
           UNCHANGED <<up, src, hub, tree, state, journal, migrated>>
    PROVE  FilesInv'
<1>1. IdsKnown'
  <2>1. lastId \in Nat /\ lastId' \in Nat /\ lastId' > lastId /\ attempt'.id = lastId'
    BY OpenType DEF TypeOK
  <2>2. state # None => state.id \in Nat
    BY DEF TypeOK, State
  <2>3. \A i \in migrated : i \in Nat
    BY DEF TypeOK
  <2> QED
    BY <2>1, <2>2, <2>3 DEF FilesInv, IdsKnown
<1>2. OwnerOK'
  BY DEF FilesInv, OwnerOK, Active
<1>3. DataOK' /\ CutoverOK'
  BY DEF FilesInv, DataOK, CutoverOK, OwnerOK, Active, AllTrees, Kept
<1> QED
  BY <1>1, <1>2, <1>3 DEF FilesInv

LEMMA InstallInv == ASSUME IInv, Install PROVE IInv'
<1>0. /\ pc' = "arm" /\ cmd' = "install" /\ hub = None /\ CleanEvidence
      /\ state # None => state.status \in {"uninstalled", "rolled_back"}
      /\ excused' = excused /\ cmd = "idle" /\ OpenAttempt
      /\ cur' = [NoLocal EXCEPT !.id = lastId']
      /\ UNCHANGED <<world, tree, work, state, journal, history, migrated, faults>>
  BY DEF Install, Begin, Preflight, IInv, TypeOK
<1>1. TypeOK'
  <2>1. NoLocal \in Local
    BY DEF NoLocal, Local, NoCopies
  <2>2. cur' \in Local
    BY <1>0, <2>1, Locals, OpenType DEF IInv
  <2>3. runs' \in 0 .. MaxRuns
    BY BoundsAssumption DEF Install, Begin, IInv, TypeOK
  <2>4. pc' \in Effects
    BY <1>0 DEF Effects, Unguarded, InstallEffects
  <2> QED
    BY <1>0, <2>2, <2>3, <2>4, OpenType DEF IInv, TypeOK, world
<1>2. FilesInv'
  BY <1>0, OpenFiles DEF IInv, world, Active
<1>3. RunInv'
  <2>1. cur'.id = lastId' /\ ~cur'.started /\ ~cur'.installed /\ ~cur'.unclean
    BY <1>0 DEF NoLocal
  <2>2. \A i \in migrated' : i # lastId'
    BY <1>0, OpenType DEF IInv, FilesInv, IdsKnown, TypeOK
  <2>3. state' # None => state'.id # lastId'
    BY <1>0, OpenType DEF IInv, FilesInv, IdsKnown, TypeOK, State
  <2> QED
    BY <1>0, <2>1, <2>2, <2>3, OpenType
       DEF IInv, world, RunInv, PlaceOK, JournalOK, InstallOK, TryOK, UninstallOK, HandlerOK,
           Trying, Installing, Cleaning, RollingBack, UninstallEffects
<1>4. ServedOK'
  BY <1>0 DEF IInv, ServedOK, ReadersStayServed, world
<1> QED
  BY <1>1, <1>2, <1>3, <1>4 DEF IInv

LEMMA ArmInv == ASSUME IInv, Arm PROVE IInv'
<1>0. /\ pc = "arm" /\ pc' = "prepare" /\ cur' = cur /\ cmd' = cmd
      /\ attempt' = [attempt EXCEPT !.status = "starting"]
      /\ UNCHANGED <<world, tree, work, state, journal, history, migrated, excused, lastId, runs, faults>>
  BY DEF Arm, At, To, Go, Quiet
<1>a. attempt # None /\ attempt.id = cur.id /\ cur.id = lastId /\ hub = None
  BY <1>0 DEF IInv, RunInv, InstallOK, Installing, Cleaning
<1>b. attempt' \in Attempt /\ attempt' # None /\ attempt'.id = attempt.id /\ attempt'.status = "starting"
  BY <1>0, <1>a, NoneAssumption DEF IInv, TypeOK, Attempt
<1>1. TypeOK'
  BY <1>0, <1>b DEF IInv, TypeOK, world, Effects, Unguarded, InstallEffects
<1>2. FilesInv'
  BY <1>0, <1>a, <1>b DEF IInv, FilesInv, IdsKnown, OwnerOK, DataOK, CutoverOK, Active, AllTrees, Kept, world
<1>3. RunInv'
  BY <1>0, <1>b DEF IInv, world, RunInv, PlaceOK, JournalOK, InstallOK, TryOK, UninstallOK, HandlerOK,
           Trying, Installing, Cleaning, RollingBack, UninstallEffects, Kept, Active, AllTrees
<1>4. ServedOK'
  BY <1>0 DEF IInv, ServedOK, ReadersStayServed, world
<1> QED
  BY <1>1, <1>2, <1>3, <1>4 DEF IInv
-----------------------------------------------------------------------------
(* What updates of the locals and of a record leave alone.                  *)

SameFields(d, c) ==
    d.id = c.id /\ d.installed = c.installed /\ d.left = c.left /\ d.copied = c.copied

LEMMA LocalFields ==
    ASSUME NEW c \in Local
    PROVE  /\ LET d == [c EXCEPT !.errors = TRUE]
              IN  SameFields(d, c) /\ d.unclean = c.unclean /\ d.started = c.started /\ d.errors
           /\ LET d == [c EXCEPT !.started = TRUE]
              IN  SameFields(d, c) /\ d.unclean = c.unclean /\ d.errors = c.errors /\ d.started
           /\ LET d == [c EXCEPT !.installed = TRUE]
              IN  d.installed /\ d.unclean = c.unclean /\ d.left = c.left
           /\ \A b \in BOOLEAN : LET d == [c EXCEPT !.unclean = b]
              IN  SameFields(d, c) /\ d.unclean = b
           /\ \A i \in Nat : LET d == [c EXCEPT !.id = i]
              IN  /\ d.id = i /\ d.installed = c.installed /\ d.unclean = c.unclean
                  /\ d.left = c.left /\ d.copied = c.copied
           /\ \A k \in SUBSET Readers : LET d == [c EXCEPT !.keysBefore = k]
              IN  SameFields(d, c) /\ d.unclean = c.unclean
           /\ \A s : LET d == [c EXCEPT !.left = s]
              IN  /\ d.left = s /\ d.installed = c.installed /\ d.unclean = c.unclean
                  /\ d.copied = c.copied
           /\ \A f : LET d == [c EXCEPT !.copied = f]
              IN  /\ d.copied = f /\ d.installed = c.installed /\ d.unclean = c.unclean
                  /\ d.left = c.left
BY DEF Local, SameFields

LEMMA NotNone ==
    /\ \A x \in Database : x # None
    /\ \A x \in Manifest : x # None
    /\ \A x \in Container : x # None
    /\ \A x \in Attempt : x # None
    /\ \A x \in State : x # None
    /\ \A x \in Journal : x # None
BY NoneAssumption

LEMMA EmptyTreeType == EmptyTree \in Manifest
BY DEF EmptyTree, Manifest
-----------------------------------------------------------------------------
(* The effects of install.                                                  *)

LEMMA PrepareInv == ASSUME IInv, Prepare PROVE IInv'
<1>0. /\ pc = "prepare" /\ pc' = "create" /\ cmd' = cmd
      /\ cur' = [cur EXCEPT !.keysBefore = KeysIn(PreparedTrees)]
      /\ tree' = PreparedTrees
      /\ UNCHANGED <<world, work, attempt, state, journal, history, migrated, excused, lastId, runs, faults>>
  BY DEF Prepare, At, Go, Quiet
<1>a. /\ cur' \in Local /\ SameFields(cur', cur) /\ cur'.unclean = cur.unclean
      /\ cur'.started = cur.started
  <2>1. KeysIn(PreparedTrees) \in SUBSET Readers
    BY DEF KeysIn
  <2>2. cur \in Local
    BY DEF IInv, TypeOK
  <2>3. cur' \in Local
    BY <1>0, <2>1, <2>2, Locals
  <2>4. SameFields(cur', cur) /\ cur'.unclean = cur.unclean /\ cur'.started = cur.started
    BY <1>0, <2>2 DEF Local, SameFields
  <2> QED
    BY <2>3, <2>4
<1>b. ASSUME NEW r \in Readers
      PROVE  /\ tree'[r] = IF tree[r] = None THEN EmptyTree ELSE tree[r]
             /\ tree'[r] \in Manifest /\ tree'[r] # None
  <2>1. tree'[r] = IF tree[r] = None THEN EmptyTree ELSE tree[r]
    BY <1>0 DEF PreparedTrees
  <2>2. tree[r] = None \/ tree[r] \in Manifest
    BY DEF IInv, TypeOK
  <2> QED
    BY <2>1, <2>2, EmptyTreeType, NotNone
<1>c. tree' \in [Readers -> Manifest \cup {None}]
  BY <1>0, <1>b DEF PreparedTrees
<1>d. hub = None
  BY <1>0 DEF IInv, RunInv, InstallOK
<1>1. TypeOK'
  BY <1>0, <1>a, <1>c DEF IInv, TypeOK, world, disk, Effects, Unguarded, InstallEffects, TryEffects, UninstallEffects
<1>2. FilesInv'
  BY <1>0, <1>b, <1>d DEF IInv, FilesInv, IdsKnown, OwnerOK, DataOK, CutoverOK, Active, AllTrees, Kept, world, disk
<1>3. RunInv'
  BY <1>0, <1>a, <1>b, <1>d DEF IInv, world, disk, RunInv, PlaceOK, JournalOK, InstallOK, TryOK, UninstallOK, HandlerOK,
           Trying, Installing, Cleaning, RollingBack, UninstallEffects, Kept, Active, AllTrees, SameFields
<1>4. ServedOK'
  BY <1>0 DEF IInv, ServedOK, ReadersStayServed, world, disk
<1> QED
  BY <1>1, <1>2, <1>3, <1>4 DEF IInv

LEMMA CreateInv == ASSUME IInv, Create PROVE IInv'
<1>0. /\ pc = "create" /\ pc' = "start" /\ cmd' = cmd
      /\ cur' = [cur EXCEPT !.started = TRUE] /\ hub' = NewContainer
      /\ UNCHANGED <<up, src, disk, migrated, excused, lastId, runs, faults>>
  BY DEF Create, At, Go, Quiet
<1>a. cur' \in Local /\ SameFields(cur', cur) /\ cur'.unclean = cur.unclean /\ cur'.started
  BY <1>0, Locals, LocalFields DEF IInv, TypeOK
<1>b. cur.id = lastId /\ lastId \in Nat
  BY <1>0 DEF IInv, TypeOK, RunInv, InstallOK, Installing, Cleaning
<1>c. /\ hub' = [id |-> cur.id, up |-> FALSE] /\ hub' \in Container
      /\ hub'.id = lastId /\ ~hub'.up
  BY <1>0, <1>b DEF NewContainer, Container
<1>d. hub' # None
  BY <1>c, NotNone
<1>e. /\ hub' = [id |-> cur'.id, up |-> FALSE] /\ cur'.id = lastId /\ ~cur'.installed
      /\ attempt # None /\ attempt.id = cur'.id /\ attempt.status = "starting" /\ AllTrees
      /\ cur'.id \notin migrated
      /\ state # None => state.status \in {"uninstalled", "rolled_back"} /\ state.id # cur'.id
  BY <1>0, <1>a, <1>b, <1>c DEF IInv, RunInv, InstallOK, Installing, Cleaning, SameFields
<1>1. TypeOK'
  BY <1>0, <1>a, <1>c DEF IInv, TypeOK, world, disk, Effects, Unguarded, InstallEffects, TryEffects, UninstallEffects
<1>2. FilesInv'
  <2>1. /\ attempt # None /\ attempt.id = lastId /\ attempt.status = "starting" /\ AllTrees
        /\ state # None => state.status \in {"uninstalled", "rolled_back"} /\ state.id # lastId
    BY <1>0 DEF IInv, RunInv, InstallOK, Installing, Cleaning
  <2>2. IdsKnown'
    BY <1>0, <1>b, <1>c DEF IInv, FilesInv, IdsKnown, disk
  <2>3. OwnerOK'
    BY <1>0, <1>b, <1>c, <1>d, <2>1 DEF OwnerOK, Active, disk
  <2>4. DataOK' /\ CutoverOK'
    BY <1>0, <1>c, <2>1 DEF IInv, FilesInv, DataOK, CutoverOK, Active, AllTrees, Kept, disk
  <2> QED
    BY <2>2, <2>3, <2>4 DEF FilesInv
<1>3. RunInv'
  <2>1. PlaceOK' /\ JournalOK'
    BY <1>0, <1>a, <1>b, <1>c DEF IInv, RunInv, PlaceOK, JournalOK, world, disk, Trying, Installing, Cleaning, RollingBack, UninstallEffects
  <2>2. InstallOK'
    BY <1>0, <1>a, <1>e DEF IInv, RunInv, PlaceOK, InstallOK, AllTrees, Active, world, disk, Trying, Installing, Cleaning, RollingBack, UninstallEffects, SameFields
  <2>3. TryOK'
    BY <1>0, <1>a, <1>b, <1>c DEF IInv, RunInv, PlaceOK, TryOK, Kept, Active, world, disk, Trying, Installing, Cleaning, RollingBack, UninstallEffects, SameFields
  <2>4. UninstallOK' /\ HandlerOK'
    BY <1>0, <1>a, <1>b, <1>c DEF IInv, RunInv, PlaceOK, UninstallOK, HandlerOK, Active, world, disk, Trying, Installing, Cleaning, RollingBack, UninstallEffects, SameFields
  <2> QED
    BY <2>1, <2>2, <2>3, <2>4 DEF RunInv
<1>4. ServedOK'
  BY <1>0, <1>d DEF IInv, ServedOK, ReadersStayServed, world, disk
<1> QED
  BY <1>1, <1>2, <1>3, <1>4 DEF IInv

LEMMA StartInv == ASSUME IInv, Start PROVE IInv'
<1>0. /\ pc = "start" /\ pc' = AfterStart /\ cmd' = cmd /\ cur' = cur
      /\ hub' = [hub EXCEPT !.up = TRUE]
      /\ tree' = [r \in Readers |->
                  [db |-> IF tree[r].db = None THEN [from |-> None, hub |-> 0] ELSE tree[r].db,
                   key |-> TRUE]]
      /\ UNCHANGED <<up, src, work, attempt, state, journal, history, migrated, excused, lastId, runs, faults>>
  BY DEF Start, At, To, Go, Quiet, AfterStart
<1>a. /\ hub = [id |-> cur.id, up |-> FALSE] /\ AllTrees /\ cur.started
      /\ cur.id = lastId /\ lastId \in Nat
  BY <1>0 DEF IInv, TypeOK, RunInv, InstallOK, Installing, Cleaning
<1>b. hub' = [id |-> cur.id, up |-> TRUE] /\ hub' \in Container /\ hub'.id = lastId /\ hub'.up
  BY <1>0, <1>a DEF Container
<1>c. hub' # None
  BY <1>b, NotNone
<1>d. ASSUME NEW r \in Readers
      PROVE  /\ tree'[r] \in Manifest /\ tree'[r] # None /\ tree'[r].db # None
             /\ tree[r].db # None => tree'[r].db = tree[r].db
  <2>1. tree[r] \in Manifest
    BY <1>a DEF AllTrees, IInv, TypeOK
  <2>2. tree[r].db = None \/ tree[r].db \in Database
    BY <2>1 DEF Manifest
  <2>3. [from |-> None, hub |-> 0] \in Database
    BY DEF Database
  <2>4. PICK b \in Database : tree'[r] = [db |-> b, key |-> TRUE] /\ (tree[r].db # None => b = tree[r].db)
    BY <1>0, <2>2, <2>3
  <2>5. tree'[r] \in Manifest /\ tree'[r].db = b
    BY <2>4 DEF Manifest
  <2> QED
    BY <2>4, <2>5, NotNone
<1>e. tree' \in [Readers -> Manifest \cup {None}]
  BY <1>0, <1>d
<1>f. pc' \in {"archive", "commit"} /\ (pc' = "archive" => state # None)
  BY <1>0 DEF AfterStart
<1>1. TypeOK'
  BY <1>0, <1>b, <1>e, <1>f DEF IInv, TypeOK, world, disk, Effects, Unguarded, InstallEffects, TryEffects, UninstallEffects
<1>2. FilesInv'
  BY <1>0, <1>a, <1>b, <1>c, <1>d DEF IInv, FilesInv, IdsKnown, OwnerOK, DataOK, CutoverOK, Active, AllTrees, Kept, world, disk, RunInv, InstallOK, Installing, Cleaning, TypeOK
<1>3. RunInv'
  BY <1>0, <1>a, <1>b, <1>d, <1>f DEF IInv, world, disk, RunInv, PlaceOK, JournalOK, InstallOK, TryOK, UninstallOK, HandlerOK,
           Trying, Installing, Cleaning, RollingBack, UninstallEffects, Kept, Active, AllTrees
<1>4. ServedOK'
  BY <1>0, <1>c, <1>f DEF IInv, ServedOK, ReadersStayServed, world, disk
<1> QED
  BY <1>1, <1>2, <1>3, <1>4 DEF IInv

LEMMA ArchiveInv == ASSUME IInv, Archive PROVE IInv'
<1>0. /\ pc = "archive" /\ pc' = "commit" /\ cmd' = cmd /\ cur' = cur
      /\ history' = history \cup {state.id}
      /\ UNCHANGED <<world, tree, work, attempt, state, journal, migrated, excused, lastId, runs, faults>>
  BY DEF Archive, At, To, Go, Quiet
<1>a. state # None /\ history' \subseteq Nat
  BY <1>0 DEF IInv, TypeOK, State, RunInv, InstallOK
<1>1. TypeOK'
  BY <1>0, <1>a DEF IInv, TypeOK, world, disk, Effects, Unguarded, InstallEffects, TryEffects, UninstallEffects
<1>2. FilesInv'
  BY <1>0 DEF IInv, FilesInv, IdsKnown, OwnerOK, DataOK, CutoverOK, Active, AllTrees, Kept, world, disk
<1>3. RunInv'
  BY <1>0 DEF IInv, world, disk, RunInv, PlaceOK, JournalOK, InstallOK, TryOK, UninstallOK, HandlerOK,
           Trying, Installing, Cleaning, RollingBack, UninstallEffects, Kept, Active, AllTrees
<1>4. ServedOK'
  BY <1>0 DEF IInv, ServedOK, ReadersStayServed, world, disk
<1> QED
  BY <1>1, <1>2, <1>3, <1>4 DEF IInv

LEMMA LeaveInstall ==
    ASSUME ServedOK, cmd = "install", UNCHANGED <<up, journal, excused>>
    PROVE  (cmd' = "idle" \/ cmd' = "install") => ServedOK'
BY DEF ServedOK, ReadersStayServed

\* The state that is saved at the end of install.
LEMMA SavedOK ==
    ASSUME IInv, pc = "commit", SaveInstalled, UNCHANGED <<up, src, hub, tree, attempt, journal, lastId>>
    PROVE  /\ state' \in State /\ state'.id = lastId /\ state'.status = "installed" /\ cur.id = lastId
           /\ Settled' /\ migrated' \subseteq Nat /\ FilesInv'
<1>0. /\ state' = [id |-> cur.id, status |-> "installed"]
      /\ migrated' = (IF cmd = "migrate" THEN migrated \cup {cur.id} ELSE migrated)
  BY DEF SaveInstalled
<1>a. /\ hub = [id |-> cur.id, up |-> TRUE] /\ cur.id = lastId /\ lastId \in Nat
      /\ attempt # None /\ attempt.id = lastId /\ attempt.status = "starting"
      /\ cur.id \notin migrated /\ AllTrees
  BY DEF IInv, TypeOK, RunInv, InstallOK, Installing, Cleaning
<1>b. hub.id = lastId /\ hub.up /\ hub \in Container
  BY <1>a DEF Container
<1>c. state' \in State /\ state'.id = lastId /\ state'.status = "installed"
  BY <1>0, <1>a DEF State
<1>d. hub # None /\ state' # None
  BY <1>b, <1>c, NotNone
<1>e. cmd = "migrate" => /\ up = {} /\ journal # None /\ journal.status # "rolled_back"
                         /\ \A r \in Readers : Kept(r)
  BY DEF IInv, RunInv, TryOK, JournalOK, Installing
<1>1. IdsKnown'
  BY <1>0, <1>a, <1>b, <1>c DEF IInv, FilesInv, IdsKnown
<1>2. OwnerOK' /\ Settled'
  BY <1>0, <1>a, <1>b, <1>c, <1>d DEF OwnerOK, Active, Settled
<1>3. DataOK'
  BY DEF IInv, FilesInv, DataOK, AllTrees
<1>4. CutoverOK'
  BY <1>0, <1>a, <1>c, <1>e DEF CutoverOK, Kept
<1>5. migrated' \subseteq Nat
  BY <1>0, <1>a DEF IInv, TypeOK
<1> QED
  BY <1>a, <1>c, <1>1, <1>2, <1>3, <1>4, <1>5 DEF FilesInv

LEMMA CommitInv == ASSUME IInv, Commit PROVE IInv'
<1>0. /\ pc = "commit" /\ pc' = "drop" /\ cur' = cur /\ cmd' = cmd /\ SaveInstalled
      /\ UNCHANGED <<world, tree, work, attempt, journal, history, excused, lastId, runs, faults>>
  BY DEF Commit, At, To, Go, Quiet
<1>a. state' \in State /\ migrated' \subseteq Nat /\ Settled' /\ FilesInv'
  BY <1>0, SavedOK DEF world
<1>1. TypeOK'
  BY <1>0, <1>a DEF IInv, TypeOK, world, Effects, Unguarded, InstallEffects
<1>2. RunInv'
  <2>1. PlaceOK' /\ JournalOK'
    BY <1>0 DEF IInv, RunInv, PlaceOK, JournalOK, Trying, Installing, Cleaning, RollingBack, UninstallEffects
  <2>2. InstallOK'
    BY <1>0, <1>a DEF InstallOK, Installing, Cleaning
  <2>3. TryOK'
    BY <1>0 DEF TryOK, Trying, Installing
  <2>4. UninstallOK' /\ HandlerOK'
    BY <1>0 DEF IInv, RunInv, PlaceOK, UninstallOK, HandlerOK, world, RollingBack, Installing
  <2> QED
    BY <2>1, <2>2, <2>3, <2>4 DEF RunInv
<1>3. ServedOK'
  BY <1>0 DEF IInv, ServedOK, ReadersStayServed, world
<1> QED
  BY <1>a, <1>1, <1>2, <1>3 DEF IInv

LEMMA DropInv == ASSUME IInv, Drop PROVE IInv'
<1>0. /\ pc = "drop" /\ attempt' = None
      /\ Go(Installed, [cur EXCEPT !.installed = TRUE])
      /\ UNCHANGED <<world, tree, work, state, journal, history, migrated, excused, lastId, runs, faults>>
  BY DEF Drop, At, Quiet
<1>a. Settled /\ Active /\ cmd \in {"install", "migrate"} /\ state # None
  BY <1>0 DEF Settled, IInv, RunInv, InstallOK, PlaceOK, Active
<1>b. /\ [cur EXCEPT !.installed = TRUE] \in Local
      /\ [cur EXCEPT !.installed = TRUE].unclean = cur.unclean
      /\ [cur EXCEPT !.installed = TRUE].left = cur.left
  BY Locals, LocalFields DEF IInv, TypeOK
<1>c. Installed \in Effects \cup {"idle"}
  BY DEF Installed, Effects, Unguarded, TryEffects
<1>d. ASSUME cmd = "migrate" PROVE RunInv' /\ ServedOK'
  <2>1. pc' = "leave" /\ cmd' = cmd /\ cur' = [cur EXCEPT !.installed = TRUE]
    BY <1>0, <1>d DEF Installed, Go
  <2>2. Settled'
    BY <1>0, <1>a DEF Settled, Active, world
  <2>3. RunInv'
    <3>1. PlaceOK' /\ JournalOK'
      BY <1>0, <1>b, <1>d, <2>1, <2>2 DEF IInv, RunInv, PlaceOK, JournalOK, world, disk, Trying, Installing, Cleaning, RollingBack, UninstallEffects
    <3>2. InstallOK'
      BY <1>0, <1>b, <1>d, <2>1, <2>2 DEF IInv, RunInv, PlaceOK, InstallOK, AllTrees, Active, world, disk, Trying, Installing, Cleaning, RollingBack, UninstallEffects
    <3>3. TryOK'
      BY <1>0, <1>b, <1>d, <2>1, <2>2 DEF IInv, RunInv, PlaceOK, TryOK, Kept, Active, world, disk, Trying, Installing, Cleaning, RollingBack, UninstallEffects
    <3>4. UninstallOK' /\ HandlerOK'
      BY <1>0, <1>b, <1>d, <2>1, <2>2 DEF IInv, RunInv, PlaceOK, UninstallOK, HandlerOK, Active, world, disk, Trying, Installing, Cleaning, RollingBack, UninstallEffects
    <3> QED
      BY <3>1, <3>2, <3>3, <3>4 DEF RunInv
  <2>4. ServedOK'
    BY <1>0, <1>d, <2>1 DEF ServedOK, ReadersStayServed
  <2> QED
    BY <2>3, <2>4
<1>e. ASSUME cmd = "install" PROVE RunInv' /\ ServedOK'
  <2>1. Stop
    BY <1>0, <1>e DEF Installed, Go
  <2>2. ServedOK'
    BY <1>0, <1>e, <2>1, LeaveInstall DEF IInv, Stop, world
  <2> QED
    BY <2>1, <2>2, StopInv
<1>1. TypeOK'
  BY <1>0, <1>a, <1>b, <1>c, GoType DEF IInv, TypeOK, world
<1>2. FilesInv'
  BY <1>0, <1>a DEF IInv, FilesInv, IdsKnown, OwnerOK, DataOK, CutoverOK, Active, AllTrees, Kept, world, disk
<1>3. RunInv'
  BY <1>a, <1>d, <1>e
<1>4. ServedOK'
  BY <1>a, <1>d, <1>e
<1> QED
  BY <1>1, <1>2, <1>3, <1>4 DEF IInv

LEMMA RemoveInv == ASSUME IInv, Remove PROVE IInv'
<1>0. /\ pc = "remove" /\ pc' = "drop_keys" /\ cur' = cur /\ cmd' = cmd /\ hub' = None
      /\ UNCHANGED <<up, src, disk, migrated, excused, lastId, runs, faults>>
  BY DEF Remove, At, To, Go, Quiet
<1>a. cmd \in {"install", "migrate"}
  BY <1>0 DEF IInv, RunInv, PlaceOK, Cleaning
<1>1. TypeOK'
  BY <1>0 DEF IInv, TypeOK, world, disk, Effects, Unguarded, InstallEffects, TryEffects, UninstallEffects
<1>2. FilesInv'
  BY <1>0, <1>a DEF IInv, FilesInv, IdsKnown, OwnerOK, DataOK, CutoverOK, Active, AllTrees, Kept, world, disk
<1>3. RunInv'
  BY <1>0, <1>a DEF IInv, world, disk, RunInv, PlaceOK, JournalOK, InstallOK, TryOK, UninstallOK, HandlerOK,
           Trying, Installing, Cleaning, RollingBack, UninstallEffects, Kept, Active, AllTrees
<1>4. ServedOK'
  BY <1>0, <1>a, LeaveInstall DEF IInv, ServedOK, ReadersStayServed, world, disk
<1> QED
  BY <1>1, <1>2, <1>3, <1>4 DEF IInv

\* The keys of before this attempt are kept, and every database.
LEMMA OldKeysOK ==
    ASSUME IInv, pc = "drop_keys", tree' = OldKeys,
           UNCHANGED <<up, src, hub, attempt, state, journal, migrated, lastId>>
    PROVE  tree' \in [Readers -> Manifest \cup {None}] /\ FilesInv' /\ (AllTrees)'
<1>1. hub = None /\ AllTrees
  BY DEF IInv, RunInv, InstallOK
<1>2. ASSUME NEW r \in Readers
      PROVE  tree'[r] \in Manifest /\ tree'[r] # None /\ tree'[r].db = tree[r].db
  <2>1. tree[r] \in Manifest
    BY <1>1 DEF AllTrees, IInv, TypeOK
  <2> DEFINE b == r \in KeysIn(tree) \cap cur.keysBefore
  <2>2. b \in BOOLEAN /\ tree'[r] = [tree[r] EXCEPT !.key = b]
    BY DEF OldKeys
  <2> HIDE DEF b
  <2>3. tree'[r] \in Manifest /\ tree'[r].db = tree[r].db
    BY <2>1, <2>2 DEF Manifest
  <2> QED
    BY <2>3, NotNone
<1>3. tree' \in [Readers -> Manifest \cup {None}]
  BY <1>2 DEF OldKeys
<1>4. FilesInv'
  BY <1>1 DEF IInv, FilesInv, IdsKnown, OwnerOK, DataOK, CutoverOK, Active
<1> QED
  BY <1>2, <1>3, <1>4 DEF AllTrees

LEMMA DropKeysInv == ASSUME IInv, DropKeys PROVE IInv'
<1>0. /\ pc = "drop_keys" /\ pc' = "close" /\ cur' = cur /\ cmd' = cmd /\ tree' = OldKeys
      /\ UNCHANGED <<world, work, attempt, state, journal, history, migrated, excused, lastId, runs, faults>>
  BY DEF DropKeys, At, To, Go, Quiet
<1>a. tree' \in [Readers -> Manifest \cup {None}] /\ FilesInv'
  BY <1>0, OldKeysOK DEF world
<1>1. TypeOK'
  BY <1>0, <1>a DEF IInv, TypeOK, world, Effects, Unguarded
<1>2. RunInv'
  BY <1>0 DEF IInv, world, RunInv, PlaceOK, JournalOK, InstallOK, TryOK, UninstallOK, HandlerOK,
              Trying, Installing, Cleaning, RollingBack, UninstallEffects
<1>3. ServedOK'
  BY <1>0 DEF IInv, ServedOK, ReadersStayServed, world
<1> QED
  BY <1>a, <1>1, <1>2, <1>3 DEF IInv

LEMMA CloseInv == ASSUME IInv, Close PROVE IInv'
<1>0. /\ pc = "close" /\ Go(Raised, cur)
      /\ attempt' = [id |-> cur.id, status |-> IF cur.errors THEN "cleanup-failed" ELSE "cleaned"]
      /\ UNCHANGED <<world, tree, work, state, journal, history, migrated, excused, lastId, runs, faults>>
  BY DEF Close, At, To, Quiet
<1>a. /\ cmd \in {"install", "migrate"} /\ cur.id = lastId /\ lastId \in Nat
      /\ attempt # None /\ attempt.id = lastId /\ ~cur.installed
      /\ Active => state.id = lastId
      /\ cur.errors \/ hub = None
  BY <1>0 DEF IInv, TypeOK, RunInv, InstallOK, PlaceOK, Cleaning, Active
<1>b. /\ attempt' \in Attempt /\ attempt'.id = lastId
      /\ cur.errors => attempt'.status = "cleanup-failed"
  BY <1>0, <1>a DEF Attempt
<1>c. attempt' # None
  BY <1>b, NotNone
<1>d. ASSUME cmd = "migrate" PROVE RunInv' /\ ServedOK'
  <2>1. pc' = "handle" /\ cmd' = cmd /\ cur' = cur
    BY <1>0, <1>d DEF Raised, Go
  <2>2. ServedOK'
    BY <1>d, <2>1 DEF ServedOK, ReadersStayServed
  <2>3. RunInv'
    <3>1. PlaceOK' /\ JournalOK'
      BY <1>0, <1>a, <1>d, <2>1 DEF IInv, RunInv, PlaceOK, JournalOK, world, disk, Trying, Installing, Cleaning, RollingBack, UninstallEffects
    <3>2. InstallOK'
      BY <1>0, <1>a, <1>d, <2>1 DEF IInv, RunInv, PlaceOK, InstallOK, AllTrees, Active, world, disk, Trying, Installing, Cleaning, RollingBack, UninstallEffects
    <3>3. TryOK'
      BY <1>0, <1>a, <1>d, <2>1 DEF IInv, RunInv, PlaceOK, TryOK, Kept, Active, world, disk, Trying, Installing, Cleaning, RollingBack, UninstallEffects
    <3>4. UninstallOK' /\ HandlerOK'
      BY <1>0, <1>a, <1>d, <2>1 DEF IInv, RunInv, PlaceOK, UninstallOK, HandlerOK, Active, world, disk, Trying, Installing, Cleaning, RollingBack, UninstallEffects
    <3> QED
      BY <3>1, <3>2, <3>3, <3>4 DEF RunInv
  <2> QED
    BY <2>2, <2>3
<1>e. ASSUME cmd = "install" PROVE RunInv' /\ ServedOK'
  <2>1. Stop
    BY <1>0, <1>e DEF Raised, Go
  <2>2. ServedOK'
    BY <1>0, <1>e, <2>1, LeaveInstall DEF IInv, Stop, world
  <2> QED
    BY <2>1, <2>2, StopInv
<1>1. TypeOK'
  <2>1. Raised \in Effects \cup {"idle"} /\ cur \in Local /\ cmd # "idle"
    BY <1>a DEF Raised, Effects, Unguarded, IInv, TypeOK
  <2> QED
    BY <1>0, <1>b, <2>1, GoType DEF IInv, TypeOK, world
<1>2. FilesInv'
  BY <1>0, <1>a, <1>b, <1>c DEF IInv, FilesInv, IdsKnown, OwnerOK, DataOK, CutoverOK, Active, AllTrees, Kept, world, disk
<1>3. RunInv'
  BY <1>a, <1>d, <1>e
<1>4. ServedOK'
  BY <1>a, <1>d, <1>e
<1> QED
  BY <1>1, <1>2, <1>3, <1>4 DEF IInv

-----------------------------------------------------------------------------
(* uninstall, and where it is entered.                                      *)

\* The hub that runs can be uninstalled; there is none of a state that is.
LEMMA ActiveAllowed ==
    ASSUME TypeOK, FilesInv, Settled PROVE UninstallAllowed
BY DEF Settled, FilesInv, OwnerOK, Active, UninstallAllowed, CommittedAttempt, TypeOK, State

LEMMA AllowedHub ==
    ASSUME FilesInv, UninstallAllowed, state.status = "uninstalled" PROVE hub = None
BY DEF FilesInv, OwnerOK, UninstallAllowed, CommittedAttempt

\* What follows uninstall.
LEMMA UninstalledInv ==
    ASSUME IInv, pc \in {"finish", "reconcile", "enter_uninstall"}, Go(Uninstalled, cur),
           hub' = None, state' # None, UNCHANGED <<up, journal, excused>>,
           pc = "enter_uninstall" => cmd = "rollback"
    PROVE  RunInv' /\ ServedOK'
<1>1. cmd \in {"uninstall", "migrate", "rollback"}
  BY DEF IInv, RunInv, PlaceOK, UninstallEffects
<1>2. ASSUME cmd = "uninstall" PROVE RunInv' /\ ServedOK'
  <2>1. Stop
    BY <1>2 DEF Go, Uninstalled
  <2>2. ServedOK'
    BY <1>2, <2>1 DEF IInv, ServedOK, ReadersStayServed, Stop
  <2> QED
    BY <2>1, <2>2, StopInv
<1>3. ASSUME cmd = "migrate" PROVE RunInv' /\ ServedOK'
  <2>1. pc' = "fail" /\ cmd' = cmd /\ cur' = cur
    BY <1>3 DEF Go, Uninstalled
  <2>2. ServedOK'
    BY <1>3, <2>1 DEF ServedOK, ReadersStayServed
  <2>3. ~cur.unclean /\ journal # None /\ journal.status \in {"prepared", "copying", "failed"}
    BY <1>3 DEF IInv, RunInv, HandlerOK, JournalOK
  <2>4. RunInv'
    BY <1>3, <2>1, <2>3
       DEF RunInv, PlaceOK, JournalOK, InstallOK, TryOK, UninstallOK, HandlerOK,
           Trying, Installing, Cleaning, RollingBack, UninstallEffects
  <2> QED
    BY <2>2, <2>4
<1>4. ASSUME cmd = "rollback" PROVE RunInv' /\ ServedOK'
  <2>1. /\ pc' = (IF journal.initial = {} THEN "roll_back_state" ELSE "restart")
        /\ cmd' = cmd /\ cur' = cur
    BY <1>4 DEF Go, Uninstalled, RestartPlan
  <2>2. ServedOK'
    BY <1>4, <2>1 DEF ServedOK, ReadersStayServed
  <2>3. /\ journal # None /\ journal.status = "committed"
        /\ journal.initial \subseteq up \cup cur.left /\ cur.left \subseteq Sources
    BY <1>4 DEF IInv, RunInv, HandlerOK, JournalOK
  <2>4. CASE journal.initial = {}
    BY <1>4, <2>1, <2>2, <2>3, <2>4
       DEF RunInv, PlaceOK, JournalOK, InstallOK, TryOK, UninstallOK, HandlerOK,
           Trying, Installing, Cleaning, RollingBack, UninstallEffects
  <2>5. CASE journal.initial # {}
    BY <1>4, <2>1, <2>2, <2>3, <2>5
       DEF RunInv, PlaceOK, JournalOK, InstallOK, TryOK, UninstallOK, HandlerOK,
           Trying, Installing, Cleaning, RollingBack, UninstallEffects
  <2> QED
    BY <2>4, <2>5
<1> QED
  BY <1>1, <1>2, <1>3, <1>4

LEMMA UninstalledType ==
    ASSUME IInv PROVE Uninstalled \in Effects \cup {"idle"}
BY DEF Uninstalled, RestartPlan, Effects, Unguarded

LEMMA MarkInv == ASSUME IInv, Mark PROVE IInv'
<1>0. /\ pc = "mark" /\ pc' = "down" /\ cur' = cur /\ cmd' = cmd
      /\ state' = [state EXCEPT !.status = "uninstalling"]
      /\ UNCHANGED <<world, tree, work, attempt, journal, history, migrated, excused, lastId, runs, faults>>
  BY DEF Mark, At, To, Go, Quiet
<1>a. Active
  BY <1>0 DEF IInv, RunInv, UninstallOK
<1>b. state' \in State /\ state'.id = state.id /\ state'.status = "uninstalling"
  BY <1>0, <1>a DEF IInv, TypeOK, State, Active
<1>c. state' # None /\ cmd \in {"uninstall", "migrate", "rollback"}
  BY <1>0, <1>b, NotNone DEF IInv, RunInv, PlaceOK, UninstallEffects
<1>1. TypeOK'
  BY <1>0, <1>b DEF IInv, TypeOK, world, disk, Effects, Unguarded, InstallEffects, TryEffects, UninstallEffects
<1>2. FilesInv'
  BY <1>0, <1>a, <1>b, <1>c DEF IInv, FilesInv, IdsKnown, OwnerOK, DataOK, CutoverOK, Active, AllTrees, Kept, world, disk
<1>3. RunInv'
  BY <1>0, <1>b, <1>c DEF IInv, world, disk, RunInv, PlaceOK, JournalOK, InstallOK, TryOK, UninstallOK, HandlerOK,
           Trying, Installing, Cleaning, RollingBack, UninstallEffects, Kept, Active, AllTrees
<1>4. ServedOK'
  BY <1>0, <1>c DEF IInv, ServedOK, ReadersStayServed, world, disk
<1> QED
  BY <1>1, <1>2, <1>3, <1>4 DEF IInv

LEMMA DownInv == ASSUME IInv, Down PROVE IInv'
<1>0. /\ pc = "down" /\ pc' = "drop_credentials" /\ cur' = cur /\ cmd' = cmd /\ hub' = None
      /\ UNCHANGED <<up, src, disk, migrated, excused, lastId, runs, faults>>
  BY DEF Down, At, To, Go, Quiet
<1>a. /\ ~Active /\ state # None /\ cmd \in {"uninstall", "migrate", "rollback"}
  BY <1>0 DEF IInv, RunInv, UninstallOK, PlaceOK, UninstallEffects, Active
<1>1. TypeOK'
  BY <1>0 DEF IInv, TypeOK, world, disk, Effects, Unguarded, InstallEffects, TryEffects, UninstallEffects
<1>2. FilesInv'
  BY <1>0, <1>a DEF IInv, FilesInv, IdsKnown, OwnerOK, DataOK, CutoverOK, Active, AllTrees, Kept, world, disk
<1>3. RunInv'
  BY <1>0, <1>a DEF IInv, world, disk, RunInv, PlaceOK, JournalOK, InstallOK, TryOK, UninstallOK, HandlerOK,
           Trying, Installing, Cleaning, RollingBack, UninstallEffects, Kept, Active, AllTrees
<1>4. ServedOK'
  BY <1>0, <1>a DEF IInv, ServedOK, ReadersStayServed, world, disk
<1> QED
  BY <1>1, <1>2, <1>3, <1>4 DEF IInv

LEMMA DropCredentialsInv == ASSUME IInv, DropCredentials PROVE IInv'
<1>0. /\ pc = "drop_credentials" /\ pc' = "finish" /\ cur' = cur /\ cmd' = cmd
      /\ tree' = [r \in Readers |-> IF tree[r] = None THEN None ELSE [tree[r] EXCEPT !.key = FALSE]]
      /\ UNCHANGED <<world, work, attempt, state, journal, history, migrated, excused, lastId, runs, faults>>
  BY DEF DropCredentials, At, To, Go, Quiet
<1>a. hub = None
  BY <1>0 DEF IInv, RunInv, UninstallOK
<1>b. tree' \in [Readers -> Manifest \cup {None}]
  <2>1. ASSUME NEW r \in Readers, tree[r] # None PROVE [tree[r] EXCEPT !.key = FALSE] \in Manifest
    BY <2>1 DEF IInv, TypeOK, Manifest
  <2> QED
    BY <1>0, <2>1
<1>1. TypeOK'
  BY <1>0, <1>b DEF IInv, TypeOK, world, disk, Effects, Unguarded, InstallEffects, TryEffects, UninstallEffects
<1>2. FilesInv'
  BY <1>0, <1>a DEF IInv, FilesInv, IdsKnown, OwnerOK, DataOK, CutoverOK, Active, AllTrees, Kept, world, disk
<1>3. RunInv'
  BY <1>0, <1>a DEF IInv, world, disk, RunInv, PlaceOK, JournalOK, InstallOK, TryOK, UninstallOK, HandlerOK,
           Trying, Installing, Cleaning, RollingBack, UninstallEffects, Kept, Active, AllTrees
<1>4. ServedOK'
  BY <1>0, <1>a DEF IInv, ServedOK, ReadersStayServed, world, disk
<1> QED
  BY <1>1, <1>2, <1>3, <1>4 DEF IInv

LEMMA FinishInv == ASSUME IInv, Finish PROVE IInv'
<1>0. /\ pc = "finish" /\ Go(IF attempt = None THEN Uninstalled ELSE "reconcile", cur)
      /\ state' = [state EXCEPT !.status = "uninstalled"]
      /\ UNCHANGED <<world, tree, work, attempt, journal, history, migrated, excused, lastId, runs, faults>>
  BY DEF Finish, At, To, Quiet
<1>a. hub = None /\ state # None /\ cmd \in {"uninstall", "migrate", "rollback"}
  BY <1>0 DEF IInv, RunInv, UninstallOK, PlaceOK, UninstallEffects
<1>b. state' \in State /\ state'.id = state.id /\ state'.status = "uninstalled"
  BY <1>0, <1>a DEF IInv, TypeOK, State
<1>c. state' # None
  BY <1>b, NotNone
<1>d. ASSUME attempt # None PROVE RunInv' /\ ServedOK'
  <2>1. pc' = "reconcile" /\ cur' = cur /\ cmd' = cmd
    BY <1>0, <1>d DEF Go
  <2>2. ServedOK'
    BY <1>0, <1>a, <2>1 DEF IInv, ServedOK, ReadersStayServed, world
  <2>3. RunInv'
    <3>1. PlaceOK' /\ JournalOK'
      BY <1>0, <1>a, <1>c, <2>1 DEF IInv, RunInv, PlaceOK, JournalOK, world, disk, Trying, Installing, Cleaning, RollingBack, UninstallEffects
    <3>2. InstallOK'
      BY <1>0, <1>a, <1>c, <2>1 DEF IInv, RunInv, PlaceOK, InstallOK, AllTrees, Active, world, disk, Trying, Installing, Cleaning, RollingBack, UninstallEffects
    <3>3. TryOK'
      BY <1>0, <1>a, <1>c, <2>1 DEF IInv, RunInv, PlaceOK, TryOK, Kept, Active, world, disk, Trying, Installing, Cleaning, RollingBack, UninstallEffects
    <3>4. UninstallOK' /\ HandlerOK'
      BY <1>0, <1>a, <1>c, <2>1 DEF IInv, RunInv, PlaceOK, UninstallOK, HandlerOK, Active, world, disk, Trying, Installing, Cleaning, RollingBack, UninstallEffects
    <3> QED
      BY <3>1, <3>2, <3>3, <3>4 DEF RunInv
  <2> QED
    BY <2>2, <2>3
<1>e. ASSUME attempt = None PROVE RunInv' /\ ServedOK'
  BY <1>0, <1>a, <1>c, <1>e, UninstalledInv DEF world
<1>1. TypeOK'
  <2>1. (IF attempt = None THEN Uninstalled ELSE "reconcile") \in Effects \cup {"idle"}
    BY UninstalledType DEF Effects, Unguarded, UninstallEffects
  <2>2. cur \in Local /\ cmd # "idle"
    BY <1>a DEF IInv, TypeOK
  <2> QED
    BY <1>0, <1>b, <2>1, <2>2, GoType DEF IInv, TypeOK, world
<1>2. FilesInv'
  BY <1>0, <1>a, <1>b, <1>c DEF IInv, FilesInv, IdsKnown, OwnerOK, DataOK, CutoverOK, Active, AllTrees, Kept, world, disk
<1>3. RunInv'
  BY <1>d, <1>e
<1>4. ServedOK'
  BY <1>d, <1>e
<1> QED
  BY <1>1, <1>2, <1>3, <1>4 DEF IInv

LEMMA ReconcileInv == ASSUME IInv, Reconcile PROVE IInv'
<1>0. /\ pc = "reconcile" /\ Go(Uninstalled, cur) /\ attempt' = None
      /\ UNCHANGED <<world, tree, work, state, journal, history, migrated, excused, lastId, runs, faults>>
  BY DEF Reconcile, At, To, Quiet
<1>a. hub = None /\ state # None /\ cmd \in {"uninstall", "migrate", "rollback"}
  BY <1>0 DEF IInv, RunInv, UninstallOK, PlaceOK, UninstallEffects
<1>b. RunInv' /\ ServedOK'
  BY <1>0, <1>a, UninstalledInv DEF world
<1>1. TypeOK'
  <2>1. cur \in Local /\ cmd # "idle"
    BY <1>a DEF IInv, TypeOK
  <2> QED
    BY <1>0, <2>1, GoType, UninstalledType DEF IInv, TypeOK, world
<1>2. FilesInv'
  BY <1>0, <1>a DEF IInv, FilesInv, IdsKnown, OwnerOK, DataOK, CutoverOK, Active, AllTrees, Kept, world, disk
<1>3. RunInv'
  BY <1>b
<1>4. ServedOK'
  BY <1>b
<1> QED
  BY <1>1, <1>2, <1>3, <1>4 DEF IInv

\* What the beginning of a command leaves.
LEMMA BeginType ==
    ASSUME TypeOK, NEW c \in {"install", "uninstall", "migrate", "rollback"}, Begin(c)
    PROVE  runs' \in 0 .. MaxRuns /\ excused' \in BOOLEAN /\ cmd' = c /\ cmd = "idle"
<1>1. runs' \in 0 .. MaxRuns
  BY BoundsAssumption DEF Begin, TypeOK
<1>2. excused' \in BOOLEAN
  BY DEF Begin
<1> QED
  BY <1>1, <1>2 DEF Begin

LEMMA NoLocalType ==
    /\ NoLocal \in Local /\ ~NoLocal.started /\ ~NoLocal.installed /\ ~NoLocal.unclean
    /\ NoLocal.copied = NoCopies
BY DEF NoLocal, Local, NoCopies

\* What uninstall begins with.
LEMMA PlanOK ==
    ASSUME TypeOK, FilesInv, UninstallAllowed, NEW after
    PROVE  /\ state # None
           /\ UninstallPlan(after) \in {"mark", "down", "reconcile", after}
           /\ state.status = "installed" => UninstallPlan(after) = "mark" /\ Active
           /\ state.status = "uninstalling" => UninstallPlan(after) = "down"
           /\ state.status = "uninstalled" =>
                hub = None /\ UninstallPlan(after) = (IF attempt = None THEN after ELSE "reconcile")
           /\ state.status \in {"installed", "uninstalling", "uninstalled"}
BY AllowedHub DEF UninstallPlan, UninstallAllowed, Active

LEMMA UninstallInv == ASSUME IInv, Uninstall PROVE IInv'
<1>0. /\ Begin("uninstall") /\ UninstallAllowed
      /\ pc' = UninstallPlan("idle") /\ pc' # "idle" /\ cur' = NoLocal
      /\ UNCHANGED <<world, disk, migrated, lastId, faults>>
  BY DEF Uninstall
<1>a. runs' \in 0 .. MaxRuns /\ excused' = TRUE /\ cmd' = "uninstall"
  BY <1>0, BeginType DEF IInv, Begin
<1>b. /\ pc' \in {"mark", "down", "reconcile"} /\ state # None
      /\ pc' = "mark" => Active
      /\ pc' = "down" => state.status = "uninstalling"
      /\ pc' = "reconcile" => hub = None
  BY <1>0, PlanOK DEF IInv
<1>1. TypeOK'
  BY <1>0, <1>a, <1>b, NoLocalType DEF IInv, TypeOK, world, disk, Effects, Unguarded, InstallEffects, TryEffects, UninstallEffects
<1>2. FilesInv'
  BY <1>0 DEF IInv, FilesInv, IdsKnown, OwnerOK, DataOK, CutoverOK, Active, AllTrees, Kept, world, disk
<1>3. RunInv'
  BY <1>0, <1>a, <1>b DEF IInv, world, disk, RunInv, PlaceOK, JournalOK, InstallOK, TryOK, UninstallOK, HandlerOK,
           Trying, Installing, Cleaning, RollingBack, UninstallEffects, Kept, Active, AllTrees
<1>4. ServedOK'
  BY <1>0, <1>a DEF IInv, ServedOK, ReadersStayServed, world, disk
<1> QED
  BY <1>1, <1>2, <1>3, <1>4 DEF IInv

LEMMA EnterUninstallInv == ASSUME IInv, EnterUninstall PROVE IInv'
<1>0. /\ pc = "enter_uninstall"
      /\ IF UninstallAllowed THEN Go(UninstallPlan(Uninstalled), cur)
         ELSE IF cmd = "migrate" THEN Go("fail", [cur EXCEPT !.unclean = TRUE]) ELSE Stop
      /\ UNCHANGED <<world, disk, migrated, excused, lastId, runs, faults>>
  BY DEF EnterUninstall, At, To, Quiet
<1>a. /\ cmd \in {"migrate", "rollback"}
      /\ cmd = "migrate" => Settled
      /\ cmd = "rollback" => journal # None /\ journal.status = "committed"
  BY <1>0 DEF IInv, RunInv, PlaceOK, UninstallOK, JournalOK
<1>b. cmd = "migrate" => UninstallAllowed
  BY <1>a, ActiveAllowed DEF IInv
<1>c. ASSUME UninstallAllowed PROVE RunInv' /\ ServedOK'
  <2>1. Go(UninstallPlan(Uninstalled), cur) /\ state # None
    BY <1>0, <1>c, PlanOK DEF IInv
  <2>2. CASE state.status = "uninstalled" /\ attempt = None
    <3>1. hub = None /\ UninstallPlan(Uninstalled) = Uninstalled /\ ~Active
      BY <1>c, <2>2, PlanOK DEF IInv, Active
    <3>2. cmd = "rollback"
      BY <1>a, <3>1 DEF Settled
    <3> QED
      BY <1>0, <2>1, <3>1, <3>2, UninstalledInv DEF world, disk
  <2>3. CASE ~(state.status = "uninstalled" /\ attempt = None)
    <3>1. /\ UninstallPlan(Uninstalled) \in {"mark", "down", "reconcile"}
          /\ UninstallPlan(Uninstalled) = "mark" => Active
          /\ UninstallPlan(Uninstalled) = "down" => state.status = "uninstalling"
          /\ UninstallPlan(Uninstalled) = "reconcile" => hub = None
      BY <1>c, <2>3, PlanOK DEF IInv
    <3>2. pc' = UninstallPlan(Uninstalled) /\ cur' = cur /\ cmd' = cmd
      BY <2>1, <3>1 DEF Go
    <3>3. ServedOK'
      BY <1>a, <3>2 DEF ServedOK, ReadersStayServed
    <3>4. RunInv'
      <4>1. PlaceOK' /\ JournalOK'
        BY <1>0, <1>a, <2>1, <3>1, <3>2 DEF IInv, RunInv, PlaceOK, JournalOK, world, disk, Trying, Installing, Cleaning, RollingBack, UninstallEffects
      <4>2. InstallOK'
        BY <1>0, <1>a, <2>1, <3>1, <3>2 DEF IInv, RunInv, PlaceOK, InstallOK, AllTrees, Active, world, disk, Trying, Installing, Cleaning, RollingBack, UninstallEffects
      <4>3. TryOK'
        BY <1>0, <1>a, <2>1, <3>1, <3>2 DEF IInv, RunInv, PlaceOK, TryOK, Kept, Active, world, disk, Trying, Installing, Cleaning, RollingBack, UninstallEffects
      <4>4. UninstallOK' /\ HandlerOK'
        BY <1>0, <1>a, <2>1, <3>1, <3>2 DEF IInv, RunInv, PlaceOK, UninstallOK, HandlerOK, Active, world, disk, Trying, Installing, Cleaning, RollingBack, UninstallEffects
      <4> QED
        BY <4>1, <4>2, <4>3, <4>4 DEF RunInv
    <3> QED
      BY <3>3, <3>4
  <2> QED
    BY <2>2, <2>3
<1>d. ASSUME ~UninstallAllowed PROVE RunInv' /\ ServedOK'
  <2>1. Stop /\ cmd = "rollback"
    BY <1>0, <1>a, <1>b, <1>d
  <2>2. ServedOK'
    BY <1>0, <1>a, <2>1 DEF ServedOK, ReadersStayServed, Stop, disk
  <2> QED
    BY <2>1, <2>2, StopInv
<1>1. TypeOK'
  <2>1. cur \in Local /\ cmd # "idle"
    BY <1>a DEF IInv, TypeOK
  <2>2. CASE UninstallAllowed
    <3>1. UninstallPlan(Uninstalled) \in Effects \cup {"idle"}
      BY <2>2, PlanOK, UninstalledType DEF IInv, Effects, Unguarded, UninstallEffects
    <3> QED
      BY <1>0, <2>1, <2>2, <3>1, GoType DEF IInv, TypeOK, world, disk
  <2>3. CASE ~UninstallAllowed
    BY <1>0, <1>a, <1>b, <2>3, StopType DEF IInv, TypeOK, world, disk
  <2> QED
    BY <2>2, <2>3
<1>2. FilesInv'
  BY <1>0 DEF IInv, FilesInv, IdsKnown, OwnerOK, DataOK, CutoverOK, Active, AllTrees, Kept, world, disk
<1>3. RunInv'
  BY <1>c, <1>d
<1>4. ServedOK'
  BY <1>c, <1>d
<1> QED
  BY <1>1, <1>2, <1>3, <1>4 DEF IInv

-----------------------------------------------------------------------------
(* The handler of migrate.                                                  *)

LEMMA HandleInv == ASSUME IInv, Handle PROVE IInv'
<1>0. /\ pc = "handle"
      /\ IF cur.installed THEN Go("enter_uninstall", cur)
                          ELSE Go("fail", [cur EXCEPT !.unclean = hub # None])
      /\ UNCHANGED <<world, disk, migrated, excused, lastId, runs, faults>>
  BY DEF Handle, At, To, Quiet
<1>a. cmd = "migrate" /\ journal # None /\ journal.status \in {"prepared", "copying", "failed"}
  BY <1>0 DEF IInv, RunInv, PlaceOK, JournalOK
<1>b. CASE cur.installed
  <2>1. pc' = "enter_uninstall" /\ cur' = cur /\ cmd' = cmd
    BY <1>0, <1>b DEF Go
  <2>2. TypeOK'
    BY <1>0, <2>1 DEF IInv, TypeOK, world, disk, Effects, Unguarded
  <2>3. RunInv'
    <3>1. PlaceOK' /\ JournalOK'
      BY <1>0, <1>a, <1>b, <2>1 DEF IInv, RunInv, PlaceOK, JournalOK, world, disk, Trying, Installing, Cleaning, RollingBack, UninstallEffects
    <3>2. InstallOK'
      BY <1>0, <1>a, <1>b, <2>1 DEF IInv, RunInv, PlaceOK, InstallOK, AllTrees, Active, world, disk, Trying, Installing, Cleaning, RollingBack, UninstallEffects
    <3>3. TryOK'
      BY <1>0, <1>a, <1>b, <2>1 DEF IInv, RunInv, PlaceOK, TryOK, Kept, Active, world, disk, Trying, Installing, Cleaning, RollingBack, UninstallEffects
    <3>4. UninstallOK' /\ HandlerOK'
      BY <1>0, <1>a, <1>b, <2>1 DEF Settled, IInv, RunInv, PlaceOK, UninstallOK, HandlerOK, Active, world, disk, Trying, Installing, Cleaning, RollingBack, UninstallEffects
    <3> QED
      BY <3>1, <3>2, <3>3, <3>4 DEF RunInv
  <2>4. ServedOK'
    BY <1>a, <2>1 DEF ServedOK, ReadersStayServed
  <2> QED
    BY <2>2, <2>3, <2>4, <1>0, FilesFrame DEF IInv, world, disk
<1>c. CASE ~cur.installed
  <2> DEFINE there == hub # None
  <2>1. pc' = "fail" /\ cur' = [cur EXCEPT !.unclean = there] /\ cmd' = cmd
    BY <1>0, <1>c DEF Go
  <2>a. there \in BOOLEAN /\ cur \in Local
    BY DEF IInv, TypeOK
  <2> HIDE DEF there
  <2>b. cur' \in Local
    BY <2>1, <2>a, Locals
  <2>c. cur'.unclean = there
    BY <2>1, <2>a DEF Local
  <2>d. cur'.unclean = (hub # None)
    BY <2>c DEF there
  <2>2. TypeOK'
    BY <1>0, <2>1, <2>b DEF IInv, TypeOK, world, disk, Effects, Unguarded
  <2>3. RunInv'
    BY <1>0, <1>a, <2>1, <2>d
       DEF IInv, RunInv, PlaceOK, JournalOK, InstallOK, TryOK, UninstallOK, HandlerOK, world, disk,
           Trying, Installing, Cleaning, RollingBack, UninstallEffects
  <2>4. ServedOK'
    BY <1>a, <2>1 DEF ServedOK, ReadersStayServed
  <2> QED
    BY <2>2, <2>3, <2>4, <1>0, FilesFrame DEF IInv, world, disk
<1> QED
  BY <1>b, <1>c

\* What follows the journal of a failure, made or not.
LEMMA AfterFailInv ==
    ASSUME IInv, pc = "fail", Go(AfterFail, Restarting), UNCHANGED <<up, hub, state>>,
           journal' # None, journal'.initial = journal.initial,
           journal'.status \in {"prepared", "copying", "failed"},
           excused' \/ UNCHANGED excused
    PROVE  RunInv' /\ ServedOK'
<1>1. cmd = "migrate" /\ (~cur.unclean => hub = None) /\ (cur.unclean /\ ~excused => hub # None)
  BY DEF IInv, RunInv, PlaceOK, HandlerOK
<1>2. CASE cur.unclean
  <2>1. Stop
    BY <1>2 DEF Go, AfterFail
  <2>2. ServedOK'
    BY <1>1, <1>2, <2>1 DEF ServedOK, ReadersStayServed, Stop
  <2> QED
    BY <2>1, <2>2, StopInv
<1>3. CASE ~cur.unclean /\ journal.initial = {}
  <2>1. Stop
    BY <1>3 DEF Go, AfterFail, RestartPlan
  <2>2. ServedOK'
    BY <1>3, <2>1 DEF ServedOK, ReadersStayServed, Stop
  <2> QED
    BY <2>1, <2>2, StopInv
<1>4. CASE ~cur.unclean /\ journal.initial # {}
  <2>1. pc' = "restart" /\ cmd' = cmd /\ cur' = [cur EXCEPT !.left = journal.initial]
    BY <1>4 DEF Go, AfterFail, RestartPlan, Restarting
  <2>2. cur'.left = journal.initial /\ journal.initial \subseteq Sources
    BY <1>1, <2>1 DEF IInv, TypeOK, Local, RunInv, JournalOK, Journal
  <2>3. ServedOK'
    BY <1>1, <2>1 DEF ServedOK, ReadersStayServed
  <2>4. RunInv'
    BY <1>1, <1>4, <2>1, <2>2
       DEF IInv, RunInv, PlaceOK, JournalOK, InstallOK, TryOK, UninstallOK, HandlerOK,
           Trying, Installing, Cleaning, RollingBack, UninstallEffects
  <2> QED
    BY <2>3, <2>4
<1> QED
  BY <1>2, <1>3, <1>4

LEMMA AfterFailType ==
    ASSUME IInv, pc = "fail"
    PROVE  AfterFail \in Effects \cup {"idle"} /\ Restarting \in Local /\ journal # None
<1>1. journal # None /\ journal \in Journal /\ cur \in Local
  BY DEF IInv, TypeOK, RunInv, PlaceOK, JournalOK
<1>2. journal.initial \in SUBSET (Readers \cup Sources)
  BY <1>1 DEF Journal
<1>3. Restarting \in Local
  BY <1>1, <1>2, Locals DEF Restarting
<1> QED
  BY <1>1, <1>3 DEF AfterFail, RestartPlan, Effects, Unguarded

LEMMA FailInv == ASSUME IInv, Fail PROVE IInv'
<1>0. /\ pc = "fail" /\ Go(AfterFail, Restarting)
      /\ journal' = [journal EXCEPT !.status = "failed", !.copied = cur.copied]
      /\ UNCHANGED <<world, tree, work, attempt, state, history, migrated, excused, lastId, runs, faults>>
  BY DEF Fail, At, SaveJournal, Quiet
<1>a. /\ journal' \in Journal /\ journal'.initial = journal.initial /\ journal'.status = "failed"
  BY <1>0, AfterFailType DEF IInv, TypeOK, Journal, Local
<1>b. journal' # None
  BY <1>a, NotNone
<1>c. cmd # "idle"
  BY <1>0, Running
<1>d. RunInv' /\ ServedOK'
  BY <1>0, <1>a, <1>b, AfterFailInv DEF world
<1>1. TypeOK'
  BY <1>0, <1>a, <1>c, AfterFailType, GoType DEF IInv, TypeOK, world
<1>2. FilesInv'
  BY <1>0, <1>a, FilesFrame DEF IInv, world
<1>3. RunInv'
  BY <1>d
<1>4. ServedOK'
  BY <1>d
<1> QED
  BY <1>1, <1>2, <1>3, <1>4 DEF IInv

-----------------------------------------------------------------------------
(* The sources are restarted.                                               *)

LEMMA RestartInv == ASSUME IInv, Restart PROVE IInv'
<1>1. PICK s \in cur.left :
         /\ pc = "restart" /\ up' = up \cup {s}
         /\ Go(Onward(s, "restart", Restarted), Done(cur, s))
         /\ UNCHANGED <<src, hub, disk, migrated, excused, lastId, runs, faults>>
  BY DEF Restart, At, Quiet
<1>2. /\ cmd \in {"migrate", "rollback"} /\ journal # None
      /\ hub = None \/ journal.status = "rolled_back"
      /\ journal.initial \subseteq up \cup cur.left /\ cur.left \subseteq Sources
      /\ cmd = "migrate" => journal.status \in {"prepared", "copying", "failed"}
      /\ cmd = "rollback" => journal.status \in {"committed", "rolled_back"}
      /\ journal.status = "committed" => state # None
  BY <1>1 DEF IInv, RunInv, PlaceOK, JournalOK, HandlerOK
<1>3. /\ Done(cur, s) \in Local /\ Done(cur, s).left = cur.left \ {s}
      /\ Restarted \in {"idle", "roll_back_state"} /\ cur \in Local
  <2>1. cur \in Local
    BY DEF IInv, TypeOK
  <2>2. cur.left \ {s} \in SUBSET (Readers \cup Sources)
    BY <2>1 DEF Local
  <2>3. Done(cur, s) = [cur EXCEPT !.left = cur.left \ {s}]
    BY <2>1 DEF Done, Local
  <2>4. Restarted \in {"idle", "roll_back_state"}
    BY DEF Restarted
  <2>5. [cur EXCEPT !.left = cur.left \ {s}] \in Local
    BY <2>1, <2>2, Locals
  <2>6. [cur EXCEPT !.left = cur.left \ {s}].left = cur.left \ {s}
    BY <2>1 DEF Local
  <2> QED
    BY <2>1, <2>3, <2>4, <2>5, <2>6
<1>4. PICK do : /\ Go(do, Done(cur, s)) /\ do = Onward(s, "restart", Restarted)
  BY <1>1
<1>5. /\ do \in {"restart", "idle", "roll_back_state"}
      /\ do # "restart" => cur.left = {s} /\ do = Restarted
  BY <1>3, <1>4 DEF Onward
<1>6. TypeOK'
  <2>1. s \in Sources
    BY <1>1 DEF IInv, RunInv, HandlerOK
  <2> QED
    BY <1>1, <1>2, <1>3, <1>4, <1>5, <2>1, GoType DEF IInv, TypeOK, disk, Effects, Unguarded
<1>7. FilesInv'
  <2>1. ~(Active /\ state.id \in migrated /\ hub # None)
    BY <1>2 DEF IInv, FilesInv, OwnerOK, CutoverOK
  <2> QED
    BY <1>1, <2>1 DEF IInv, FilesInv, IdsKnown, OwnerOK, DataOK, CutoverOK, Active, AllTrees, Kept, disk
<1>8. CASE do = "restart"
  <2>1. pc' = "restart" /\ cmd' = cmd /\ cur' = Done(cur, s)
    BY <1>4, <1>8 DEF Go
  <2>2. RunInv'
    BY <1>1, <1>2, <1>3, <2>1
       DEF RunInv, PlaceOK, JournalOK, InstallOK, TryOK, UninstallOK, HandlerOK, disk,
           Trying, Installing, Cleaning, RollingBack, UninstallEffects
  <2>3. ServedOK'
    BY <1>2, <2>1 DEF ServedOK, ReadersStayServed
  <2> QED
    BY <1>6, <1>7, <2>2, <2>3 DEF IInv
<1>9. CASE do = "roll_back_state"
  <2>1. /\ pc' = "roll_back_state" /\ cmd' = cmd /\ cur' = Done(cur, s)
        /\ cmd = "rollback" /\ journal.status = "committed" /\ cur.left = {s}
    BY <1>4, <1>5, <1>9 DEF Go, Restarted
  <2>2. RunInv'
    BY <1>1, <1>2, <1>3, <2>1
       DEF RunInv, PlaceOK, JournalOK, InstallOK, TryOK, UninstallOK, HandlerOK, disk,
           Trying, Installing, Cleaning, RollingBack, UninstallEffects
  <2>3. ServedOK'
    BY <1>2, <2>1 DEF ServedOK, ReadersStayServed
  <2> QED
    BY <1>6, <1>7, <2>2, <2>3 DEF IInv
<1>10. CASE do = "idle"
  <2>1. Stop /\ cur.left = {s}
    BY <1>4, <1>5, <1>10 DEF Go
  <2>2. ServedOK'
    BY <1>1, <1>2, <2>1 DEF ServedOK, ReadersStayServed, Stop, disk
  <2> QED
    BY <1>6, <1>7, <2>1, <2>2, StopInv DEF IInv
<1> QED
  BY <1>5, <1>8, <1>9, <1>10

-----------------------------------------------------------------------------
(* rollback.                                                                *)

LEMMA RollbackInv == ASSUME IInv, Rollback PROVE IInv'
<1>0. /\ Begin("rollback") /\ journal # None
      /\ \/ journal.status = "committed" /\ pc' = "enter_uninstall"
         \/ journal.status = "rolled_back" /\ pc' = "restart"
      /\ cur' = [NoLocal EXCEPT !.left = journal.initial]
      /\ UNCHANGED <<world, disk, migrated, lastId, faults>>
  BY DEF Rollback
<1>a. runs' \in 0 .. MaxRuns /\ excused' \in BOOLEAN /\ cmd' = "rollback"
  BY <1>0, BeginType DEF IInv
<1>b. cur' \in Local /\ cur'.left = journal.initial /\ journal.initial \subseteq Sources
  <2>1. journal.initial \in SUBSET (Readers \cup Sources)
    BY <1>0 DEF IInv, TypeOK, Journal
  <2>2. cur' \in Local
    BY <1>0, <2>1, NoLocalType, Locals
  <2>3. cur'.left = journal.initial
    BY <1>0, NoLocalType DEF Local
  <2>4. journal.initial \subseteq Sources
    BY <1>0 DEF IInv, TypeOK, Journal
  <2> QED
    BY <2>2, <2>3, <2>4
<1>1. TypeOK'
  BY <1>0, <1>a, <1>b DEF IInv, TypeOK, world, disk, Effects, Unguarded, InstallEffects, TryEffects, UninstallEffects
<1>2. FilesInv'
  BY <1>0 DEF IInv, FilesInv, IdsKnown, OwnerOK, DataOK, CutoverOK, Active, AllTrees, Kept, world, disk
<1>3. RunInv'
  <2>1. PlaceOK' /\ JournalOK'
    BY <1>0, <1>a, <1>b DEF IInv, RunInv, PlaceOK, JournalOK, world, disk, Trying, Installing, Cleaning, RollingBack, UninstallEffects
  <2>2. InstallOK'
    BY <1>0, <1>a, <1>b DEF IInv, RunInv, PlaceOK, InstallOK, AllTrees, Active, world, disk, Trying, Installing, Cleaning, RollingBack, UninstallEffects
  <2>3. TryOK'
    BY <1>0, <1>a, <1>b DEF IInv, RunInv, PlaceOK, TryOK, Kept, Active, world, disk, Trying, Installing, Cleaning, RollingBack, UninstallEffects
  <2>4. UninstallOK' /\ HandlerOK'
    BY <1>0, <1>a, <1>b DEF IInv, RunInv, PlaceOK, UninstallOK, HandlerOK, Active, world, disk, Trying, Installing, Cleaning, RollingBack, UninstallEffects
  <2> QED
    BY <2>1, <2>2, <2>3, <2>4 DEF RunInv
<1>4. ServedOK'
  BY <1>0, <1>a DEF IInv, ServedOK, ReadersStayServed, world, disk
<1> QED
  BY <1>1, <1>2, <1>3, <1>4 DEF IInv

LEMMA RollBackStateInv == ASSUME IInv, RollBackState PROVE IInv'
<1>0. /\ pc = "roll_back_state" /\ pc' = "roll_back_journal" /\ cur' = cur /\ cmd' = cmd
      /\ state' = [state EXCEPT !.status = "rolled_back"]
      /\ UNCHANGED <<world, tree, work, attempt, journal, history, migrated, excused, lastId, runs, faults>>
  BY DEF RollBackState, At, To, Go, Quiet
<1>a. hub = None /\ state # None /\ cmd = "rollback" /\ journal.initial \subseteq up
  BY <1>0 DEF IInv, RunInv, PlaceOK, HandlerOK, RollingBack
<1>b. state' \in State /\ state'.id = state.id /\ state'.status = "rolled_back"
  BY <1>0, <1>a DEF IInv, TypeOK, State
<1>c. state' # None
  BY <1>b, NotNone
<1>1. TypeOK'
  BY <1>0, <1>b DEF IInv, TypeOK, world, disk, Effects, Unguarded, InstallEffects, TryEffects, UninstallEffects
<1>2. FilesInv'
  BY <1>0, <1>a, <1>b, <1>c DEF IInv, FilesInv, IdsKnown, OwnerOK, DataOK, CutoverOK, Active, AllTrees, Kept, world, disk
<1>3. RunInv'
  BY <1>0, <1>a, <1>c DEF IInv, world, disk, RunInv, PlaceOK, JournalOK, InstallOK, TryOK, UninstallOK, HandlerOK,
           Trying, Installing, Cleaning, RollingBack, UninstallEffects, Kept, Active, AllTrees
<1>4. ServedOK'
  BY <1>0, <1>a DEF IInv, ServedOK, ReadersStayServed, world, disk
<1> QED
  BY <1>1, <1>2, <1>3, <1>4 DEF IInv

LEMMA RollBackJournalInv == ASSUME IInv, RollBackJournal PROVE IInv'
<1>0. /\ pc = "roll_back_journal" /\ Stop
      /\ journal' = [journal EXCEPT !.status = "rolled_back"]
      /\ UNCHANGED <<world, tree, work, attempt, state, history, migrated, excused, lastId, runs, faults>>
  BY DEF RollBackJournal, At, To, Go, SaveJournal, Quiet
<1>a. /\ hub = None /\ cmd = "rollback" /\ journal.initial \subseteq up /\ journal # None
  BY <1>0 DEF IInv, RunInv, PlaceOK, HandlerOK, JournalOK, RollingBack
<1>b. journal' \in Journal /\ journal'.initial = journal.initial
  BY <1>0, <1>a DEF IInv, TypeOK, Journal
<1>1. TypeOK'
  BY <1>0, <1>b, StopType DEF IInv, TypeOK, world, disk, Effects, Unguarded, InstallEffects, TryEffects, UninstallEffects
<1>2. FilesInv'
  BY <1>0, <1>a, FilesFrame DEF IInv, world
<1>3. RunInv'
  BY <1>0, StopInv
<1>4. ServedOK'
  BY <1>0, <1>a, <1>b DEF ServedOK, ReadersStayServed, Stop, world
<1> QED
  BY <1>1, <1>2, <1>3, <1>4 DEF IInv

-----------------------------------------------------------------------------
(* migrate: the stop of the sources and the ends.                           *)

LEMMA LeaveInv == ASSUME IInv, Leave PROVE IInv'
<1>0. /\ pc = "leave" /\ pc' = "committed" /\ cur' = cur /\ cmd' = cmd
      /\ UNCHANGED <<world, disk, migrated, excused, lastId, runs, faults>>
  BY DEF Leave, At, To, Go, Quiet
<1>1. TypeOK'
  BY <1>0 DEF IInv, TypeOK, world, disk, Effects, Unguarded, InstallEffects, TryEffects, UninstallEffects
<1>2. FilesInv'
  BY <1>0 DEF IInv, FilesInv, IdsKnown, OwnerOK, DataOK, CutoverOK, Active, AllTrees, Kept, world, disk
<1>3. RunInv'
  BY <1>0 DEF IInv, world, disk, RunInv, PlaceOK, JournalOK, InstallOK, TryOK, UninstallOK, HandlerOK,
           Trying, Installing, Cleaning, RollingBack, UninstallEffects, Kept, Active, AllTrees
<1>4. ServedOK'
  BY <1>0 DEF IInv, ServedOK, ReadersStayServed, world, disk
<1> QED
  BY <1>1, <1>2, <1>3, <1>4 DEF IInv

LEMMA CommittedInv == ASSUME IInv, Committed PROVE IInv'
<1>0. /\ pc = "committed" /\ Stop
      /\ journal' = [journal EXCEPT !.status = "committed"]
      /\ UNCHANGED <<world, tree, work, attempt, state, history, migrated, excused, lastId, runs, faults>>
  BY DEF Committed, At, To, Go, SaveJournal, Quiet
<1>a. journal # None
  BY <1>0 DEF IInv, RunInv, PlaceOK, JournalOK
<1>b. journal' \in Journal /\ journal'.initial = journal.initial /\ journal'.status = "committed"
  BY <1>0, <1>a DEF IInv, TypeOK, Journal
<1>1. TypeOK'
  BY <1>0, <1>b, StopType DEF IInv, TypeOK, world, disk, Effects, Unguarded, InstallEffects, TryEffects, UninstallEffects
<1>2. FilesInv'
  BY <1>0, <1>b, FilesFrame DEF IInv, world
<1>3. RunInv'
  BY <1>0, StopInv
<1>4. ServedOK'
  BY <1>0, <1>b DEF ServedOK, ReadersStayServed, Stop, world
<1> QED
  BY <1>1, <1>2, <1>3, <1>4 DEF IInv

LEMMA CopyingInv == ASSUME IInv, Copying PROVE IInv'
<1>0. /\ pc = "copying" /\ pc' = StopPlan /\ cur' = cur /\ cmd' = cmd
      /\ journal' = [journal EXCEPT !.status = "copying"]
      /\ UNCHANGED <<world, tree, work, attempt, state, history, migrated, excused, lastId, runs, faults>>
  BY DEF Copying, At, To, Go, SaveJournal, StopPlan, Quiet
<1>a. journal # None /\ cmd = "migrate" /\ ~cur.started /\ ~cur.installed /\ cur.left = Readers /\ ~cur.unclean
  BY <1>0 DEF IInv, RunInv, PlaceOK, JournalOK, TryOK, HandlerOK
<1>b. journal' \in Journal /\ journal'.initial = journal.initial /\ journal'.status = "copying"
  BY <1>0, <1>a DEF IInv, TypeOK, Journal
<1>c. journal' # None
  BY <1>b, NotNone
<1>d. pc' \in {"check", "stop"} /\ (pc' = "check" => up = {})
  BY <1>0 DEF StopPlan
<1>1. TypeOK'
  BY <1>0, <1>b, <1>d DEF IInv, TypeOK, world, disk, Effects, Unguarded, InstallEffects, TryEffects, UninstallEffects
<1>2. FilesInv'
  BY <1>0, <1>b, FilesFrame DEF IInv, world
<1>3. RunInv'
  BY <1>0, <1>a, <1>b, <1>c, <1>d DEF IInv, world, disk, RunInv, PlaceOK, JournalOK, InstallOK, TryOK, UninstallOK, HandlerOK,
           Trying, Installing, Cleaning, RollingBack, UninstallEffects, Kept, Active, AllTrees
<1>4. ServedOK'
  BY <1>0, <1>a DEF ServedOK, ReadersStayServed
<1> QED
  BY <1>1, <1>2, <1>3, <1>4 DEF IInv

LEMMA StopSourceInv == ASSUME IInv, StopSource PROVE IInv'
<1>1. PICK s \in up : /\ pc = "stop" /\ up' = up \ {s}
                      /\ To(IF up' = {} THEN "check" ELSE "stop")
                      /\ UNCHANGED <<src, hub, disk, migrated, excused, lastId, runs, faults>>
  BY DEF StopSource, At, Quiet
<1>2. /\ pc' \in {"check", "stop"} /\ (pc' = "check" => up' = {})
      /\ cur' = cur /\ cmd' = cmd
  BY <1>1 DEF To, Go
<1>3. journal # None /\ cmd = "migrate" /\ ~cur.started /\ ~cur.installed /\ cur.left = Readers /\ ~cur.unclean
  BY <1>1 DEF IInv, RunInv, PlaceOK, JournalOK, TryOK, HandlerOK
<1>4. TypeOK'
  BY <1>1, <1>2 DEF IInv, TypeOK, disk, Effects, Unguarded, TryEffects
<1>5. FilesInv'
  BY <1>1 DEF IInv, FilesInv, IdsKnown, OwnerOK, DataOK, CutoverOK, Active, AllTrees, Kept, disk
<1>6. RunInv'
  BY <1>1, <1>2, <1>3
     DEF IInv, RunInv, PlaceOK, JournalOK, InstallOK, TryOK, UninstallOK, HandlerOK, disk,
         Trying, Installing, Cleaning, RollingBack, UninstallEffects
<1>7. ServedOK'
  BY <1>2, <1>3 DEF ServedOK, ReadersStayServed
<1> QED
  BY <1>4, <1>5, <1>6, <1>7 DEF IInv
-----------------------------------------------------------------------------
(* migrate: the copies.                                                     *)

\* A loop over the readers has one turn at a time.
LEMMA TurnUnique ==
    ASSUME NEW r \in Readers, NEW q \in Readers, Turn(r), Turn(q) PROVE r = q
<1>1. ASSUME NEW x \in Readers PROVE Pos(x) \in DOMAIN ReaderSeq /\ ReaderSeq[Pos(x)] = x
  BY DEF Pos, Readers
<1>2. DOMAIN ReaderSeq \subseteq Nat
  BY ReadersAssumption
<1>3. Pos(r) <= Pos(q) /\ Pos(q) <= Pos(r)
  BY DEF Turn, FirstReader
<1>4. Pos(r) = Pos(q)
  BY <1>1, <1>2, <1>3
<1> QED
  BY <1>1, <1>4

LEMMA SourceTreeOK ==
    ASSUME TypeOK, NEW r \in Readers
    PROVE  /\ SourceTree(r) \in Manifest /\ SourceTree(r) # None
           /\ SourceTree(r).db # None /\ SourceTree(r).db.from = src[r]
<1>1. src[r] \in Nat
  BY BoundsAssumption DEF TypeOK
<1>2. [from |-> src[r], hub |-> 0] \in Database
  BY <1>1 DEF Database
<1>3. SourceTree(r) \in Manifest
  BY <1>2 DEF SourceTree, Manifest
<1> QED
  BY <1>2, <1>3, NotNone DEF SourceTree

LEMMA DoneOK ==
    ASSUME TypeOK, NEW r
    PROVE  /\ Done(cur, r) \in Local /\ Done(cur, r).left = cur.left \ {r}
           /\ Done(cur, r).started = cur.started /\ Done(cur, r).installed = cur.installed
           /\ Done(cur, r).unclean = cur.unclean
<1>1. cur \in Local
  BY DEF TypeOK
<1>2. cur.left \ {r} \in SUBSET (Readers \cup Sources)
  BY <1>1 DEF Local
<1>3. Done(cur, r) = [cur EXCEPT !.left = cur.left \ {r}]
  BY <1>1 DEF Done, Local
<1>4. [cur EXCEPT !.left = cur.left \ {r}] \in Local
  BY <1>1, <1>2, Locals
<1> QED
  BY <1>1, <1>3, <1>4 DEF Local

\* What the try block may rely on.
LEMMA TryFacts ==
    ASSUME IInv, pc \in Trying
    PROVE  /\ cmd = "migrate" /\ up = {} /\ ~cur.started /\ ~cur.installed /\ ~cur.unclean
           /\ journal # None /\ journal.status \in {"prepared", "copying", "failed"}
           /\ \A q \in Readers \ cur.left : Kept(q)
BY DEF IInv, RunInv, PlaceOK, JournalOK, TryOK, HandlerOK, Trying

\* The comparison or the copy of a reader is over.
LEMMA NextReader ==
    ASSUME IInv, pc \in {"check", "note"}, NEW r \in Readers, Turn(r), Kept(r),
           Go(Onward(r, "check", "enter_install"), Done(cur, r)),
           UNCHANGED <<up, src, hub, tree, attempt, state>>,
           journal' # None, journal'.status = journal.status
    PROVE  /\ pc' \in {"check", "enter_install"} /\ cmd' = cmd /\ cur' \in Local
           /\ RunInv' /\ ServedOK'
<1>1. /\ pc' = (IF cur.left = {r} THEN "enter_install" ELSE "check")
      /\ cmd' = cmd /\ cur' = Done(cur, r)
  BY DEF Go, Onward
<1>2. /\ cur' \in Local /\ cur'.left = cur.left \ {r}
      /\ cur'.started = cur.started /\ cur'.installed = cur.installed /\ cur'.unclean = cur.unclean
  BY <1>1, DoneOK DEF IInv
<1>3. pc \in Trying
  BY DEF Trying
<1>4. \A q \in Readers : Kept(q)' = Kept(q)
  BY DEF Kept
<1>5. \A q \in Readers \ cur'.left : Kept(q)'
  BY <1>2, <1>3, <1>4, TryFacts
<1>6. pc' = "enter_install" => cur'.left = {}
  BY <1>1, <1>2
<1>7. RunInv'
  BY <1>1, <1>2, <1>3, <1>5, <1>6, TryFacts
     DEF RunInv, PlaceOK, JournalOK, InstallOK, TryOK, UninstallOK, HandlerOK,
         Trying, Installing, Cleaning, RollingBack, UninstallEffects
<1>8. ServedOK'
  BY <1>1, <1>3, TryFacts DEF ServedOK, ReadersStayServed
<1> QED
  BY <1>1, <1>2, <1>7, <1>8

\* An exception of the try block, of install or of its cleanup.
LEMMA RaisedInv ==
    ASSUME IInv, pc \in TryEffects \cup {"drop", "close"}, Go(Raised, cur),
           UNCHANGED <<up, hub, state, journal>>, excused' \/ UNCHANGED excused,
           attempt' \in {attempt, None} \/ ~cur.installed
    PROVE  RunInv' /\ ServedOK'
<1>1. cmd \in {"install", "migrate"}
  BY DEF IInv, RunInv, PlaceOK, TryEffects, Trying, Cleaning
<1>2. ASSUME cmd = "migrate" PROVE RunInv' /\ ServedOK'
  <2>1. pc' = "handle" /\ cmd' = cmd /\ cur' = cur
    BY <1>2 DEF Raised, Go
  <2>2. ServedOK'
    BY <1>2, <2>1 DEF ServedOK, ReadersStayServed
  <2>3. cur.installed => Settled /\ Settled'
    <3>1. cur.installed => pc \in {"drop", "leave"}
      BY DEF IInv, RunInv, InstallOK, TryOK, PlaceOK, TryEffects, Trying, Cleaning
    <3>2. cur.installed => Settled
      BY <3>1 DEF IInv, RunInv, InstallOK, TryOK
    <3> QED
      BY <3>2 DEF Settled, Active
  <2>4. ~cur.unclean /\ journal # None /\ journal.status \in {"prepared", "copying", "failed"}
    BY <1>2 DEF IInv, RunInv, HandlerOK, JournalOK, TryEffects
  <2>5. RunInv'
    BY <1>2, <2>1, <2>3, <2>4
       DEF RunInv, PlaceOK, JournalOK, InstallOK, TryOK, UninstallOK, HandlerOK,
           Trying, Installing, Cleaning, RollingBack, UninstallEffects
  <2> QED
    BY <2>2, <2>5
<1>3. ASSUME cmd = "install" PROVE RunInv' /\ ServedOK'
  <2>1. Stop
    BY <1>3 DEF Raised, Go
  <2>2. CASE UNCHANGED excused
    BY <1>3, <2>1, <2>2, StopInv, LeaveInstall DEF IInv, Stop
  <2>3. CASE excused'
    BY <2>1, <2>3, StopInv DEF ServedOK, ReadersStayServed, Stop
  <2> QED
    BY <2>2, <2>3
<1> QED
  BY <1>1, <1>2, <1>3

LEMMA CheckInv == ASSUME IInv, Check PROVE IInv'
<1>1. PICK r \in Readers :
         /\ Turn(r)
         /\ IF Drifted(r) THEN Go(Raised, cur)
            ELSE IF cur.copied[r] # None THEN Go(Onward(r, "check", "enter_install"), Done(cur, r))
            ELSE Go(CopyPlan(r), IF tree[r] = None THEN cur ELSE [cur EXCEPT !.copied[r] = SourceTree(r)])
  BY DEF Check
<1>2. pc = "check" /\ UNCHANGED <<world, disk, migrated, excused, lastId, runs, faults>>
  BY DEF Check, At, Quiet
<1>3. pc \in Trying /\ pc \in TryEffects
  BY <1>2 DEF Trying, TryEffects
<1>4. FilesInv'
  BY <1>2, FilesFrame DEF IInv, world, disk
<1>5. cur \in Local /\ cmd # "idle"
  BY <1>3, TryFacts DEF IInv, TypeOK
<1>6. CASE Drifted(r)
  <2>1. Go(Raised, cur) /\ Raised \in Effects \cup {"idle"}
    BY <1>1, <1>6 DEF Raised, Effects, Unguarded
  <2>2. TypeOK'
    BY <1>2, <1>5, <2>1, GoType DEF IInv, TypeOK, world, disk
  <2> QED
    BY <1>2, <1>3, <1>4, <2>1, <2>2, RaisedInv DEF IInv, world, disk
<1>7. CASE ~Drifted(r) /\ cur.copied[r] # None
  <2>1. Kept(r)
    BY <1>7, SourceTreeOK DEF Drifted, Kept, IInv
  <2>2. pc' \in {"check", "enter_install"} /\ cmd' = cmd /\ cur' \in Local /\ RunInv' /\ ServedOK'
    BY <1>1, <1>2, <1>3, <1>7, <2>1, NextReader, TryFacts DEF world, disk
  <2>3. TypeOK'
    BY <1>2, <1>5, <2>2 DEF IInv, TypeOK, world, disk, Effects, Unguarded, TryEffects
  <2> QED
    BY <1>4, <2>2, <2>3 DEF IInv
<1>8. CASE ~Drifted(r) /\ cur.copied[r] = None
  <2>1. /\ tree[r] # None => Kept(r)
        /\ CopyPlan(r) \in {"note", "publish", "copy"}
        /\ CopyPlan(r) = "note" => tree[r] # None
        /\ CopyPlan(r) = "publish" => work[r] = SourceTree(r)
    BY <1>8, SourceTreeOK DEF Drifted, Kept, CopyPlan, IInv
  <2> DEFINE f == [cur.copied EXCEPT ![r] = SourceTree(r)]
             c == IF tree[r] = None THEN cur ELSE [cur EXCEPT !.copied[r] = SourceTree(r)]
  <2>2. cur.copied \in [Readers -> Manifest \cup {None}]
    BY <1>5 DEF Local
  <2>3. f \in [Readers -> Manifest \cup {None}]
    BY <2>2, SourceTreeOK DEF IInv
  <2>4. [cur EXCEPT !.copied[r] = SourceTree(r)] = [cur EXCEPT !.copied = f]
    BY <1>5 DEF Local
  <2> HIDE DEF f
  <2>5. /\ c \in Local /\ c.left = cur.left /\ c.started = cur.started
        /\ c.installed = cur.installed /\ c.unclean = cur.unclean
    <3>1. [cur EXCEPT !.copied = f] \in Local
      BY <1>5, <2>3, Locals
    <3>2. /\ [cur EXCEPT !.copied = f].left = cur.left
          /\ [cur EXCEPT !.copied = f].started = cur.started
          /\ [cur EXCEPT !.copied = f].installed = cur.installed
          /\ [cur EXCEPT !.copied = f].unclean = cur.unclean
      BY <1>5 DEF Local
    <3> QED
      BY <1>5, <2>4, <3>1, <3>2
  <2>6. pc' = CopyPlan(r) /\ cur' = c /\ cmd' = cmd
    BY <1>1, <1>8, <2>1 DEF Go
  <2> HIDE DEF c
  <2>7. TypeOK'
    BY <1>2, <1>5, <2>1, <2>5, <2>6 DEF IInv, TypeOK, world, disk, Effects, Unguarded, TryEffects
  <2>8. \A q \in Readers : /\ Kept(q)' = Kept(q) /\ Turn(q)' = Turn(q)
                           /\ SourceTree(q)' = SourceTree(q)
    BY <1>2, <2>5, <2>6 DEF Kept, Turn, FirstReader, SourceTree, world, disk
  <2>9. \A q \in Readers : Turn(q)' => q = r
    BY <1>1, <2>8, TurnUnique
  <2>10. RunInv'
    <3>1. PlaceOK' /\ JournalOK' /\ UninstallOK' /\ HandlerOK' /\ InstallOK'
      BY <1>2, <1>3, <2>1, <2>5, <2>6, TryFacts
         DEF PlaceOK, JournalOK, UninstallOK, HandlerOK, InstallOK, world, disk,
             Trying, Installing, Cleaning, RollingBack, UninstallEffects
    <3>2. TryOK'
      BY <1>2, <1>3, <2>1, <2>5, <2>6, <2>8, <2>9, TryFacts
         DEF TryOK, Trying, Installing, world, disk
    <3> QED
      BY <3>1, <3>2 DEF RunInv
  <2>11. ServedOK'
    BY <1>3, <2>6, TryFacts DEF ServedOK, ReadersStayServed
  <2> QED
    BY <1>4, <2>7, <2>10, <2>11 DEF IInv
<1> QED
  BY <1>6, <1>7, <1>8
LEMMA CopyInv == ASSUME IInv, Copy PROVE IInv'
<1>1. PICK r \in Readers : Turn(r) /\ work' = [work EXCEPT ![r] = Partial]
  BY DEF Copy
<1>2. /\ pc = "copy" /\ pc' = "fill" /\ cur' = cur /\ cmd' = cmd
      /\ UNCHANGED <<world, tree, attempt, state, journal, history, migrated, excused, lastId, runs, faults>>
  BY DEF Copy, At, To, Go, Quiet
<1>3. pc \in Trying
  BY <1>2 DEF Trying
<1>4. Partial \in Manifest /\ work \in [Readers -> Manifest \cup {None}]
  BY EmptyTreeType DEF IInv, TypeOK, Partial
<1>5. work' \in [Readers -> Manifest \cup {None}] /\ work'[r] = Partial
  BY <1>1, <1>4
<1>6. TypeOK'
  BY <1>2, <1>5 DEF IInv, TypeOK, world, Effects, Unguarded, TryEffects
<1>7. FilesInv'
  BY <1>2, FilesFrame DEF IInv, world
<1>8. \A q \in Readers : Kept(q)' = Kept(q) /\ Turn(q)' = Turn(q) /\ SourceTree(q)' = SourceTree(q)
  BY <1>2 DEF Kept, Turn, FirstReader, SourceTree, world
<1>9. \A q \in Readers : Turn(q)' => q = r
  BY <1>1, <1>8, TurnUnique
<1>10. RunInv'
  BY <1>2, <1>3, <1>5, <1>8, <1>9, TryFacts
     DEF RunInv, PlaceOK, JournalOK, InstallOK, TryOK, UninstallOK, HandlerOK, world,
         Trying, Installing, Cleaning, RollingBack, UninstallEffects
<1>11. ServedOK'
  BY <1>2, <1>3, TryFacts DEF ServedOK, ReadersStayServed
<1> QED
  BY <1>6, <1>7, <1>10, <1>11 DEF IInv

LEMMA FillInv == ASSUME IInv, Fill PROVE IInv'
<1>1. PICK r \in Readers : Turn(r) /\ work' = [work EXCEPT ![r] = SourceTree(r)]
  BY DEF Fill
<1>2. /\ pc = "fill" /\ pc' = "publish" /\ cur' = cur /\ cmd' = cmd
      /\ UNCHANGED <<world, tree, attempt, state, journal, history, migrated, excused, lastId, runs, faults>>
  BY DEF Fill, At, To, Go, Quiet
<1>3. pc \in Trying
  BY <1>2 DEF Trying
<1>4. SourceTree(r) \in Manifest /\ work \in [Readers -> Manifest \cup {None}]
  BY SourceTreeOK DEF IInv, TypeOK
<1>5. work' \in [Readers -> Manifest \cup {None}] /\ work'[r] = SourceTree(r)
  BY <1>1, <1>4
<1>6. TypeOK'
  BY <1>2, <1>5 DEF IInv, TypeOK, world, Effects, Unguarded, TryEffects
<1>7. FilesInv'
  BY <1>2, FilesFrame DEF IInv, world
<1>8. \A q \in Readers : Kept(q)' = Kept(q) /\ Turn(q)' = Turn(q) /\ SourceTree(q)' = SourceTree(q)
  BY <1>2 DEF Kept, Turn, FirstReader, SourceTree, world
<1>9. \A q \in Readers : Turn(q)' => q = r
  BY <1>1, <1>8, TurnUnique
<1>10. RunInv'
  BY <1>2, <1>3, <1>5, <1>8, <1>9, TryFacts
     DEF RunInv, PlaceOK, JournalOK, InstallOK, TryOK, UninstallOK, HandlerOK, world,
         Trying, Installing, Cleaning, RollingBack, UninstallEffects
<1>11. ServedOK'
  BY <1>2, <1>3, TryFacts DEF ServedOK, ReadersStayServed
<1> QED
  BY <1>6, <1>7, <1>10, <1>11 DEF IInv

LEMMA PublishInv == ASSUME IInv, Publish PROVE IInv'
<1>1. PICK r \in Readers :
         /\ Turn(r)
         /\ Go("note", [cur EXCEPT !.copied[r] = work[r]])
         /\ tree' = [tree EXCEPT ![r] = work[r]] /\ work' = [work EXCEPT ![r] = None]
  BY DEF Publish
<1>2. /\ pc = "publish"
      /\ UNCHANGED <<world, attempt, state, journal, history, migrated, excused, lastId, runs, faults>>
  BY DEF Publish, At, Quiet
<1>3. pc \in Trying /\ work[r] = SourceTree(r)
  BY <1>1, <1>2 DEF Trying, IInv, RunInv, TryOK
<1>4. pc' = "note" /\ cmd' = cmd /\ cur' = [cur EXCEPT !.copied[r] = work[r]]
  BY <1>1 DEF Go
<1> DEFINE f == [cur.copied EXCEPT ![r] = work[r]]
<1>5. cur \in Local /\ cur.copied \in [Readers -> Manifest \cup {None}]
  BY DEF IInv, TypeOK, Local
<1>6. f \in [Readers -> Manifest \cup {None}]
  BY <1>3, <1>5, SourceTreeOK DEF IInv
<1>7. cur' = [cur EXCEPT !.copied = f]
  BY <1>4, <1>5 DEF Local
<1> HIDE DEF f
<1>8. cur' \in Local
  BY <1>5, <1>6, <1>7, Locals
<1>9. /\ cur'.left = cur.left /\ cur'.started = cur.started
      /\ cur'.installed = cur.installed /\ cur'.unclean = cur.unclean
  BY <1>5, <1>7 DEF Local
<1>10. /\ tree' \in [Readers -> Manifest \cup {None}] /\ work' \in [Readers -> Manifest \cup {None}]
       /\ \A q \in Readers : tree'[q] = IF q = r THEN SourceTree(r) ELSE tree[q]
  BY <1>1, <1>3, SourceTreeOK DEF IInv, TypeOK
<1>11. TypeOK'
  BY <1>2, <1>4, <1>8, <1>10 DEF IInv, TypeOK, world, Effects, Unguarded, TryEffects
<1>12. \A q \in Readers : /\ tree[q] # None => tree'[q] # None
                          /\ tree[q] # None /\ tree[q].db # None => tree'[q].db # None
                          /\ Kept(q) => Kept(q)'
                          /\ Turn(q)' = Turn(q)
  BY <1>2, <1>9, <1>10, SourceTreeOK DEF Kept, Turn, FirstReader, IInv, world
<1>13. Kept(r)'
  BY <1>2, <1>10, SourceTreeOK DEF Kept, IInv, world
<1>14. FilesInv'
  BY <1>2, <1>12 DEF IInv, FilesInv, IdsKnown, OwnerOK, DataOK, CutoverOK, Active, AllTrees, world
<1>15. \A q \in Readers : Turn(q)' => q = r
  BY <1>1, <1>12, TurnUnique
<1>16. RunInv'
  BY <1>2, <1>3, <1>4, <1>9, <1>12, <1>13, <1>15, TryFacts
     DEF RunInv, PlaceOK, JournalOK, InstallOK, TryOK, UninstallOK, HandlerOK, world,
         Trying, Installing, Cleaning, RollingBack, UninstallEffects
<1>17. ServedOK'
  BY <1>3, <1>4, TryFacts DEF ServedOK, ReadersStayServed
<1> QED
  BY <1>11, <1>14, <1>16, <1>17 DEF IInv

LEMMA NoteInv == ASSUME IInv, Note PROVE IInv'
<1>1. PICK r \in Readers :
         Turn(r) /\ Go(Onward(r, "check", "enter_install"), Done(cur, r))
  BY DEF Note
<1>2. /\ pc = "note" /\ journal' = [journal EXCEPT !.copied = cur.copied]
      /\ UNCHANGED <<world, tree, work, attempt, state, history, migrated, excused, lastId, runs, faults>>
  BY DEF Note, At, SaveJournal, Quiet
<1>3. pc \in Trying /\ Kept(r)
  BY <1>1, <1>2 DEF Trying, IInv, RunInv, TryOK
<1>4. /\ journal' \in Journal /\ journal'.status = journal.status
  BY <1>2, <1>3, TryFacts DEF IInv, TypeOK, Journal, Local
<1>5. journal' # None
  BY <1>4, NotNone
<1>6. pc' \in {"check", "enter_install"} /\ cmd' = cmd /\ cur' \in Local /\ RunInv' /\ ServedOK'
  BY <1>1, <1>2, <1>3, <1>4, <1>5, NextReader DEF world
<1>7. TypeOK'
  BY <1>2, <1>3, <1>4, <1>6, TryFacts DEF IInv, TypeOK, world, Effects, Unguarded, TryEffects
<1>8. FilesInv'
  BY <1>2, <1>3, <1>4, FilesFrame, TryFacts DEF IInv, world
<1> QED
  BY <1>6, <1>7, <1>8 DEF IInv

LEMMA EnterInstallInv == ASSUME IInv, EnterInstall PROVE IInv'
<1>1. /\ pc = "enter_install" /\ pc \in Trying /\ pc \in TryEffects
      /\ UNCHANGED <<world, tree, work, state, journal, history, migrated, excused, runs, faults>>
  BY DEF EnterInstall, At, Trying, TryEffects
<1>2. cur \in Local /\ cmd = "migrate" /\ \A q \in Readers : Kept(q)
  BY <1>1, TryFacts DEF IInv, TypeOK, RunInv, TryOK
<1>3. CASE CleanEvidence /\ Preflight(TRUE)
  <2>1. /\ OpenAttempt /\ hub = None
        /\ pc' = "arm" /\ cmd' = cmd /\ cur' = [cur EXCEPT !.id = lastId']
        /\ state # None => state.status \in {"uninstalled", "rolled_back"}
    BY <1>3 DEF EnterInstall, Go, Preflight
  <2>2. /\ cur' \in Local /\ cur'.id = lastId' /\ cur'.installed = cur.installed
        /\ cur'.unclean = cur.unclean /\ cur'.started = cur.started
    <3>1. lastId' \in Nat
      BY <2>1, OpenType DEF IInv
    <3>2. cur' \in Local
      BY <1>2, <2>1, <3>1, Locals
    <3> QED
      BY <1>2, <2>1, <3>2 DEF Local
  <2>3. TypeOK'
    BY <1>1, <1>2, <2>1, <2>2, OpenType DEF IInv, TypeOK, world, Effects, Unguarded, InstallEffects
  <2>4. FilesInv'
    BY <1>1, <2>1, OpenFiles DEF IInv, world, Active
  <2>5. /\ \A i \in migrated' : i # lastId'
        /\ state' # None => state'.id # lastId'
    BY <1>1, OpenType, <2>1 DEF IInv, FilesInv, IdsKnown, TypeOK, State
  <2>6. \A q \in Readers : Kept(q)'
    BY <1>1, <1>2 DEF Kept, world
  <2>7. RunInv'
    BY <1>1, <2>1, <2>2, <2>5, <2>6, OpenType, TryFacts
       DEF IInv, RunInv, PlaceOK, JournalOK, InstallOK, TryOK, UninstallOK, HandlerOK, world,
           Trying, Installing, Cleaning, RollingBack, UninstallEffects
  <2>8. ServedOK'
    BY <1>2, <2>1 DEF ServedOK, ReadersStayServed
  <2> QED
    BY <2>3, <2>4, <2>7, <2>8 DEF IInv
<1>4. CASE ~(CleanEvidence /\ Preflight(TRUE))
  <2>1. Go(Raised, cur) /\ UNCHANGED <<attempt, lastId>> /\ Raised \in Effects \cup {"idle"}
    BY <1>4 DEF EnterInstall, Raised, Effects, Unguarded
  <2>2. TypeOK'
    BY <1>1, <1>2, <2>1, GoType DEF IInv, TypeOK, world
  <2>3. RunInv' /\ ServedOK'
    BY <1>1, <2>1, RaisedInv DEF world
  <2> QED
    BY <1>1, <2>1, <2>2, <2>3, FilesFrame DEF IInv, world
<1> QED
  BY <1>3, <1>4, Zenon
-----------------------------------------------------------------------------
(* migrate: the beginning.                                                  *)

\* The rest of the invariant, for a journal that is new or taken up again.
LEMMA MigrateBegun ==
    ASSUME IInv, cmd' = "migrate", pc' = MigratePlan, cur'.left = Readers,
           ~cur'.started, ~cur'.installed, ~cur'.unclean, journal' # None,
           journal'.status \in {"prepared", "copying", "failed"}
    PROVE  RunInv' /\ ServedOK'
<1>1. pc' \in {"committed", "copying"}
  BY DEF MigratePlan
<1>2. RunInv'
  BY <1>1 DEF RunInv, PlaceOK, JournalOK, InstallOK, TryOK, UninstallOK, HandlerOK,
              Trying, Installing, Cleaning, RollingBack, UninstallEffects
<1>3. ServedOK'
  BY DEF ServedOK, ReadersStayServed
<1> QED
  BY <1>2, <1>3

LEMMA MigrateInv == ASSUME IInv, Migrate PROVE IInv'
<1>1. /\ Begin("migrate") /\ pc' = MigratePlan /\ cur' = [NoLocal EXCEPT !.left = Readers]
      /\ journal' = [status |-> "prepared", initial |-> up, copied |-> NoCopies]
      /\ UNCHANGED <<world, tree, work, attempt, state, history, migrated, lastId, faults>>
  BY DEF Migrate, SaveJournal
<1>2. journal' \in Journal /\ journal'.status = "prepared"
  BY <1>1, NoLocalType DEF Journal, Local, IInv, TypeOK
<1>3. journal' # None
  BY <1>2, NotNone
<1>4. runs' \in 0 .. MaxRuns /\ excused' \in BOOLEAN /\ cmd' = "migrate"
  BY <1>1, BeginType DEF IInv
<1>5. cur' \in Local
  BY <1>1, NoLocalType, Locals
<1>6. cur'.left = Readers /\ ~cur'.started /\ ~cur'.installed /\ ~cur'.unclean
  BY <1>1, NoLocalType DEF Local
<1>7. TypeOK'
  BY <1>1, <1>2, <1>4, <1>5 DEF IInv, TypeOK, world, MigratePlan, Effects, Unguarded
<1>8. FilesInv'
  BY <1>1, <1>2, FilesFrame DEF IInv, world
<1> QED
  BY <1>1, <1>2, <1>3, <1>4, <1>6, <1>7, <1>8, MigrateBegun DEF IInv

LEMMA MigrateAgainInv == ASSUME IInv, MigrateAgain PROVE IInv'
<1>1. /\ Begin("migrate") /\ pc' = MigratePlan
      /\ cur' = [NoLocal EXCEPT !.copied = journal.copied, !.left = Readers]
      /\ journal # None /\ journal.status \in {"prepared", "copying", "failed"}
      /\ UNCHANGED <<world, disk, migrated, lastId, faults>>
  BY DEF MigrateAgain
<1>2. journal.copied \in [Readers -> Manifest \cup {None}]
  BY <1>1 DEF IInv, TypeOK, Journal
<1>3. /\ cur' \in Local /\ cur'.left = Readers
      /\ ~cur'.started /\ ~cur'.installed /\ ~cur'.unclean
  BY <1>1, <1>2, NoLocalType DEF Local
<1>4. runs' \in 0 .. MaxRuns /\ excused' \in BOOLEAN /\ cmd' = "migrate"
  BY <1>1, BeginType DEF IInv
<1>5. TypeOK'
  BY <1>1, <1>3, <1>4 DEF IInv, TypeOK, world, disk, MigratePlan, Effects, Unguarded
<1>6. FilesInv'
  BY <1>1, FilesFrame DEF IInv, world, disk
<1> QED
  BY <1>1, <1>3, <1>4, <1>5, <1>6, MigrateBegun DEF IInv, disk

-----------------------------------------------------------------------------
(* Faults and writes.                                                       *)

LEMMA ExcusedServed == ASSUME excused' PROVE ServedOK'
BY DEF ServedOK, ReadersStayServed

\* The cleanup begins after an effect of install that raised; the save of the state
\* may have been made.
LEMMA ToCleanup ==
    ASSUME IInv, pc \in Installing, To(CleanPlan), UNCHANGED <<up, src, hub, tree, attempt, journal, lastId, excused>>,
           \/ UNCHANGED <<state, migrated>>
           \/ pc = "commit" /\ state' # None /\ state'.status = "installed" /\ state'.id = cur.id
    PROVE  RunInv' /\ ServedOK'
<1>1. /\ pc' \in {"remove", "close"} /\ cur' = cur /\ cmd' = cmd
      /\ pc' = "close" => pc # "create" /\ ~cur.started
      /\ pc' = "remove" => pc = "create" \/ cur.started
  BY DEF To, Go, CleanPlan, At
<1>2. cmd \in {"install", "migrate"}
  BY DEF IInv, RunInv, PlaceOK
<1>3. /\ pc' = "close" => hub = None
      /\ pc' = "remove" => AllTrees
  BY <1>1 DEF IInv, RunInv, InstallOK, Installing, AllTrees
<1>4. PlaceOK' /\ JournalOK'
  BY <1>1, <1>2 DEF IInv, RunInv, PlaceOK, JournalOK, Trying, Installing, Cleaning, RollingBack, UninstallEffects
<1>5. InstallOK'
  BY <1>1, <1>3 DEF IInv, RunInv, InstallOK, AllTrees, Installing, Cleaning
<1>6. TryOK' /\ UninstallOK' /\ HandlerOK'
  BY <1>1, <1>2 DEF IInv, RunInv, PlaceOK, TryOK, UninstallOK, HandlerOK, Trying, Installing, RollingBack
<1>7. ServedOK'
  BY <1>1, <1>2, LeaveInstall DEF IInv, ServedOK, ReadersStayServed
<1> QED
  BY <1>4, <1>5, <1>6, <1>7 DEF RunInv

\* The cleanup goes on after an effect that raised, made or not.
LEMMA StrayInv ==
    ASSUME IInv, pc \in Cleaning, Go("close", Stray), UNCHANGED <<up, src, attempt, state, journal, migrated, lastId>>
    PROVE  RunInv'
<1>1. /\ Stray \in Local /\ SameFields(Stray, cur) /\ Stray.unclean = cur.unclean /\ Stray.errors
  BY Locals, LocalFields DEF IInv, TypeOK, Stray
<1>2. pc' = "close" /\ cur' = Stray /\ cmd' = cmd /\ cmd # "idle"
  BY Running DEF Go, Cleaning
<1>3. /\ attempt # None /\ attempt.id = cur'.id /\ cur'.id = lastId
      /\ attempt.status \in {"prepared", "starting"}
      /\ state # None => \/ state.status \in {"uninstalled", "rolled_back"} /\ state.id # cur'.id
                         \/ state.status = "installed" /\ state.id = cur'.id
      /\ ~cur'.installed /\ cur'.errors
  BY <1>1, <1>2 DEF IInv, RunInv, InstallOK, Cleaning, Installing, SameFields
<1>4. /\ cmd \in {"install", "migrate"} /\ (cmd = "migrate" => ~cur'.unclean)
      /\ cmd = "migrate" => journal # None /\ journal.status \in {"prepared", "copying", "failed"}
  BY <1>1, <1>2 DEF IInv, RunInv, PlaceOK, JournalOK, HandlerOK, Cleaning
<1>5. PlaceOK' /\ JournalOK'
  BY <1>2, <1>3, <1>4 DEF PlaceOK, JournalOK, Trying, Installing, Cleaning, RollingBack, UninstallEffects
<1>6. InstallOK'
  BY <1>2, <1>3, <1>4 DEF InstallOK, Installing, Cleaning
<1>7. TryOK'
  BY <1>2, <1>3, <1>4 DEF TryOK, Trying, Installing
<1>8. UninstallOK' /\ HandlerOK'
  BY <1>2, <1>3, <1>4 DEF UninstallOK, HandlerOK, RollingBack
<1> QED
  BY <1>5, <1>6, <1>7, <1>8 DEF RunInv

\* Whatever an exception leads to, the files are left alone.
LEMMA RaisesInv ==
    ASSUME IInv, cmd # "idle", Raises, UNCHANGED <<world, disk, migrated, lastId>>,
           excused' = (excused \/ pc \notin InstallEffects \cup TryEffects)
    PROVE  /\ cmd' \in {"idle", "install", "uninstall", "migrate", "rollback"}
           /\ pc' \in Effects \cup {"idle"} /\ (cmd' = "idle") = (pc' = "idle")
           /\ cur' \in Local
           /\ RunInv' /\ ServedOK'
<1> DEFINE Typed == /\ cmd' \in {"idle", "install", "uninstall", "migrate", "rollback"}
                    /\ pc' \in Effects \cup {"idle"} /\ (cmd' = "idle") = (pc' = "idle")
                    /\ cur' \in Local
<1>1. /\ cur \in Local /\ TypeOK /\ pc \in Effects
      /\ Stray \in Local /\ Unsure \in Local
      /\ SameFields(Stray, cur) /\ Stray.unclean = cur.unclean /\ Stray.errors
      /\ SameFields(Unsure, cur) /\ Unsure.unclean
  BY Locals, LocalFields DEF IInv, TypeOK, Stray, Unsure
<1>2. CASE pc \in InstallEffects \ {"drop"} /\ To(CleanPlan)
  <2>a. excused' = excused
    BY <1>2 DEF IInv, TypeOK
  <2>1. pc' \in {"remove", "close"} /\ pc \in Installing /\ excused' = excused /\ cmd' = cmd /\ cur' = cur
    BY <1>2, <2>a DEF To, Go, CleanPlan, InstallEffects, Installing
  <2>2. RunInv' /\ ServedOK'
    BY <1>2, <2>1, ToCleanup DEF world, disk
  <2> QED
    BY <1>1, <2>1, <2>2 DEF TypeOK, Effects, Unguarded
<1>3. CASE /\ pc \in {"remove", "drop_keys", "close"}
           /\ Go("close", Stray)
  <2>1. pc' = "close" /\ cur' = Stray /\ cmd' = cmd /\ cmd # "idle"
    BY <1>3 DEF Go
  <2>2. excused'
    <3>1. pc \notin InstallEffects \cup TryEffects
      BY <1>3 DEF InstallEffects, TryEffects
    <3> QED
      BY <3>1
  <2>5. RunInv'
    BY <1>3, StrayInv DEF Cleaning, world, disk
  <2> QED
    BY <1>1, <2>1, <2>2, <2>5, ExcusedServed DEF TypeOK, Effects, Unguarded
<1>4. CASE pc \in TryEffects \cup {"drop", "close"} /\ To(Raised)
  <2>1. Go(Raised, cur) /\ Raised \in Effects \cup {"idle"} /\ (excused' \/ UNCHANGED excused)
    BY <1>4 DEF To, Raised, Effects, Unguarded, IInv, TypeOK
  <2>2. RunInv' /\ ServedOK'
    BY <1>4, <2>1, RaisedInv DEF world, disk
  <2> QED
    BY <1>1, <2>1, <2>2, GoType
<1>5. CASE (pc = "handle" \/ (pc \in UninstallEffects /\ cmd = "migrate")) /\ Go("fail", Unsure)
  <2>1. pc' = "fail" /\ cur' = Unsure /\ cmd' = cmd /\ cmd # "idle"
    BY <1>5 DEF Go
  <2>2. excused' /\ cmd = "migrate"
    BY <1>5 DEF InstallEffects, TryEffects, UninstallEffects, IInv, RunInv, PlaceOK
  <2>3. RunInv'
    BY <1>1, <2>1, <2>2
       DEF IInv, RunInv, PlaceOK, JournalOK, InstallOK, TryOK, UninstallOK, HandlerOK,
           Trying, Installing, Cleaning, RollingBack, UninstallEffects, world, disk
  <2> QED
    BY <1>1, <2>1, <2>2, <2>3, ExcusedServed DEF TypeOK, Effects, Unguarded
<1>6. CASE pc = "fail" /\ Go(AfterFail, Restarting)
  <2>1. excused' /\ cmd = "migrate"
    BY <1>6 DEF InstallEffects, TryEffects, IInv, RunInv, PlaceOK
  <2>2. RunInv'
    BY <1>6, <2>1, AfterFailInv DEF IInv, RunInv, JournalOK, world, disk
  <2> QED
    BY <1>1, <1>6, <2>1, <2>2, AfterFailType, GoType, ExcusedServed
<1>7. CASE pc \in UninstallEffects \cup Unguarded /\ Stop
  <2>1. excused'
    <3>1. pc \notin InstallEffects \cup TryEffects
      BY <1>7 DEF UninstallEffects, Unguarded, InstallEffects, TryEffects
    <3> QED
      BY <3>1
  <2> QED
    BY <1>1, <1>7, <2>1, StopInv, StopType, ExcusedServed
<1>8. \/ pc \in InstallEffects \ {"drop"} /\ To(CleanPlan)
      \/ pc \in {"remove", "drop_keys", "close"} /\ Go("close", Stray)
      \/ pc \in TryEffects \cup {"drop", "close"} /\ To(Raised)
      \/ (pc = "handle" \/ (pc \in UninstallEffects /\ cmd = "migrate")) /\ Go("fail", Unsure)
      \/ pc = "fail" /\ Go(AfterFail, Restarting)
      \/ pc \in UninstallEffects \cup Unguarded /\ Stop
  BY DEF Raises
<1> QED
  BY <1>2, <1>3, <1>4, <1>5, <1>6, <1>7, <1>8

LEMMA RaiseInv == ASSUME IInv, Raise PROVE IInv'
<1>1. /\ cmd # "idle" /\ Raises /\ UNCHANGED <<world, disk, migrated, lastId, runs>>
      /\ excused' = (excused \/ pc \notin InstallEffects \cup TryEffects)
  BY DEF Raise
<1>2. faults' \in 0 .. MaxFaults
  BY BoundsAssumption DEF Raise, IInv, TypeOK
<1>3. FilesInv'
  BY <1>1, FilesFrame DEF IInv, world, disk
<1>4. excused' \in BOOLEAN
  BY <1>1 DEF IInv, TypeOK
<1>5. TypeOK'
  BY <1>1, <1>2, <1>4, RaisesInv DEF IInv, TypeOK, world, disk
<1> QED
  BY <1>1, <1>3, <1>5, RaisesInv DEF IInv

\* The same of an effect that is made and raises after that.
LEMMA RaiseLateInv == ASSUME IInv, RaiseLate PROVE IInv'
<1>1. /\ cmd # "idle" /\ UNCHANGED <<up, src, journal, history, runs>>
      /\ excused' = (excused \/ pc \notin InstallEffects \cup TryEffects)
  BY DEF RaiseLate
<1>2. faults' \in 0 .. MaxFaults
  BY BoundsAssumption DEF RaiseLate, IInv, TypeOK
<1>3. excused' \in BOOLEAN /\ (excused' \/ UNCHANGED excused)
  BY <1>1 DEF IInv, TypeOK
<1>4. /\ cur \in Local /\ Stray \in Local /\ Unsure \in Local
      /\ SameFields(Unsure, cur) /\ Unsure.unclean
  BY Locals, LocalFields DEF IInv, TypeOK, Stray, Unsure
<1> DEFINE Typed == /\ cmd' \in {"idle", "install", "uninstall", "migrate", "rollback"}
                    /\ pc' \in Effects \cup {"idle"} /\ (cmd' = "idle") = (pc' = "idle")
                    /\ cur' \in Local
<1>5. Raised \in Effects \cup {"idle"}
  BY DEF Raised, Effects, Unguarded
<1>6. CASE /\ pc = "enter_install" /\ CleanEvidence /\ Preflight(TRUE)
           /\ OpenAttempt /\ To(Raised) /\ UNCHANGED <<hub, tree, work, state, migrated>>
  <2>1. hub = None /\ ~Active /\ ~cur.installed
    BY <1>6, TryFacts DEF Preflight, Active, Trying
  <2>2. Go(Raised, cur)
    BY <1>6 DEF To
  <2>3. RunInv' /\ ServedOK'
    BY <1>1, <1>3, <1>6, <2>1, <2>2, RaisedInv DEF TryEffects
  <2>4. TypeOK'
    BY <1>1, <1>2, <1>3, <1>4, <1>5, <1>6, <2>2, OpenType, GoType DEF IInv, TypeOK
  <2> QED
    BY <1>1, <1>6, <2>1, <2>3, <2>4, OpenFiles DEF IInv
<1>7. CASE /\ pc = "commit" /\ SaveInstalled /\ To(CleanPlan)
           /\ UNCHANGED <<hub, tree, work, attempt, lastId>>
  <2>1. state' \in State /\ migrated' \subseteq Nat /\ Settled' /\ FilesInv'
    BY <1>1, <1>7, SavedOK
  <2>2. /\ pc' \in {"remove", "close"} /\ excused' = excused /\ cmd' = cmd /\ cur' = cur /\ pc \in Installing
    BY <1>1, <1>7 DEF To, Go, CleanPlan, InstallEffects, Installing, IInv, TypeOK
  <2>3. RunInv' /\ ServedOK'
    BY <1>1, <1>7, <2>1, <2>2, ToCleanup DEF SaveInstalled, Settled, Active
  <2>4. TypeOK'
    BY <1>1, <1>2, <1>3, <1>7, <2>1, <2>2 DEF IInv, TypeOK, Effects
  <2> QED
    BY <2>1, <2>3, <2>4 DEF IInv
<1>8. CASE /\ pc = "drop" /\ attempt' = None /\ To(Raised)
           /\ UNCHANGED <<hub, tree, work, state, migrated, lastId>>
  <2>1. Go(Raised, cur)
    BY <1>8 DEF To
  <2>2. RunInv' /\ ServedOK'
    BY <1>1, <1>3, <1>8, <2>1, RaisedInv
  <2>3. TypeOK'
    BY <1>1, <1>2, <1>3, <1>4, <1>5, <1>8, <2>1, GoType DEF IInv, TypeOK
  <2>4. Active
    BY <1>8 DEF IInv, RunInv, InstallOK, Settled
  <2>5. FilesInv'
    BY <1>1, <1>8, <2>4 DEF IInv, FilesInv, IdsKnown, OwnerOK, DataOK, CutoverOK, Active, AllTrees, Kept
  <2> QED
    BY <2>2, <2>3, <2>5 DEF IInv
<1>9. CASE pc \in {"remove", "drop_keys"}
  <2>1. /\ Go("close", Stray) /\ excused'
        /\ UNCHANGED <<work, attempt, state, migrated, lastId>>
        /\ \/ pc = "remove" /\ hub' = None /\ UNCHANGED tree
           \/ pc = "drop_keys" /\ tree' = OldKeys /\ UNCHANGED hub
    BY <1>1, <1>9 DEF RaiseLate, RaisesLate, InstallEffects, TryEffects
  <2>2. RunInv' /\ ServedOK'
    BY <1>1, <1>9, <2>1, StrayInv, ExcusedServed DEF Cleaning
  <2>3. tree' \in [Readers -> Manifest \cup {None}] /\ FilesInv'
    <3>1. CASE pc = "remove"
      <4>1. cmd \in {"install", "migrate"} /\ hub' = None /\ UNCHANGED tree
        BY <2>1, <3>1 DEF IInv, RunInv, PlaceOK, Cleaning
      <4> QED
        BY <1>1, <2>1, <4>1 DEF IInv, TypeOK, FilesInv, IdsKnown, OwnerOK, DataOK, CutoverOK, Active
    <3>2. CASE pc = "drop_keys"
      BY <1>1, <2>1, <3>2, OldKeysOK
    <3> QED
      BY <1>9, <3>1, <3>2
  <2>4. TypeOK'
    <3>1. Typed
      BY <1>1, <1>4, <2>1, GoType DEF IInv, Effects
    <3> QED
      BY <1>1, <1>2, <1>3, <2>1, <2>3, <3>1 DEF IInv, TypeOK
  <2> QED
    BY <2>2, <2>3, <2>4 DEF IInv
<1>10. CASE /\ pc = "publish" /\ To(Raised)
            /\ \E r \in Readers : /\ Turn(r) /\ tree' = [tree EXCEPT ![r] = work[r]]
                                  /\ work' = [work EXCEPT ![r] = None]
            /\ UNCHANGED <<hub, attempt, state, migrated, lastId>>
  <2>1. PICK r \in Readers : /\ Turn(r) /\ tree' = [tree EXCEPT ![r] = work[r]]
                             /\ work' = [work EXCEPT ![r] = None]
    BY <1>10
  <2>2. Go(Raised, cur) /\ ~cur.installed
    BY <1>10, TryFacts DEF To, Trying
  <2>3. RunInv' /\ ServedOK'
    BY <1>1, <1>3, <1>10, <2>2, RaisedInv DEF TryEffects
  <2>4. work[r] = SourceTree(r)
    BY <1>10, <2>1 DEF IInv, RunInv, TryOK
  <2>5. /\ tree' \in [Readers -> Manifest \cup {None}] /\ work' \in [Readers -> Manifest \cup {None}]
        /\ \A q \in Readers : tree'[q] = IF q = r THEN SourceTree(r) ELSE tree[q]
    BY <2>1, <2>4, SourceTreeOK DEF IInv, TypeOK
  <2>6. TypeOK'
    BY <1>1, <1>2, <1>3, <1>4, <1>5, <1>10, <2>2, <2>5, GoType DEF IInv, TypeOK
  <2>7. \A q \in Readers : /\ tree[q] # None => tree'[q] # None
                           /\ tree[q] # None /\ tree[q].db # None => tree'[q].db # None
                           /\ Kept(q) => Kept(q)'
    BY <1>1, <2>5, SourceTreeOK DEF Kept, IInv
  <2>8. FilesInv'
    BY <1>1, <1>10, <2>7 DEF IInv, FilesInv, IdsKnown, OwnerOK, DataOK, CutoverOK, Active, AllTrees
  <2> QED
    BY <2>3, <2>6, <2>8 DEF IInv
<1>11. CASE /\ pc \in {"finish", "reconcile"} /\ cmd = "migrate" /\ Go("fail", Unsure)
            /\ \/ pc = "finish" /\ state' = [state EXCEPT !.status = "uninstalled"] /\ UNCHANGED attempt
               \/ pc = "reconcile" /\ attempt' = None /\ UNCHANGED state
            /\ UNCHANGED <<hub, tree, work, migrated, lastId>>
  <2>1. hub = None /\ state # None
    BY <1>11 DEF IInv, RunInv, UninstallOK
  <2>2. pc' = "fail" /\ cur' = Unsure /\ cmd' = cmd
    BY <1>11 DEF Go
  <2>3. excused'
    <3>1. pc \notin InstallEffects \cup TryEffects
      BY <1>11 DEF InstallEffects, TryEffects
    <3> QED
      BY <1>1, <3>1
  <2>4. RunInv'
    BY <1>1, <1>4, <1>11, <2>2, <2>3
       DEF IInv, RunInv, PlaceOK, JournalOK, InstallOK, TryOK, UninstallOK, HandlerOK,
           Trying, Installing, Cleaning, RollingBack, UninstallEffects
  <2>5. state' \in State \cup {None} /\ attempt' \in Attempt \cup {None}
    BY <1>11, <2>1 DEF IInv, TypeOK, State
  <2>6. /\ state' # None => state'.id = state.id
        /\ Active' => Active /\ UNCHANGED state
    BY <1>11, <2>1 DEF Active, IInv, TypeOK, State
  <2>7. FilesInv'
    BY <1>1, <1>11, <2>1, <2>6 DEF IInv, FilesInv, IdsKnown, OwnerOK, DataOK, CutoverOK, Active
  <2>8. TypeOK'
    BY <1>1, <1>2, <1>3, <1>4, <1>11, <2>2, <2>5 DEF IInv, TypeOK, Effects
  <2> QED
    BY <2>3, <2>4, <2>7, <2>8, ExcusedServed DEF IInv
<1> QED
  BY <1>6, <1>7, <1>8, <1>9, <1>10, <1>11 DEF RaiseLate, RaisesLate

LEMMA CrashInv == ASSUME IInv, Crash PROVE IInv'
<1>1. Stop /\ excused' = TRUE /\ UNCHANGED <<world, disk, migrated, lastId, runs>>
  BY DEF Crash
<1>2. faults' \in 0 .. MaxFaults
  BY BoundsAssumption DEF Crash, IInv, TypeOK
<1>3. FilesInv'
  BY <1>1, FilesFrame DEF IInv, world, disk
<1>4. TypeOK'
  BY <1>1, <1>2, StopType DEF IInv, TypeOK, world, disk
<1> QED
  BY <1>1, <1>3, <1>4, StopInv, ExcusedServed DEF IInv
LEMMA SourceWriteInv ==
    ASSUME IInv, NEW r \in Readers, SourceWrite(r) PROVE IInv'
<1>1. /\ <<r, "api">> \in up /\ src[r] < MaxWrites /\ src' = [src EXCEPT ![r] = @ + 1]
      /\ UNCHANGED <<up, hub, disk, cmd, pc, cur, migrated, excused, lastId, runs, faults>>
  BY DEF SourceWrite
<1>2. src' \in [Readers -> 0 .. MaxWrites]
  <2>1. src[r] \in Nat /\ src[r] + 1 \in 0 .. MaxWrites
    BY <1>1, BoundsAssumption DEF IInv, TypeOK
  <2> QED
    BY <1>1, <2>1 DEF IInv, TypeOK
<1>3. TypeOK'
  BY <1>1, <1>2 DEF IInv, TypeOK, disk
<1>4. up # {} /\ up' # {}
  BY <1>1
<1>5. FilesInv'
  BY <1>1, <1>4 DEF IInv, FilesInv, IdsKnown, OwnerOK, DataOK, CutoverOK, Active, AllTrees, disk
<1>6. ~(cmd = "migrate" /\ pc \in Trying \cup Installing) /\ pc \notin {"publish", "note"}
  BY <1>4 DEF IInv, RunInv, PlaceOK, TryOK, Trying
<1>7. RunInv'
  <2>1. PlaceOK' /\ JournalOK'
    BY <1>1 DEF IInv, RunInv, PlaceOK, JournalOK, disk
  <2>2. InstallOK' /\ UninstallOK' /\ HandlerOK'
    BY <1>1 DEF IInv, RunInv, InstallOK, UninstallOK, HandlerOK, AllTrees, Active, Settled, disk
  <2>3. TryOK'
    BY <1>1, <1>6 DEF IInv, RunInv, TryOK, Active, Settled, disk, Trying, Installing
  <2> QED
    BY <2>1, <2>2, <2>3 DEF RunInv
<1>8. ServedOK'
  BY <1>1 DEF IInv, ServedOK, ReadersStayServed, disk
<1> QED
  BY <1>3, <1>5, <1>7, <1>8 DEF IInv

LEMMA HubWriteInv ==
    ASSUME IInv, NEW r \in Readers, HubWrite(r) PROVE IInv'
<1>1. /\ hub # None /\ hub.up /\ tree' = [tree EXCEPT ![r].db.hub = @ + 1]
      /\ UNCHANGED <<world, work, attempt, state, journal, history, cmd, pc, cur, migrated,
                     excused, lastId, runs, faults>>
  BY DEF HubWrite
<1>2. tree[r] \in Manifest /\ tree[r].db \in Database
  <2>1. tree[r] # None /\ tree[r].db # None /\ tree[r] \in Manifest \cup {None}
    BY <1>1 DEF IInv, FilesInv, DataOK, TypeOK
  <2> QED
    BY <2>1 DEF Manifest
<1> DEFINE d == [tree[r].db EXCEPT !.hub = tree[r].db.hub + 1]
           t == [tree[r] EXCEPT !.db = d]
<1>3. d \in Database /\ d.from = tree[r].db.from
  BY <1>2 DEF Database
<1>4. tree' = [tree EXCEPT ![r] = t]
  BY <1>1, <1>2 DEF Manifest, Database, IInv, TypeOK
<1> HIDE DEF d
<1>5. t \in Manifest /\ t.db = d
  BY <1>2, <1>3 DEF Manifest
<1> HIDE DEF t
<1>6. t # None /\ d # None
  BY <1>3, <1>5, NotNone
<1>7. /\ tree' \in [Readers -> Manifest \cup {None}]
      /\ \A q \in Readers : tree'[q] = IF q = r THEN t ELSE tree[q]
  BY <1>4, <1>5 DEF IInv, TypeOK
<1>8. TypeOK'
  BY <1>1, <1>7 DEF IInv, TypeOK, world
<1>9. \A q \in Readers : /\ tree[q] # None => tree'[q] # None
                         /\ tree[q] # None /\ tree[q].db # None => tree'[q].db # None
                         /\ Kept(q) => Kept(q)'
                         /\ Turn(q)' = Turn(q)
  BY <1>1, <1>3, <1>5, <1>6, <1>7 DEF Kept, Turn, FirstReader, world
<1>10. FilesInv'
  BY <1>1, <1>9 DEF IInv, FilesInv, IdsKnown, OwnerOK, DataOK, CutoverOK, Active, AllTrees, world
<1>11. RunInv'
  <2>1. PlaceOK' /\ JournalOK'
    BY <1>1 DEF IInv, RunInv, PlaceOK, JournalOK
  <2>2. InstallOK' /\ UninstallOK' /\ HandlerOK'
    BY <1>1, <1>9 DEF IInv, RunInv, InstallOK, UninstallOK, HandlerOK, AllTrees, Active, Settled, world
  <2>3. TryOK'
    BY <1>1, <1>9 DEF IInv, RunInv, TryOK, Active, Settled, world, SourceTree
  <2> QED
    BY <2>1, <2>2, <2>3 DEF RunInv
<1>12. ServedOK'
  BY <1>1 DEF IInv, ServedOK, ReadersStayServed, world
<1> QED
  BY <1>8, <1>10, <1>11, <1>12 DEF IInv

LEMMA StutterInv == ASSUME IInv, UNCHANGED vars PROVE IInv'
<1>1. TypeOK' /\ ServedOK'
  BY DEF IInv, TypeOK, ServedOK, ReadersStayServed, vars, world, disk
<1>2. FilesInv'
  BY FilesFrame DEF IInv, vars, world, disk
<1>3. PlaceOK' /\ JournalOK' /\ InstallOK' /\ UninstallOK' /\ HandlerOK'
  BY DEF IInv, RunInv, PlaceOK, JournalOK, InstallOK, UninstallOK, HandlerOK, AllTrees, Active, Settled,
         vars, world, disk
<1>4. TryOK'
  BY DEF IInv, RunInv, TryOK, Active, Settled, Kept, Turn, FirstReader, SourceTree, vars, world, disk
<1> QED
  BY <1>1, <1>2, <1>3, <1>4 DEF IInv, RunInv

-----------------------------------------------------------------------------
(* The theorems.                                                            *)

LEMMA StepInv == ASSUME IInv, Step PROVE IInv'
<1>1. CASE Arm \/ Prepare \/ Create \/ Start \/ Archive \/ Commit \/ Drop
  BY <1>1, ArmInv, PrepareInv, CreateInv, StartInv, ArchiveInv, CommitInv, DropInv
<1>2. CASE Remove \/ DropKeys \/ Close
  BY <1>2, RemoveInv, DropKeysInv, CloseInv
<1>3. CASE Mark \/ Down \/ DropCredentials \/ Finish \/ Reconcile
  BY <1>3, MarkInv, DownInv, DropCredentialsInv, FinishInv, ReconcileInv
<1>4. CASE Copying \/ StopSource \/ Check \/ Copy \/ Fill \/ Publish \/ Note
  BY <1>4, CopyingInv, StopSourceInv, CheckInv, CopyInv, FillInv, PublishInv, NoteInv
<1>5. CASE EnterInstall \/ Leave \/ Committed \/ Handle \/ EnterUninstall
  BY <1>5, EnterInstallInv, LeaveInv, CommittedInv, HandleInv, EnterUninstallInv
<1>6. CASE Fail \/ Restart \/ RollBackState \/ RollBackJournal
  BY <1>6, FailInv, RestartInv, RollBackStateInv, RollBackJournalInv
<1> QED
  BY <1>1, <1>2, <1>3, <1>4, <1>5, <1>6 DEF Step

LEMMA NextInv == ASSUME IInv, [Next]_vars PROVE IInv'
<1>1. CASE Install \/ Uninstall \/ Migrate \/ MigrateAgain \/ Rollback
  BY <1>1, InstallInv, UninstallInv, MigrateInv, MigrateAgainInv, RollbackInv
<1>2. CASE Step \/ Raise \/ RaiseLate \/ Crash
  BY <1>2, StepInv, RaiseInv, RaiseLateInv, CrashInv
<1>3. CASE \E r \in Readers : SourceWrite(r) \/ HubWrite(r)
  BY <1>3, SourceWriteInv, HubWriteInv
<1>4. CASE UNCHANGED vars
  BY <1>4, StutterInv
<1> QED
  BY <1>1, <1>2, <1>3, <1>4 DEF Next

THEOREM Inductive == Spec => []IInv
<1>1. IInv /\ [Next]_vars => IInv'
  BY NextInv
<1> QED
  BY <1>1, InitInv, PTL DEF Spec

\* Every variable keeps its type: the copies, the journal and the hub among them.
THEOREM TypeCorrect == Spec => []TypeOK
<1>1. IInv => TypeOK
  BY DEF IInv
<1> QED
  BY <1>1, Inductive, PTL

\* While the hub of a cutover is there nothing is left behind in its sources,
\* whatever earlier attempts copied and whatever was written since.
THEOREM NothingLeftBehind == Spec => []CutoverComplete
<1>1. IInv => CutoverComplete
  BY DEF IInv, FilesInv, CutoverOK, CutoverComplete, Kept
<1> QED
  BY <1>1, Inductive, PTL

\* A migration that fails leaves its sources running, or the hub.
THEOREM FailureIsServed == Spec => []ReadersStayServed
<1>1. IInv => ReadersStayServed
  BY DEF IInv, ServedOK
<1> QED
  BY <1>1, Inductive, PTL

\* A hub container belongs to an open attempt or to a state, and what doctor
\* calls healthy can be uninstalled, unless the cleanup of its install has failed.
THEOREM HubIsOwned == Spec => []HubAccountedFor
<1>1. ASSUME IInv PROVE HubAccountedFor
  <2>1. DoctorHealthy /\ (attempt # None => attempt.status # "cleanup-failed") => UninstallAllowed
    BY <1>1, ActiveAllowed DEF IInv, FilesInv, OwnerOK, DoctorHealthy, HubVerified, Settled
  <2> QED
    BY <1>1, <2>1 DEF IInv, FilesInv, OwnerOK, HubAccountedFor
<1> QED
  BY <1>1, Inductive, PTL

-----------------------------------------------------------------------------
(* What starts a topology.                                                  *)

HubStarts == hub' # None /\ hub'.up /\ (hub = None \/ ~hub.up)
SourceStarts == up' # up /\ up \subseteq up'

\* Only one effect starts the hub, and only one a source.
LEMMA OneStarter ==
    ASSUME [Next]_vars
    PROVE  (HubStarts => Start) /\ (SourceStarts => Restart)
<1>1. CASE UNCHANGED world \/ UNCHANGED <<up, hub>>
  BY <1>1 DEF HubStarts, SourceStarts, world
<1>2. CASE Create
  BY <1>2 DEF Create, NewContainer, HubStarts, SourceStarts
<1>3. CASE Start \/ Remove \/ Down
  BY <1>3 DEF Start, Remove, Down, HubStarts, SourceStarts, world
<1>4. CASE StopSource
  BY <1>4 DEF StopSource, HubStarts, SourceStarts
<1>5. CASE Restart
  BY <1>5 DEF Restart, HubStarts, SourceStarts
<1>6. CASE Step
  <2>1. CASE Arm \/ Prepare \/ Archive \/ Commit \/ Drop \/ DropKeys \/ Close
    BY <1>1, <2>1 DEF Arm, Prepare, Archive, Commit, Drop, DropKeys, Close
  <2>2. CASE Mark \/ DropCredentials \/ Finish \/ Reconcile
    BY <1>1, <2>2 DEF Mark, DropCredentials, Finish, Reconcile
  <2>3. CASE Copying \/ Check \/ Copy \/ Fill \/ Publish \/ Note
    BY <1>1, <2>3 DEF Copying, Check, Copy, Fill, Publish, Note
  <2>4. CASE EnterInstall \/ Leave \/ Committed \/ Handle \/ EnterUninstall \/ Fail
             \/ RollBackState \/ RollBackJournal
    BY <1>1, <2>4 DEF EnterInstall, Leave, Committed, Handle, EnterUninstall, Fail,
                      RollBackState, RollBackJournal
  <2> QED
    BY <1>2, <1>3, <1>4, <1>5, <1>6, <2>1, <2>2, <2>3, <2>4 DEF Step
<1>7. CASE Install \/ Uninstall \/ Migrate \/ MigrateAgain \/ Rollback \/ Raise \/ Crash
  BY <1>1, <1>7 DEF Install, Uninstall, Migrate, MigrateAgain, Rollback, Raise, Crash
<1>8. CASE \E r \in Readers : SourceWrite(r) \/ HubWrite(r)
  BY <1>1, <1>8 DEF SourceWrite, HubWrite, world
<1>9. CASE UNCHANGED vars
  BY <1>1, <1>9 DEF vars
<1>10. CASE RaiseLate
  <2>1. UNCHANGED up /\ (hub' = None \/ UNCHANGED hub)
    BY <1>10 DEF RaiseLate, RaisesLate
  <2> QED
    BY <2>1 DEF HubStarts, SourceStarts
<1> QED
  BY <1>6, <1>7, <1>8, <1>9, <1>10 DEF Next

\* In a migration or a rollback the one topology starts only when the other is
\* down, at every point at which it can fail, be killed and be run again.
THEOREM OneTopologyAtATime == Spec => OneTopology
<1> DEFINE A == /\ cmd = "migrate" /\ hub' # None /\ hub'.up /\ (hub = None \/ ~hub.up) => up = {}
                /\ cmd \in {"migrate", "rollback"} /\ journal.status # "rolled_back" /\ up' # up
                     /\ up \subseteq up' => hub = None
<1>1. ASSUME IInv, [Next]_vars PROVE [A]_vars
  <2>1. HubStarts /\ cmd = "migrate" => up = {}
    <3>1. ASSUME HubStarts, cmd = "migrate" PROVE up = {}
      <4>1. pc = "start"
        BY <1>1, <3>1, OneStarter DEF Start, At
      <4> QED
        BY <1>1, <3>1, <4>1 DEF IInv, RunInv, TryOK, Installing
    <3> QED
      BY <3>1
  <2>2. SourceStarts /\ journal.status # "rolled_back" => hub = None
    <3>1. ASSUME SourceStarts, journal.status # "rolled_back" PROVE hub = None
      <4>1. pc = "restart"
        BY <1>1, <3>1, OneStarter DEF Restart, At
      <4> QED
        BY <1>1, <3>1, <4>1 DEF IInv, RunInv, HandlerOK
    <3> QED
      BY <3>1
  <2> QED
    BY <2>1, <2>2 DEF HubStarts, SourceStarts
<1> QED
  BY <1>1, Inductive, PTL DEF Spec, OneTopology
=============================================================================
