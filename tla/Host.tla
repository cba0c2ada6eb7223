-------------------------------- MODULE Host ---------------------------------
(***************************************************************************)
(* One host: the evidence btctl writes (StateStore), the hub container it  *)
(* starts and stops (HubRuntime) and the credential inside one of its APIs *)
(* (CleanupToken), under kills, failing calls and power losses.            *)
(*                                                                         *)
(* Install and Uninstall are the operations of HubInstaller and            *)
(* HubUninstaller on these three, in order; HubMigration has everything    *)
(* else they do.  The container runs on while a command writes evidence;   *)
(* the two share nothing, so a hub step is not taken in the middle of an   *)
(* operation on a file, nor a worker's while a command runs.  Workers      *)
(* serve requests that come through nginx.                                 *)
(***************************************************************************)
EXTENDS StateStore, HubRuntime, CleanupToken

CONSTANTS MaxCommands,     \* bound: commands issued
          MaxHostFaults    \* bound: faults of all parts together

\* The documents the hub's commands write.
ASSUME HostAssumption ==
    /\ MaxCommands \in Nat /\ MaxHostFaults \in Nat
    /\ {"installed", "uninstalling", "uninstalled"} \subseteq States
    /\ {"prepared", "starting", "cleaned"} \subseteq Attempts
    /\ Final \cap {"installed", "uninstalling"} = {}

VARIABLES plan,            \* the operations of the running command still to come
          commands

vars == <<storeVars, hubVars, tokenVars, plan, commands>>

Put(f, v) == [do |-> "put", f |-> f, v |-> v]
Do(what) == [do |-> what, f |-> "state.json", v |-> None]

Init == StoreInit /\ HubInit /\ TokenInit /\ plan = << >> /\ commands = 0

Idle == plan = << >> /\ op = None
Next1(do) == op = None /\ plan # << >> /\ Head(plan).do = do
Pop == plan' = Tail(plan)
Command == Idle /\ commands < MaxCommands /\ commands' = commands + 1

InstallPlanBold ==                         \* mutant: the container is up before the attempt says so
    << Put("install-attempt.json", "prepared"), Do("up"),
       Put("install-attempt.json", "starting"), Do("wait_healthy") >>
    \o (IF vis["state.json"] \in Final THEN << Do("archive") >> ELSE << >>)
    \o << Put("state.json", "installed"), Do("remove_attempt") >>

\* install: the attempt before the container, the state before the attempt goes.
InstallPlan ==
    << Put("install-attempt.json", "prepared"), Put("install-attempt.json", "starting"),
       Do("up"), Do("wait_healthy") >>
    \o (IF vis["state.json"] \in Final THEN << Do("archive") >> ELSE << >>)
    \o << Put("state.json", "installed"), Do("remove_attempt") >>

Install ==
    /\ Command
    /\ vis["install-attempt.json"] \in {None, "cleaned"}
    /\ vis["state.json"] \in Final \cup {None}
    /\ ~wanted /\ SupAt("down")
    /\ plan' = InstallPlan
    /\ UNCHANGED <<storeVars, hubVars, tokenVars>>

\* The except clause: the container goes, then the evidence is closed.
CleanPlan == << Do("down"), Put("install-attempt.json", "cleaned") >>

\* uninstall: from an installed state, or again from one that was interrupted.
UninstallPlan ==
    (IF vis["state.json"] = "installed" THEN << Put("state.json", "uninstalling") >> ELSE << >>)
    \o << Do("down"), Put("state.json", "uninstalled") >>
    \o (IF vis["install-attempt.json"] = None THEN << >> ELSE << Do("remove_attempt") >>)

Uninstall ==
    /\ Command
    /\ vis["state.json"] \in {"installed", "uninstalling"}
    /\ vis["install-attempt.json"] \in {None, "starting"}
    /\ plan' = UninstallPlan
    /\ UNCHANGED <<storeVars, hubVars, tokenVars>>

-----------------------------------------------------------------------------
(* the steps of a command *)

Open ==
    /\ \/ Next1("put") /\ Head(plan).f = "state.json" /\ HubSave(Head(plan).v)
       \/ Next1("put") /\ Head(plan).f = "install-attempt.json" /\ Save(Head(plan).f, Head(plan).v)
       \/ Next1("archive") /\ Archive(vis["state.json"])
       \/ Next1("remove_attempt") /\ Remove
    /\ Pop /\ UNCHANGED <<hubVars, tokenVars, commands>>

\* The state directory is not in order: install ends where it began.
Refused ==
    /\ Next1("put") /\ Head(plan).f = "install-attempt.json" /\ ~Valid
    /\ plan' = << >> /\ UNCHANGED <<storeVars, hubVars, tokenVars, commands>>

Up ==
    /\ Next1("up") /\ HubStart /\ Pop
    /\ UNCHANGED <<storeVars, tokenVars, commands>>

WaitHealthy ==
    /\ Next1("wait_healthy") /\ Serving /\ Pop
    /\ UNCHANGED <<storeVars, hubVars, tokenVars, commands>>

\* The container is stopped; the command goes on when it is gone.
StopContainer ==
    /\ Next1("down") /\ wanted /\ HubStop
    /\ UNCHANGED <<storeVars, tokenVars, plan, commands>>

ContainerGone ==
    /\ Next1("down") /\ ~wanted /\ SupAt("down") /\ Pop
    /\ UNCHANGED <<storeVars, hubVars, tokenVars, commands>>

MayFail == storeFaults + hubFaults + tokenFaults < MaxHostFaults

\* The container of a reader is alive, and with it its workers.
Alive == child[ReaderSeq[1]] \in {"running", "asked"}
AliveNext == child'[ReaderSeq[1]] \in {"running", "asked"}

HubMoves ==
    /\ op = None
    /\ HubStep \/ (MayFail /\ HubFails)
    /\ IF Alive /\ ~AliveNext THEN WorkersGone ELSE UNCHANGED tokenVars
    /\ UNCHANGED <<storeVars, plan, commands>>

WorkerMoves ==
    /\ plan = << >> /\ op = None /\ Serving
    /\ \E w \in Workers : TokenStep(w) \/ (MayFail /\ TokenFails(w))
    /\ UNCHANGED <<storeVars, hubVars, plan, commands>>

StoreMoves == StoreStep /\ UNCHANGED <<hubVars, tokenVars, plan, commands>>

\* A save, a removal or a wait raises.  Between the first save of the attempt
\* and that of the state install cleans up; every other command just ends.
Cleans ==
    \/ op # None /\ op.v = "installed"
    \/ (\E i \in DOMAIN plan : plan[i].v = "installed") /\ (op # None => op.v # "prepared")
Failed == plan' = IF Cleans THEN CleanPlan ELSE << >>

CommandRaises ==
    /\ MayFail
    /\ \/ StoreRaise
       \/ Next1("wait_healthy") /\ Fault /\ UNCHANGED <<files, temp, op, orphans, done, ops>>
    /\ Failed
    /\ UNCHANGED <<hubVars, tokenVars, commands>>

CommandKilled ==
    /\ MayFail
    /\ \/ StoreKill
       \/ op = None /\ plan # << >> /\ Fault /\ UNCHANGED <<files, temp, op, orphans, done, ops>>
    /\ plan' = << >>
    /\ UNCHANGED <<hubVars, tokenVars, commands>>

PowerLoss ==
    /\ MayFail
    /\ StorePowerLoss /\ HubPowerLoss /\ TokenPowerLoss /\ plan' = << >>
    /\ UNCHANGED commands

Next ==
    \/ Install \/ Uninstall \/ Open \/ Refused \/ Up \/ WaitHealthy \/ StopContainer \/ ContainerGone
    \/ HubMoves \/ WorkerMoves \/ StoreMoves
    \/ CommandRaises \/ CommandKilled \/ PowerLoss

Spec == Init /\ [][Next]_vars

\* A process that runs is scheduled, Docker restarts what it keeps up, and the
\* system calls of an operation on a file return or raise.
HubAlone == HubStep /\ HubMoves
FairSpec == Spec /\ WF_vars(HubAlone) /\ WF_vars(StoreMoves)

-----------------------------------------------------------------------------
\* HubInstaller and HubUninstaller: a container that Docker keeps up is known
\* to evidence that a power loss at this very moment cannot undo (but for a
\* state directory whose creation was interrupted before).
RuntimeIsWitnessed ==
    wanted /\ orphans = {} =>
        \/ May("install-attempt.json") \subseteq {"starting"}
        \/ May("state.json") \subseteq {"installed", "uninstalling"}
=============================================================================
