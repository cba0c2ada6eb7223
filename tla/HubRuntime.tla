----------------------------- MODULE HubRuntime ------------------------------
(***************************************************************************)
(* The universal hub as a container (hub_runtime.py, PID 1): it prepares   *)
(* the data directory of every reader, tests the nginx configuration,      *)
(* starts one API per reader and one nginx, and stops everything when one  *)
(* of them ends.  Docker starts the container again unless it was stopped  *)
(* on purpose (restart: unless-stopped).                                   *)
(*                                                                         *)
(* Preparing imports server.py once for each reader, which loads or        *)
(* creates the session key (reader_session.py): the one file a generation  *)
(* leaves to the next, written in several steps.                           *)
(***************************************************************************)
EXTENDS Naturals, Sequences

CONSTANTS ReaderSeq,      \* the enabled readers, in the order of the configuration
          MaxHubFaults    \* bound: children, calls and containers that fail

ASSUME HubAssumption == ReaderSeq # << >> /\ MaxHubFaults \in Nat

Readers == { ReaderSeq[i] : i \in DOMAIN ReaderSeq }
ProcSeq == Append(ReaderSeq, "nginx")      \* process_specs, an API named by its reader
Procs == { ProcSeq[i] : i \in DOMAIN ProcSeq }

VARIABLES sup,       \* the supervisor: where it is, the index of its loop, its exit status
          child,     \* each process: off, running, asked to end (SIGTERM), exited
          stopping,  \* request_stop was called
          wanted,    \* Docker keeps the container up
          key,       \* reader_session.key of each reader: none, short or whole
          keyDisk,   \* what it may be after a power loss
          hubFaults

hubVars == <<sup, child, stopping, wanted, key, keyDisk, hubFaults>>

Down == [pc |-> "down", i |-> 1, code |-> 0]

HubInit ==
    /\ sup = Down /\ child = [p \in Procs |-> "off"]
    /\ stopping = FALSE /\ wanted = FALSE
    /\ key = [r \in Readers |-> "none"] /\ keyDisk = [r \in Readers |-> {"none"}]
    /\ hubFaults = 0

SupAt(pc) == sup.pc = pc
Reader == ReaderSeq[sup.i]
Proc == ProcSeq[sup.i]
SupGo(pc) == sup' = [sup EXCEPT !.pc = pc]
SupGoTo(pc, i) == sup' = [sup EXCEPT !.pc = pc, !.i = i]
Leave(code) == sup' = [pc |-> "return", i |-> 1, code |-> code]
HubFault == hubFaults < MaxHubFaults /\ hubFaults' = hubFaults + 1

\* Docker starts a generation; from_environment and the directories are fine.
Boot ==
    /\ SupAt("down") /\ wanted /\ SupGoTo("open", 1)
    /\ UNCHANGED <<child, stopping, wanted, key, keyDisk, hubFaults>>

-----------------------------------------------------------------------------
(* prepare_runtime: load_or_create_session_key for each reader, then nginx -t *)

\* O_CREAT | O_EXCL: the file is there, and empty.
KeyOpen ==
    /\ SupAt("open")
    /\ IF key[Reader] = "none"
         THEN /\ SupGo("write")
              /\ key' = [key EXCEPT ![Reader] = "short"]
              /\ keyDisk' = [keyDisk EXCEPT ![Reader] = @ \cup {"short"}]
         ELSE SupGo("read") /\ UNCHANGED <<key, keyDisk>>
    /\ UNCHANGED <<child, stopping, wanted, hubFaults>>

\* The bytes are written and the file synced, not yet its directory.
KeyWrite ==
    /\ SupAt("write") /\ SupGo("sync")
    /\ key' = [key EXCEPT ![Reader] = "whole"]
    /\ keyDisk' = [keyDisk EXCEPT ![Reader] = (@ \ {"short"}) \cup {"whole"}]
    /\ UNCHANGED <<child, stopping, wanted, hubFaults>>

KeySync ==
    /\ SupAt("sync") /\ SupGo("read")
    /\ keyDisk' = [keyDisk EXCEPT ![Reader] = {key[Reader]}]
    /\ UNCHANGED <<child, stopping, wanted, key, hubFaults>>

\* The file is opened again and must have 32 bytes.
KeyAccepted(r) == key[r] = "whole"

KeyRead ==
    /\ SupAt("read")
    /\ IF ~KeyAccepted(Reader) THEN Leave(78)
         ELSE IF sup.i < Len(ReaderSeq) THEN SupGoTo("open", sup.i + 1) ELSE SupGo("test")
    /\ UNCHANGED <<child, stopping, wanted, key, keyDisk, hubFaults>>

\* The handler of load_or_create_session_key removes the file it made.
KeyRaises ==
    /\ sup.pc \in {"write", "sync"} /\ HubFault /\ Leave(78)
    /\ key' = [key EXCEPT ![Reader] = "none"]
    /\ keyDisk' = [keyDisk EXCEPT ![Reader] = @ \cup {"none"}]
    /\ UNCHANGED <<child, stopping, wanted>>

NginxTest ==
    /\ SupAt("test") /\ SupGoTo("spawn", 1)
    /\ UNCHANGED <<child, stopping, wanted, key, keyDisk, hubFaults>>

\* A directory, an import of server.py or nginx -t fails.
PrepareRaises ==
    /\ sup.pc \in {"open", "read", "test"} /\ HubFault /\ Leave(78)
    /\ UNCHANGED <<child, stopping, wanted, key, keyDisk>>

-----------------------------------------------------------------------------
(* supervise *)

Spawn ==
    /\ SupAt("spawn")
    /\ child' = [child EXCEPT ![Proc] = "running"]
    /\ IF sup.i < Len(ProcSeq) THEN SupGoTo("spawn", sup.i + 1) ELSE SupGoTo("watch", 1)
    /\ UNCHANGED <<stopping, wanted, key, keyDisk, hubFaults>>

\* Popen raises: nothing stops the children started before, main returns 78.
SpawnRaises ==
    /\ SupAt("spawn") /\ HubFault /\ Leave(78)
    /\ UNCHANGED <<child, stopping, wanted, key, keyDisk>>

\* The loop meets a child that ended; "returncode or 1".
Observe ==
    /\ SupAt("watch") /\ \E p \in Procs : child[p] = "exited"
    /\ sup' = [pc |-> "terminate", i |-> 1, code |-> 1]
    /\ UNCHANGED <<child, stopping, wanted, key, keyDisk, hubFaults>>

ObserveStop ==
    /\ SupAt("watch") /\ stopping
    /\ sup' = [pc |-> "terminate", i |-> 1, code |-> 0]
    /\ UNCHANGED <<child, stopping, wanted, key, keyDisk, hubFaults>>

\* _stop_processes
Terminate ==
    /\ SupAt("terminate") /\ SupGoTo("wait", 1)
    /\ child' = [p \in Procs |-> IF child[p] = "running" THEN "asked" ELSE child[p]]
    /\ UNCHANGED <<stopping, wanted, key, keyDisk, hubFaults>>

WaitOn == IF sup.i < Len(ProcSeq) THEN SupGoTo("wait", sup.i + 1) ELSE SupGo("return")

Wait ==
    /\ SupAt("wait") /\ child[Proc] = "exited" /\ WaitOn
    /\ UNCHANGED <<child, stopping, wanted, key, keyDisk, hubFaults>>

WaitForever ==                             \* mutant: the wait has no timeout
    /\ FALSE
    /\ UNCHANGED hubVars

\* Ten seconds have passed.
WaitKill ==
    /\ SupAt("wait") /\ child[Proc] = "asked" /\ WaitOn
    /\ child' = [child EXCEPT ![Proc] = "exited"]
    /\ UNCHANGED <<stopping, wanted, key, keyDisk, hubFaults>>

\* PID 1 is gone, and with it every process of the container.
Return ==
    /\ SupAt("return") /\ sup' = Down
    /\ child' = [p \in Procs |-> "off"] /\ stopping' = FALSE
    /\ UNCHANGED <<wanted, key, keyDisk, hubFaults>>

-----------------------------------------------------------------------------
(* Docker, the children and the host *)

HandlersInstalled == sup.pc \in {"spawn", "watch", "terminate", "wait"}

\* docker start and docker stop.  PID 1 does not see a signal without a handler.
HubStart == wanted' = TRUE /\ UNCHANGED <<sup, child, stopping, key, keyDisk, hubFaults>>
HubStop ==
    /\ wanted' = FALSE
    /\ stopping' = (stopping \/ HandlersInstalled)
    /\ UNCHANGED <<sup, child, key, keyDisk, hubFaults>>

\* Docker's own timeout of a stop, or the removal of the container: SIGKILL.
StopTimeout ==
    /\ ~wanted /\ ~SupAt("down") /\ sup' = Down
    /\ child' = [p \in Procs |-> "off"] /\ stopping' = FALSE
    /\ UNCHANGED <<wanted, key, keyDisk, hubFaults>>

ChildExits(p) ==
    /\ \/ child[p] = "running" /\ HubFault
       \/ child[p] = "asked" /\ UNCHANGED hubFaults
    /\ child' = [child EXCEPT ![p] = "exited"]
    /\ UNCHANGED <<sup, stopping, wanted, key, keyDisk>>

HubKill ==
    /\ ~SupAt("down") /\ HubFault /\ sup' = Down
    /\ child' = [p \in Procs |-> "off"] /\ stopping' = FALSE
    /\ UNCHANGED <<wanted, key, keyDisk>>

HubPowerLoss ==
    /\ sup' = Down /\ child' = [p \in Procs |-> "off"] /\ stopping' = FALSE
    /\ key' \in { k \in [Readers -> {"none", "short", "whole"}] : \A r \in Readers : k[r] \in keyDisk[r] }
    /\ keyDisk' = [r \in Readers |-> {key'[r]}]
    /\ UNCHANGED <<wanted, hubFaults>>

\* What the supervisor and Docker do on their own.
HubStep ==
    \/ Boot \/ KeyOpen \/ KeyWrite \/ KeySync \/ KeyRead \/ NginxTest
    \/ Spawn \/ Observe \/ ObserveStop \/ Terminate \/ Wait \/ WaitKill \/ Return \/ StopTimeout

HubFails ==
    \/ KeyRaises \/ PrepareRaises \/ SpawnRaises \/ HubKill
    \/ \E p \in Procs : ChildExits(p)

-----------------------------------------------------------------------------
HubTypeOK ==
    /\ sup.i \in DOMAIN ProcSeq /\ child \in [Procs -> {"off", "running", "asked", "exited"}]
    /\ key \in [Readers -> {"none", "short", "whole"}]
    /\ \A r \in Readers : key[r] \in keyDisk[r]
    /\ hubFaults \in 0 .. MaxHubFaults

Serving == SupAt("watch") /\ \A p \in Procs : child[p] = "running"
Stuck == \E r \in Readers : key[r] = "short"

\* load_or_create_session_key across generations: an API runs only with a
\* complete key on file, whenever an earlier generation was killed while it
\* wrote one.
KeyIsWhole == \A r \in Readers : child[r] = "running" => key[r] = "whole"

\* supervise: when it returns the status of a child or of a stop, every child
\* has ended, the one that ignored SIGTERM too.
StopsTogether == SupAt("return") /\ sup.code # 78 => \A p \in Procs : child[p] = "exited"

\* "Run every enabled reader and fail the whole container on one child exit":
\* no reader is left half served.
FailsFast == (\E p \in Procs : child[p] = "exited") ~> SupAt("down")

\* Whatever child, call or container failed, a hub that is wanted serves every
\* reader again, unless a key was left short.
ServesAgain == wanted ~> Serving \/ ~wanted \/ Stuck

\* reader_session.py: "Load or atomically create one private 256-bit connector
\* secret."
NeverStuck == SupAt("down") => ~Stuck
=============================================================================
