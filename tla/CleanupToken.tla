---------------------------- MODULE CleanupToken -----------------------------
(***************************************************************************)
(* The credential of /cache/cleanup (server.py _get_cleanup_token): made   *)
(* on first use, kept in a file shared by the processes of one API, cached *)
(* in each.  A process takes its own lock, then an flock on a second file; *)
(* threads of one process are one client here.                             *)
(***************************************************************************)
EXTENDS Naturals, FiniteSets

CONSTANTS Workers,         \* processes: a worker and the one that replaces it
          MaxTokenFaults   \* bound: exceptions and workers that die

ASSUME TokenAssumption == MaxTokenFaults \in Nat /\ "free" \notin Workers

VARIABLES token,      \* cleanup_token: 0 or the number of the token in it
          tokenDisk,  \* what it may hold after a power loss
          flock,      \* the worker that holds cleanup_token.lock, or "free"
          asks,       \* where each worker is in _persist_cleanup_token
          cached,     \* _cleanup_token_cache of each worker, 0 for None
          lastToken,
          given,      \* tokens returned since the power came on (history variable)
          sworn,      \* tokens returned by the worker that made them (history variable)
          tokenFaults

tokenVars == <<token, tokenDisk, flock, asks, cached, lastToken, given, sworn, tokenFaults>>

TokenInit ==
    /\ token = 0 /\ tokenDisk = {0} /\ flock = "free"
    /\ asks = [w \in Workers |-> "idle"] /\ cached = [w \in Workers |-> 0]
    /\ lastToken = 0 /\ given = {} /\ sworn = {} /\ tokenFaults = 0

TokenFault == tokenFaults < MaxTokenFaults /\ tokenFaults' = tokenFaults + 1

Ask(w) ==
    /\ asks[w] = "idle" /\ cached[w] = 0
    /\ asks' = [asks EXCEPT ![w] = "flock"]
    /\ UNCHANGED <<token, tokenDisk, flock, cached, lastToken, given, sworn, tokenFaults>>

FlockNever(w) ==                           \* mutant: the second lock is not taken
    /\ asks[w] = "flock"
    /\ asks' = [asks EXCEPT ![w] = "look"]
    /\ UNCHANGED <<token, tokenDisk, flock, cached, lastToken, given, sworn, tokenFaults>>

Flock(w) ==
    /\ asks[w] = "flock" /\ flock = "free" /\ flock' = w
    /\ asks' = [asks EXCEPT ![w] = "look"]
    /\ UNCHANGED <<token, tokenDisk, cached, lastToken, given, sworn, tokenFaults>>

\* The worker unlocks and is given token v.
Given(w, v) ==
    /\ asks' = [asks EXCEPT ![w] = "idle"] /\ flock' = "free"
    /\ cached' = [cached EXCEPT ![w] = v]
    /\ given' = given \cup {v}

\* _read_cleanup_token_file: a token that is there is used.
LookToken(w) ==
    /\ asks[w] = "look"
    /\ \/ token # 0 /\ Given(w, token)
       \/ token = 0 /\ asks' = [asks EXCEPT ![w] = "replace"] /\ UNCHANGED <<flock, cached, given>>
    /\ UNCHANGED <<token, tokenDisk, lastToken, sworn, tokenFaults>>

\* The temporary file is written and synced, then takes the name.
ReplaceToken(w) ==
    /\ asks[w] = "replace" /\ asks' = [asks EXCEPT ![w] = "sync"]
    /\ lastToken' = lastToken + 1
    /\ token' = lastToken' /\ tokenDisk' = tokenDisk \cup {lastToken'}
    /\ UNCHANGED <<flock, cached, given, sworn, tokenFaults>>

\* "Persist the rename itself before releasing the inter-process lock".
SyncToken(w) ==
    /\ asks[w] = "sync" /\ Given(w, token)
    /\ tokenDisk' = {token} /\ sworn' = sworn \cup {token}
    /\ UNCHANGED <<token, lastToken, tokenFaults>>

\* An exception ends the request, a death the worker: the locks are released,
\* a file that was replaced stays.
TokenRaises(w) ==
    /\ asks[w] # "idle" /\ TokenFault
    /\ asks' = [asks EXCEPT ![w] = "idle"]
    /\ flock' = IF flock = w THEN "free" ELSE flock
    /\ UNCHANGED <<token, tokenDisk, cached, lastToken, given, sworn>>

WorkerDies(w) ==
    /\ TokenFault
    /\ asks' = [asks EXCEPT ![w] = "idle"] /\ cached' = [cached EXCEPT ![w] = 0]
    /\ flock' = IF flock = w THEN "free" ELSE flock
    /\ UNCHANGED <<token, tokenDisk, lastToken, given, sworn>>

\* All processes of the API are gone.
WorkersGone ==
    /\ asks' = [w \in Workers |-> "idle"] /\ cached' = [w \in Workers |-> 0] /\ flock' = "free"
    /\ UNCHANGED <<token, tokenDisk, lastToken, given, sworn, tokenFaults>>

TokenPowerLoss ==
    /\ asks' = [w \in Workers |-> "idle"] /\ cached' = [w \in Workers |-> 0] /\ flock' = "free"
    /\ token' \in tokenDisk /\ tokenDisk' = {token'} /\ given' = {}
    /\ UNCHANGED <<lastToken, sworn, tokenFaults>>

TokenStep(w) == Ask(w) \/ Flock(w) \/ LookToken(w) \/ ReplaceToken(w) \/ SyncToken(w)
TokenFails(w) == TokenRaises(w) \/ WorkerDies(w)

-----------------------------------------------------------------------------
\* _get_cleanup_token, "serialized across threads and processes, then
\* atomically persisted": all workers give the same token, before and after
\* any of them, the container or the host fails.  A token that was only read,
\* after its maker died before it could sync, is excepted at a power loss.
OneToken == Cardinality(given \cup sworn) <= 1
=============================================================================
