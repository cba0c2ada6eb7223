------------------------------ MODULE Admission ------------------------------
(***************************************************************************)
(* How the API lets a request in (server.py before_request_hook and        *)
(* /session, auth.py, reader_session.py): a sliding window and a limit on  *)
(* concurrent attempts per client address, then the authority, then a      *)
(* second window.  The authority is the broker's table of sessions, which  *)
(* POST /session fills after asking the reader (reader_session mode), or a *)
(* cache of the reader's answers with shared probes (cwa_session mode).    *)
(*                                                                         *)
(* Threads interleave between the blocks that hold a lock.  A clock is     *)
(* read before its lock is taken, so every step uses the reading made at   *)
(* the end of the step before it.  A thread is not delayed between two     *)
(* steps by more than Stall ticks, a probe not by more than Timeout: both  *)
(* bound how far time may run ahead (Tick).                                *)
(*                                                                         *)
(* A browser has one login at the reader and one cookie of ours; it may    *)
(* speak from any address (a phone that changes networks).  Malformed      *)
(* headers and cookies are refused before any of this state is used.       *)
(***************************************************************************)
EXTENDS Naturals, Sequences, FiniteSets, Lists

CONSTANTS Threads, Browsers, Addrs,
          AuthLimit, ApiLimit,  \* BT_AUTH_RATE_LIMIT_PER_MINUTE, BT_RATE_LIMIT_PER_MINUTE
          Window,               \* RATE_LIMIT_WINDOW
          MaxClients,           \* BT_RATE_LIMIT_MAX_CLIENTS
          MaxInflight,          \* BT_AUTH_MAX_INFLIGHT_PER_CLIENT
          TTL, MaxEntries,      \* of sessions and of cached decisions
          MaxFlights,           \* of shared probes
          Stall, Timeout,
          MaxRequests, MaxTime, \* bounds
          None

ASSUME LimitsAssumption ==
    /\ {AuthLimit, ApiLimit, Window, MaxClients, MaxInflight, TTL, MaxEntries, MaxFlights,
        Timeout} \subseteq Nat \ {0}
    /\ Stall \in Nat /\ Stall < Window
ASSUME BoundsAssumption == MaxRequests \in Nat /\ MaxTime \in Nat
ASSUME ThreadsAssumption == IsFiniteSet(Threads)
ASSUME NoneAssumption == None \notin BOOLEAN /\ None \notin Addrs

VARIABLES mode,      \* BT_AUTH_MODE
          clock,
          window,    \* the two stores: client key -> admission times
          inflight,  \* _auth_inflight_store: client key -> attempts
          sessions,  \* the broker's OrderedDict, least recently used first
          decisions, \* _ValidationCache, likewise
          flights,   \* decision keys with a probe under way
          login,     \* browsers the reader accepts
          jar,       \* the cookie of ours each browser holds, 0 for none
          th,        \* the request each thread serves
          lastToken, requests,
          admitted   \* history variable: the admissions of the last Window ticks by
                     \* window and client, each <<its time, how many came before it then>>

vars == <<mode, clock, window, inflight, sessions, decisions, flights, login, jar, th,
          lastToken, requests, admitted>>

Stores == {"auth", "api"}
Limit(s) == IF s = "auth" THEN AuthLimit ELSE ApiLimit
Keys == Addrs \cup Browsers            \* an address, or the subject of an identity
Kinds == {"work", "observe", "exchange", "revoke"}
Empty == [k \in {} |-> << >>]

Idle == [pc |-> "idle", kind |-> "work", browser |-> None, addr |-> None, cookie |-> 0,
         now |-> 0, since |-> 0, ok |-> FALSE, asked |-> 0, valid |-> None]

Init ==
    /\ mode \in {"reader_session", "cwa_session"} /\ clock = 0
    /\ window = [s \in Stores |-> Empty] /\ inflight = [a \in {} |-> 0]
    /\ sessions = << >> /\ decisions = << >> /\ flights = {}
    /\ login = Browsers /\ jar = [b \in Browsers |-> 0]
    /\ th = [t \in Threads |-> Idle]
    /\ lastToken = 0 /\ requests = 0
    /\ admitted = [s \in Stores |-> [k \in Keys |-> {}]]

\* The thread goes on; the clock is read for its next step.
Go(t, pc) == th' = [th EXCEPT ![t].pc = pc, ![t].now = clock, ![t].since = clock]
GoAs(t, rec, pc) == th' = [th EXCEPT ![t] = [rec EXCEPT !.pc = pc, !.now = clock, !.since = clock]]
End(t) == th' = [th EXCEPT ![t] = Idle]
At(t, pc) == th[t].pc = pc

-----------------------------------------------------------------------------
(* lists *)

Holds(table, key) == \E i \in DOMAIN table : table[i].key = key
Of(table, key) == table[CHOOSE i \in DOMAIN table : table[i].key = key]
Without(table, key) == Picked(table, {i \in DOMAIN table : table[i].key # key})
Trimmed(table) == IF Len(table) > MaxEntries THEN SubSeq(table, Len(table) - MaxEntries + 1, Len(table))
                                             ELSE table

-----------------------------------------------------------------------------
(* the sliding windows *)

Live(times, now) == Picked(times, {i \in DOMAIN times : times[i] + Window > now})

ReclaimedOldest(store, now) ==             \* mutant: any bucket is given up under pressure
    Empty

\* Under pressure the buckets without a live entry are dropped.
Reclaimed(store, now) == [k \in { x \in DOMAIN store : Live(store[x], now) # << >> } |-> store[k]]

\* _check_window_rate_limit: the store afterwards, and whether it admits.
Checked(store, k, now, limit) ==
    LET room == k \in DOMAIN store \/ Cardinality(DOMAIN store) < MaxClients
        base == IF room THEN store ELSE Reclaimed(store, now)
        full == k \notin DOMAIN base /\ Cardinality(DOMAIN base) >= MaxClients
        mine == Live(IF k \in DOMAIN base THEN base[k] ELSE << >>, now)
        put(times) == [x \in DOMAIN base \cup {k} |-> IF x = k THEN times ELSE base[x]]
    IN  CASE full                            -> [store |-> base, ok |-> FALSE]
          [] ~full /\ Len(mine) >= limit     -> [store |-> put(mine), ok |-> FALSE]
          [] OTHER                           -> [store |-> put(Append(mine, now)), ok |-> TRUE]

Stamp(set) == <<clock, Cardinality({x \in set : x[1] = clock})>>

\* One check by thread t in store s under key k; it then goes on or answers 429.
CheckWindow(t, s, k, next) ==
    LET c == Checked(window[s], k, th[t].now, Limit(s))
    IN  /\ window' = [window EXCEPT ![s] = c.store]
        /\ IF c.ok THEN next /\ admitted' = [admitted EXCEPT ![s][k] = @ \cup {Stamp(@)}]
                   ELSE End(t) /\ UNCHANGED admitted
        /\ UNCHANGED <<mode, clock, inflight, sessions, decisions, flights, login, jar,
                       lastToken, requests>>

\* _cleanup_rate_limits, the hourly thread.
Sweep ==
    /\ window' = [s \in Stores |->
                    LET kept == Reclaimed(window[s], clock)
                    IN  [k \in DOMAIN kept |-> Live(kept[k], clock)]]
    /\ window' # window
    /\ UNCHANGED <<mode, clock, inflight, sessions, decisions, flights, login, jar, th,
                   lastToken, requests, admitted>>

-----------------------------------------------------------------------------
(* the hook *)

\* Everything but the exchange of a session is protected.
Arrive(t, b, a, kind) ==
    /\ At(t, "idle") /\ requests < MaxRequests
    /\ mode = "cwa_session" => kind \in {"work", "observe"}
    /\ requests' = requests + 1
    /\ GoAs(t, [Idle EXCEPT !.kind = kind, !.browser = b, !.addr = a, !.cookie = jar[b]],
            IF kind = "exchange" THEN "api_window" ELSE "auth_window")
    /\ UNCHANGED <<mode, clock, window, inflight, sessions, decisions, flights, login, jar,
                   lastToken, admitted>>

AuthWindow(t) ==
    /\ At(t, "auth_window")
    /\ CheckWindow(t, "auth", th[t].addr, Go(t, "acquire"))

Held(a) == IF a \in DOMAIN inflight THEN inflight[a] ELSE 0

\* _acquire_auth_inflight
Acquire(t) ==
    LET a == th[t].addr
    IN  /\ At(t, "acquire")
        /\ IF Held(a) >= MaxInflight \/ (Held(a) = 0 /\ Cardinality(DOMAIN inflight) >= MaxClients)
             THEN End(t) /\ UNCHANGED inflight
             ELSE /\ inflight' = [x \in DOMAIN inflight \cup {a} |-> IF x = a THEN Held(a) + 1 ELSE inflight[x]]
                  /\ Go(t, IF th[t].kind = "exchange" THEN "probe" ELSE "authenticate")
        /\ UNCHANGED <<mode, clock, window, sessions, decisions, flights, login, jar, lastToken,
                       requests, admitted>>

ReleasedAll(a) == [x \in DOMAIN inflight \ {a} |-> inflight[x]]    \* mutant: the entry is popped

\* _release_auth_inflight
Released(a) ==
    IF Held(a) <= 1 THEN [x \in DOMAIN inflight \ {a} |-> inflight[x]]
                    ELSE [inflight EXCEPT ![a] = @ - 1]

\* The answer of an exchange carries the new cookie.
SetCookie(r) == jar' = [jar EXCEPT ![r.browser] = r.cookie]

\* The finally clause, then the rest of the hook; an exchange answers here.
Release(t) ==
    LET r == th[t]
    IN  /\ At(t, "release")
        /\ inflight' = Released(r.addr)
        /\ IF ~r.ok THEN End(t) /\ UNCHANGED jar
           ELSE IF r.kind = "exchange" THEN End(t) /\ SetCookie(r)
           ELSE Go(t, IF r.kind = "observe" THEN "served" ELSE "api_window") /\ UNCHANGED jar
        /\ UNCHANGED <<mode, clock, window, sessions, decisions, flights, login, lastToken,
                       requests, admitted>>

\* Where the route goes: /session checks its caller once more, itself.
Route(kind) ==
    CASE kind = "exchange" -> "auth_window"
      [] kind = "revoke"   -> "reauthenticate"
      [] OTHER             -> "served"

\* The window of the work itself, under the identity when there is one.
ApiWindow(t) ==
    LET r == th[t]
    IN  /\ At(t, "api_window")
        /\ CheckWindow(t, "api", IF r.ok THEN r.browser ELSE r.addr,
              Go(t, Route(r.kind)))

\* The handler of the route runs and answers.
Serve(t) ==
    /\ At(t, "served") /\ End(t)
    /\ UNCHANGED <<mode, clock, window, inflight, sessions, decisions, flights, login, jar,
                   lastToken, requests, admitted>>

-----------------------------------------------------------------------------
(* ReaderSessionBroker *)

Session(r) == Of(sessions, r.cookie)
AcceptsAnyAge(r) ==                        \* mutant: the expiry of the session is not looked at
    Holds(sessions, r.cookie) /\ Session(r).addr = r.addr

\* Expired or unknown, from another address, or accepted and moved to the end.
Accepts(r) == Holds(sessions, r.cookie) /\ Session(r).expires > r.now /\ Session(r).addr = r.addr

Touched(r) ==
    IF Accepts(r) THEN Append(Without(sessions, r.cookie), Session(r))
    ELSE IF Holds(sessions, r.cookie) /\ Session(r).expires <= r.now THEN Without(sessions, r.cookie)
    ELSE sessions

\* ReaderSessionBroker.authenticate, called by the hook.
Authenticate(t) ==
    LET r == th[t]
    IN  /\ At(t, "authenticate") /\ mode = "reader_session"
        /\ sessions' = Touched(r)
        /\ IF Accepts(r) THEN GoAs(t, [r EXCEPT !.ok = TRUE, !.asked = Session(r).asked], "release")
                         ELSE Go(t, "release")
        /\ UNCHANGED <<mode, clock, window, inflight, decisions, flights, login, jar, lastToken,
                       requests, admitted>>

\* revoke: the same check again, then the removal under a second lock.
Reauthenticate(t) ==
    /\ At(t, "reauthenticate")
    /\ sessions' = Touched(th[t])
    /\ IF Accepts(th[t]) THEN Go(t, "remove") ELSE End(t)
    /\ UNCHANGED <<mode, clock, window, inflight, decisions, flights, login, jar, lastToken,
                   requests, admitted>>

RemoveToken(t) ==
    LET r == th[t]
    IN  /\ At(t, "remove") /\ End(t)
        /\ sessions' = Without(sessions, r.cookie)
        /\ jar' = [jar EXCEPT ![r.browser] = 0]
        /\ UNCHANGED <<mode, clock, window, inflight, decisions, flights, login, lastToken,
                       requests, admitted>>

\* exchange asks the reader itself (_probe); only a login that it accepts goes on.
ProbeReader(t) ==
    /\ At(t, "probe") /\ mode = "reader_session"
    /\ \E accepted \in {th[t].browser \in login, FALSE} :
         GoAs(t, [th[t] EXCEPT !.asked = clock], IF accepted THEN "mint" ELSE "release")
    /\ UNCHANGED <<mode, clock, window, inflight, sessions, decisions, flights, login, jar,
                   lastToken, requests, admitted>>

\* The end of exchange: the prior token goes, the new one comes, expired
\* ones and the oldest beyond the limit go.
Mint(t) ==
    LET r     == th[t]
        fresh == [key |-> lastToken + 1, browser |-> r.browser, addr |-> r.addr,
                  expires |-> r.now + TTL, asked |-> r.asked]
        all   == Append(Without(sessions, r.cookie), fresh)
    IN  /\ At(t, "mint")
        /\ lastToken' = lastToken + 1
        /\ sessions' = Trimmed(Picked(all, {i \in DOMAIN all : all[i].expires > r.now}))
        /\ GoAs(t, [r EXCEPT !.ok = TRUE, !.cookie = lastToken + 1], "release")
        /\ UNCHANGED <<mode, clock, window, inflight, decisions, flights, login, jar, requests, admitted>>

-----------------------------------------------------------------------------
(* _authenticate_cwa_session: the cache of decisions and the shared probe *)

Decision(r) == <<r.browser, r.addr>>
Hit(r) == Holds(decisions, Decision(r)) /\ Of(decisions, Decision(r)).expires > r.now

\* _ValidationCache.get
CacheGet(t) ==
    LET r == th[t]  e == Of(decisions, Decision(r))
    IN  /\ At(t, "authenticate") /\ mode = "cwa_session"
        /\ IF Hit(r)
             THEN /\ decisions' = Append(Without(decisions, e.key), e)
                  /\ GoAs(t, [r EXCEPT !.ok = e.valid, !.asked = e.asked], "release")
             ELSE decisions' = Without(decisions, Decision(r)) /\ Go(t, "fly")
        /\ UNCHANGED <<mode, clock, window, inflight, sessions, flights, login, jar, lastToken,
                       requests, admitted>>

\* SingleFlight.run: the leader probes, others wait, a full registry refuses.
Fly(t) ==
    LET k == Decision(th[t])
    IN  /\ At(t, "fly")
        /\ IF k \in flights THEN Go(t, "wait") /\ UNCHANGED flights
           ELSE IF Cardinality(flights) >= MaxFlights THEN Go(t, "release") /\ UNCHANGED flights
           ELSE Go(t, "probe") /\ flights' = flights \cup {k}
        /\ UNCHANGED <<mode, clock, window, inflight, sessions, decisions, login, jar, lastToken,
                       requests, admitted>>

Waiting(t, k) == At(t, "wait") /\ Decision(th[t]) = k /\ th[t].valid = None

\* _probe_cwa: the reader answers the leader and with it every follower that
\* waits, or it is unavailable (None): then nobody is let in and nothing kept.
ProbeCwa(t) ==
    /\ At(t, "probe") /\ mode = "cwa_session"
    /\ \E answer \in {th[t].browser \in login, None} :
         th' = [u \in Threads |->
                  IF u = t \/ Waiting(u, Decision(th[t]))
                    THEN [th[u] EXCEPT !.pc = IF answer = None THEN "release" ELSE "put",
                                       !.valid = answer, !.asked = clock, !.now = clock, !.since = clock]
                    ELSE th[u]]
    /\ flights' = flights \ {Decision(th[t])}
    /\ UNCHANGED <<mode, clock, window, inflight, sessions, decisions, login, jar, lastToken,
                   requests, admitted>>

\* A follower gives up.
WaitTimeout(t) ==
    /\ At(t, "wait") /\ Go(t, "release")
    /\ UNCHANGED <<mode, clock, window, inflight, sessions, decisions, flights, login, jar,
                   lastToken, requests, admitted>>

\* _ValidationCache.put, by the leader and by every follower.
CachePut(t) ==
    LET r == th[t]
        e == [key |-> Decision(r), expires |-> clock + TTL, valid |-> r.valid, asked |-> r.asked]
    IN  /\ At(t, "put")
        /\ decisions' = Trimmed(Append(Without(decisions, Decision(r)), e))
        /\ GoAs(t, [r EXCEPT !.ok = r.valid], "release")
        /\ UNCHANGED <<mode, clock, window, inflight, sessions, flights, login, jar, lastToken,
                       requests, admitted>>

-----------------------------------------------------------------------------
(* time, and the reader's own login *)

Patience(t) == IF th[t].pc \in {"probe", "wait"} THEN Timeout ELSE Stall

Tick ==
    /\ clock < MaxTime
    /\ \A t \in Threads : At(t, "idle") \/ clock < th[t].since + Patience(t)
    /\ clock' = clock + 1
    /\ admitted' = [s \in Stores |-> [k \in Keys |-> {x \in admitted[s][k] : x[1] + Window > clock'}]]
    /\ UNCHANGED <<mode, window, inflight, sessions, decisions, flights, login, jar, th, lastToken, requests>>

Logout(b) ==
    /\ b \in login /\ login' = login \ {b}
    /\ UNCHANGED <<mode, clock, window, inflight, sessions, decisions, flights, jar, th, lastToken,
                   requests, admitted>>

Step(t) ==
    \/ AuthWindow(t) \/ Acquire(t) \/ Release(t) \/ ApiWindow(t) \/ Serve(t)
    \/ Authenticate(t) \/ Reauthenticate(t) \/ RemoveToken(t) \/ Mint(t)
    \/ ProbeReader(t) \/ CacheGet(t) \/ Fly(t) \/ ProbeCwa(t) \/ WaitTimeout(t) \/ CachePut(t)

Next ==
    \/ \E t \in Threads : Step(t)
    \/ \E t \in Threads, b \in Browsers, a \in Addrs, kind \in Kinds : Arrive(t, b, a, kind)
    \/ Sweep \/ Tick \/ \E b \in Browsers : Logout(b)

Spec == Init /\ [][Next]_vars

-----------------------------------------------------------------------------
Entry == [key : Nat, browser : Browsers, addr : Addrs, expires : Nat, asked : Nat]
Verdict == [key : Browsers \X Addrs, expires : Nat, valid : BOOLEAN, asked : Nat]

Waits == {"auth_window", "acquire", "authenticate", "probe", "mint", "fly", "wait", "put", "release",
          "api_window", "reauthenticate", "remove", "served"}
Request == [pc : Waits \cup {"idle"}, kind : Kinds, browser : Browsers \cup {None},
            addr : Addrs \cup {None}, cookie : Nat, now : Nat, since : Nat, ok : BOOLEAN,
            asked : Nat, valid : BOOLEAN \cup {None}]

TypeOK ==
    /\ mode \in {"reader_session", "cwa_session"}
    /\ clock \in 0 .. MaxTime /\ requests \in 0 .. MaxRequests /\ lastToken \in Nat
    /\ \A s \in Stores : DOMAIN window[s] \subseteq Keys
                       /\ \A k \in DOMAIN window[s] : window[s][k] \in Seq(Nat)
    /\ DOMAIN inflight \subseteq Addrs /\ \A a \in DOMAIN inflight : inflight[a] \in Nat \ {0}
    /\ sessions \in Seq(Entry)
    /\ decisions \in Seq(Verdict)
    /\ flights \subseteq Browsers \X Addrs /\ login \subseteq Browsers
    /\ jar \in [Browsers -> Nat]
    /\ th \in [Threads -> Request]
    /\ \A t \in Threads : ~At(t, "idle") => th[t].browser \in Browsers /\ th[t].addr \in Addrs

\* _check_window_rate_limit, around its lock: over every span of Window less
\* the delay between reading the clock and taking the lock, a client is let
\* in at most as often as the limit says, although buckets are dropped under
\* pressure, swept by another thread, and filled out of order.
WindowRespected ==
    \A s \in Stores, k \in Keys : \A e \in admitted[s][k] :
        Cardinality({x \in admitted[s][k] : x[1] <= e[1] /\ x[1] + Window > e[1] + Stall}) <= Limit(s)

\* BT_RATE_LIMIT_MAX_CLIENTS bounds all three tables.
TablesBounded ==
    /\ \A s \in Stores : Cardinality(DOMAIN window[s]) <= MaxClients
    /\ Cardinality(DOMAIN inflight) <= MaxClients
    /\ Len(sessions) <= MaxEntries /\ Len(decisions) <= MaxEntries

Attempting(t) == th[t].pc \in {"authenticate", "probe", "mint", "fly", "wait", "put", "release"}

\* _acquire_auth_inflight and the finally clauses: the counter of an address
\* is exactly the number of its requests that are being authenticated, on
\* every path out of it, so it never leaks and never lets in too many.
InflightExact ==
    \A a \in Addrs : Held(a) = Cardinality({ t \in Threads : Attempting(t) /\ th[t].addr = a })

\* Whoever is authenticated was accepted by the reader itself not longer ago
\* than the lifetime of a session or decision and the delays on the way,
\* however often the entry was used, refreshed or written by late followers.
AuthIsFresh ==
    [][ \A t \in Threads : th'[t].ok /\ ~th[t].ok => clock < th'[t].asked + TTL + 2 * Stall ]_vars
=============================================================================
