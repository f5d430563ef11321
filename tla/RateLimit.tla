----------------------------- MODULE RateLimit -----------------------------
(* The rate limiter (rate-limit.guard.ts, rate-limit.store.ts): one caller's *)
(* counter for one route.                                                    *)
(*                                                                           *)
(* Every API process asks its store, which is one counter in Redis that all  *)
(* of them share, or a counter of its own.  The script that counts in Redis  *)
(* also sets the expiry, in one step.  A store that cannot answer lets the   *)
(* request through.  The client of a process reconnects a few times, then    *)
(* gives up until the process restarts.                                      *)
EXTENDS Integers, FiniteSets, Sequences

CONSTANTS
  Processes, \* API processes
  Limit,     \* requests allowed in a window
  Window,    \* its length
  Attempts,  \* reconnections a client tries
  MaxTime,   \* bound: the clock stops here
  MaxHits,   \* bound: requests counted in a window
  None       \* no expiry

RateLimitAssumption ==
  /\ IsFiniteSet(Processes)
  /\ {Limit, Window} \subseteq Nat \ {0}
  /\ {Attempts, MaxTime, MaxHits} \subseteq Nat
  /\ None \notin Nat

VARIABLES
  now,
  shared,  \* the store is in Redis
  counter, \* in Redis, and of each process: its count and when it expires
  up,      \* Redis answers
  failed,  \* of each client: connections lost or refused in a row
  passed,  \* history: the requests counted and let through, with their counter,
           \* its expiry and their number in it, until a counter is forgotten
  forgot   \* history: a counter that had not expired was lost

vars == <<now, shared, counter, up, failed, passed, forgot>>

Redis == "redis"
Counters == Processes \cup {Redis}
Times == 0 .. MaxTime
Counter == [count : 0 .. MaxHits, expires : Nat \cup {None}]
Pass == [at : Times, store : Counters, expires : Nat, number : 1 .. MaxHits]

TypeOK ==
  /\ now \in Times
  /\ shared \in BOOLEAN /\ up \in BOOLEAN
  /\ counter \in [Counters -> Counter]
  /\ failed \in [Processes -> 0 .. Attempts + 1]
  /\ passed \in Seq(Pass)
  /\ forgot \in BOOLEAN

Empty == [count |-> 0, expires |-> None]

\* rateLimitStore chooses once, from the environment.
Init ==
  /\ now = 0 /\ shared \in BOOLEAN /\ up = TRUE
  /\ counter = [k \in Counters |-> Empty]
  /\ failed = [p \in Processes |-> 0]
  /\ passed = <<>>
  /\ forgot = FALSE

-----------------------------------------------------------------------------
(* A definition named like the next one with a suffix is that definition with
   one mistake in it, to show which property notices. *)

StoreOf(p) == IF shared THEN Redis ELSE p
Ended(p) == failed[p] > Attempts
Reachable(p) == shared => up /\ failed[p] = 0

\* hit(): the window begins with the first request after the last one expired.
Expired(k) == counter[k].expires # None /\ counter[k].expires <= now
Counted(k) == IF Expired(k) THEN 1 ELSE counter[k].count + 1
Expires(k) == IF Counted(k) = 1 THEN now + Window ELSE counter[k].expires

AdmitThat(p, limit) ==
  /\ Reachable(p)
  /\ LET k == StoreOf(p) IN
       /\ Counted(k) <= MaxHits
       /\ counter' = [counter EXCEPT ![k] = [count |-> Counted(k), expires |-> Expires(k)]]
       /\ passed' = IF Counted(k) > limit \/ forgot THEN passed
                    ELSE Append(passed, [at |-> now, store |-> k, expires |-> Expires(k),
                                         number |-> Counted(k)])
  /\ UNCHANGED <<now, shared, up, failed, forgot>>
AdmitOneMore(p) == AdmitThat(p, Limit + 1)
Admit(p) == AdmitThat(p, Limit)

\* The request goes on, uncounted.
FailOpen(p) ==
  /\ ~Reachable(p)
  /\ UNCHANGED vars

Forget(k) ==
  /\ counter' = [counter EXCEPT ![k] = Empty]
  /\ forgot' = (forgot \/ counter[k].count > 0)

\* The connection breaks; Redis may keep its counters or lose them.
Lost ==
  /\ up /\ up' = FALSE
  /\ failed' = [p \in Processes |-> IF Ended(p) THEN failed[p] ELSE 1]
  /\ \/ UNCHANGED <<counter, forgot>>
     \/ Forget(Redis)
  /\ UNCHANGED <<now, shared, passed>>

Back ==
  /\ ~up /\ up' = TRUE
  /\ UNCHANGED <<now, shared, counter, failed, passed, forgot>>

\* retryStrategy answers null after so many attempts, and the client ends.
Reconnect(p) ==
  /\ failed[p] > 0 /\ ~Ended(p)
  /\ failed' = [failed EXCEPT ![p] = IF up THEN 0 ELSE @ + 1]
  /\ UNCHANGED <<now, shared, counter, up, passed, forgot>>

\* A restart begins with a new client and, in memory, with no counter.
Restart(p) ==
  /\ failed' = [failed EXCEPT ![p] = IF up THEN 0 ELSE 1]
  /\ Forget(p)
  /\ UNCHANGED <<now, shared, up, passed>>

Tick ==
  /\ now < MaxTime /\ now' = now + 1
  /\ UNCHANGED <<shared, counter, up, failed, passed, forgot>>

Next ==
  \/ \E p \in Processes : Admit(p) \/ FailOpen(p) \/ Reconnect(p) \/ Restart(p)
  \/ Lost \/ Back \/ Tick

Spec == Init /\ [][Next]_vars

-----------------------------------------------------------------------------
(* Properties *)

\* No refusal is for ever: a counter has an expiry, and not later than a window
\* ahead, whatever Redis forgets and whoever asks in between.
RefusalEnds ==
  \A k \in Counters : counter[k].count > 0 =>
    counter[k].expires # None /\ counter[k].expires <= now + Window

\* The limit is the deployment's, not each process's, when the store is in
\* Redis: unless a counter is lost, any stretch of time as long as a window
\* lets at most two windows' worth of counted requests through, however they
\* are spread over the processes.
InWindow(t) == {i \in DOMAIN passed : t <= passed[i].at /\ passed[i].at < t + Window}
Stores == IF shared THEN {Redis} ELSE Processes
LimitHolds ==
  ~forgot => \A t \in Times :
    Cardinality(InWindow(t)) <= 2 * Limit * Cardinality(Stores)

RateLimitInv == TypeOK /\ RefusalEnds /\ LimitHolds
=============================================================================
