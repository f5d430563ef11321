------------------------------- MODULE Digest -------------------------------
(* The weekly digest (digest.processor.ts, queue.module.ts).                 *)
(*                                                                           *)
(* A repeating job asks which clients are due, by the start of the run that  *)
(* last mailed them, and mails them one after the other: mail first, stamp   *)
(* second, and a failure of either is caught and the next client served.     *)
(* Every process that runs the queue takes jobs, one at a time, so runs can  *)
(* overlap; a run that dies is run again.                                    *)
EXTENDS Integers, FiniteSets, FiniteSetsExt

CONSTANTS
  Tenants,   \* clients
  Workers,   \* processes that take jobs
  Interval,  \* digestIntervalMs
  MaxTime,   \* bound: the clock stops here
  MaxFaults, \* bound: mails refused, stamps that fail, runs that die
  None       \* null

DigestAssumption ==
  /\ Interval \in Nat \ {0}
  /\ MaxTime \in Nat /\ MaxFaults \in Nat
  /\ None \notin Tenants \cup Nat

VARIABLES
  now,
  enabled,  \* clients that are active and want the digest
  stamp,    \* lastDigestSentAt of each
  queued,   \* a tick waits for a process
  started,  \* of each process: when its run began, None when idle
  due,      \* the clients that its run has still to serve
  mailing,  \* the client it has mailed and not stamped yet
  faults,
  served,   \* history: of each client, the starts of the runs that mailed it
  torn      \* history: clients that a run listed while another had yet to mail or stamp
            \* them, or after a stamp was lost

vars == <<now, enabled, stamp, queued, started, due, mailing, faults, served, torn>>
runVars == <<started, due, mailing>>

Time == 0 .. MaxTime
TypeOK ==
  /\ now \in Time /\ faults \in 0 .. MaxFaults
  /\ enabled \subseteq Tenants /\ queued \in BOOLEAN
  /\ stamp \in [Tenants -> Time \cup {None}]
  /\ started \in [Workers -> Time \cup {None}]
  /\ due \in [Workers -> SUBSET Tenants]
  /\ mailing \in [Workers -> Tenants \cup {None}]
  /\ served \in [Tenants -> SUBSET Time] /\ torn \subseteq Tenants

Init ==
  /\ now = 0 /\ enabled = {} /\ queued = FALSE /\ faults = 0
  /\ stamp = [t \in Tenants |-> None]
  /\ started = [w \in Workers |-> None]
  /\ due = [w \in Workers |-> {}]
  /\ mailing = [w \in Workers |-> None]
  /\ served = [t \in Tenants |-> {}] /\ torn = {}

-----------------------------------------------------------------------------
(* A definition named like the next one with a suffix is that definition with
   one mistake in it, to show which property notices. *)

SetDigest ==
  /\ \E t \in Tenants : enabled' = (enabled \ {t}) \cup ({t} \ enabled)
  /\ UNCHANGED <<now, stamp, queued, runVars, faults, served, torn>>

\* The scheduler queues the next tick when the last one has been taken.
Enqueue ==
  /\ ~queued /\ queued' = TRUE
  /\ UNCHANGED <<now, enabled, stamp, runVars, faults, served, torn>>

IsDue(t) == stamp[t] = None \/ stamp[t] + Interval <= now

Unstamped(t) ==
  \/ served[t] # {} /\ stamp[t] # Max(served[t])
  \/ \E v \in Workers : t \in due[v] \cup {mailing[v]}

Begin(w) ==
  /\ queued /\ started[w] = None
  /\ queued' = FALSE
  /\ started' = [started EXCEPT ![w] = now]
  /\ due' = [due EXCEPT ![w] = {t \in enabled : IsDue(t)}]
  /\ torn' = torn \cup {t \in due'[w] : Unstamped(t)}
  /\ UNCHANGED <<now, enabled, stamp, mailing, faults, served>>

Fails == faults < MaxFaults /\ faults' = faults + 1

MailThen(w, stampFirst) ==
  \E t \in due[w] :
    /\ mailing[w] = None
    /\ due' = [due EXCEPT ![w] = @ \ {t}]
    /\ stamp' = IF stampFirst THEN [stamp EXCEPT ![t] = started[w]] ELSE stamp
    /\ \/ /\ served' = [served EXCEPT ![t] = @ \cup {started[w]}]
          /\ mailing' = [mailing EXCEPT ![w] = t]
          /\ UNCHANGED faults
       \/ Fails /\ UNCHANGED <<served, mailing>>
    /\ UNCHANGED <<now, enabled, queued, started, torn>>
MailStamped(w) == MailThen(w, TRUE)
Mail(w) == MailThen(w, FALSE)

Stamp(w) ==
  /\ mailing[w] # None
  /\ mailing' = [mailing EXCEPT ![w] = None]
  /\ \/ stamp' = [stamp EXCEPT ![mailing[w]] = started[w]] /\ UNCHANGED faults
     \/ Fails /\ UNCHANGED stamp
  /\ UNCHANGED <<now, enabled, queued, started, due, served, torn>>

Stops(w) ==
  /\ started' = [started EXCEPT ![w] = None]
  /\ due' = [due EXCEPT ![w] = {}]
  /\ mailing' = [mailing EXCEPT ![w] = None]
  /\ UNCHANGED <<now, enabled, stamp, served, torn>>

End(w) ==
  /\ started[w] # None /\ due[w] = {} /\ mailing[w] = None
  /\ Stops(w) /\ UNCHANGED <<queued, faults>>

\* A job whose process died is found stalled, and taken again.
Dies(w) ==
  /\ started[w] # None /\ Fails
  /\ Stops(w) /\ queued' = TRUE

Tick ==
  /\ now < MaxTime /\ now' = now + 1
  /\ UNCHANGED <<enabled, stamp, queued, runVars, faults, served, torn>>

Next ==
  \/ \E w \in Workers : Begin(w) \/ Mail(w) \/ Stamp(w) \/ End(w) \/ Dies(w)
  \/ SetDigest \/ Enqueue \/ Tick

Spec == Init /\ [][Next]_vars

-----------------------------------------------------------------------------
(* Properties *)

\* "The cadence is a property of the data": however often a tick comes and
\* whatever a client switches off and on, the runs that mail it begin at least
\* an interval apart; unless one of them listed it before the mail of another
\* was stamped, or when the stamp had been lost.
DigestsSpaced ==
  \A t \in Tenants \ torn :
    \A a, b \in served[t] : a < b => a + Interval <= b

\* "Stamped only after the send is accepted": no client waits an interval for
\* a digest that was never mailed.
StampsAreServed == \A t \in Tenants : stamp[t] \in served[t] \cup {None}

DigestInv == TypeOK /\ DigestsSpaced /\ StampsAreServed
=============================================================================
