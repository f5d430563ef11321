------------------------------ MODULE Startup ------------------------------
(* Processes starting: migrations at boot and the schema check               *)
(* (migrate-on-boot.ts, schema-guard.ts, main.ts, worker.ts).                *)
(*                                                                           *)
(* Several processes start together, of images that may ship different       *)
(* numbers of migrations.  Each one lets `prisma migrate deploy` apply what   *)
(* is pending, under an advisory lock that the engine takes, then counts the *)
(* migrations that the database has finished, and only then serves.  The     *)
(* engine of a process whose timeout has passed may survive it.              *)
EXTENDS Integers, FiniteSets

CONSTANTS
  Apis, Workers, \* processes that start at main.ts, and at worker.ts
  Shipped,       \* how many migrations the image of each one holds
  Retries,       \* how often the schema check waits for a deploy
  None           \* nobody

\* There are finitely many images, so that one of them is the newest.
StartupAssumption ==
  /\ Apis \cap Workers = {}
  /\ Shipped \in [Apis \cup Workers -> Nat \ {0}]
  /\ \E i \in Apis \cup Workers : \A j \in Apis \cup Workers : Shipped[j] <= Shipped[i]
  /\ Retries \in Nat
  /\ None \notin Apis \cup Workers

VARIABLES
  applied, \* migrations that the database has finished
  begun,   \* _prisma_migrations holds a row that is started and not finished
  lock,    \* the process whose engine holds the advisory lock
  engine,  \* of each process: none, waiting, holding, or its exit code
  pc,      \* of each process: off, migrate, running, check, serving or dead
  onBoot,  \* processes with MIGRATE_ON_BOOT
  tries,   \* how often its schema check has found migrations pending
  working, \* processes whose BullMQ workers take jobs
  broken,  \* history: the migration that is begun has failed
  refused  \* history: why a process refused to start

vars == <<applied, begun, lock, engine, pc, onBoot, tries, working, broken, refused>>
dbVars == <<applied, begun, broken>>

Processes == Apis \cup Workers
Newest == CHOOSE n \in {Shipped[i] : i \in Processes} : \A i \in Processes : Shipped[i] <= n
Exits == {"done", "failed"}

TypeOK ==
  /\ applied \in 1 .. Newest /\ begun \in BOOLEAN /\ broken \in BOOLEAN
  /\ lock \in Processes \cup {None}
  /\ engine \in [Processes -> {"none", "waiting", "holding"} \cup Exits]
  /\ pc \in [Processes -> {"off", "migrate", "running", "check", "serving", "dead"}]
  /\ onBoot \subseteq Processes /\ working \subseteq Processes
  /\ tries \in [Processes -> 0 .. Retries]
  /\ refused \in [Processes -> {None, "exit", "timeout", "begun", "behind"}]

\* A database that some image has brought up to date.
Init ==
  /\ applied \in 1 .. Newest /\ begun = FALSE /\ broken = FALSE
  /\ lock = None
  /\ engine = [i \in Processes |-> "none"]
  /\ pc = [i \in Processes |-> "off"]
  /\ onBoot \in SUBSET Processes
  /\ tries = [i \in Processes |-> 0]
  /\ working = {}
  /\ refused = [i \in Processes |-> None]

-----------------------------------------------------------------------------
(* Starting.  A definition named like the next one with a suffix is that
   definition with one mistake in it, to show which property notices. *)

\* The worker's application context is initialised before anything else, and
\* that starts the queue's consumers; the API's only once it listens.
Boot(i) ==
  /\ pc[i] = "off"
  /\ pc' = [pc EXCEPT ![i] = IF i \in onBoot THEN "migrate" ELSE "check"]
  /\ working' = IF i \in Workers THEN working \cup {i} ELSE working
  /\ UNCHANGED <<dbVars, lock, engine, onBoot, tries, refused>>

Migrate(i) ==
  /\ pc[i] = "migrate"
  /\ pc' = [pc EXCEPT ![i] = "running"]
  /\ engine' = [engine EXCEPT ![i] = "waiting"]
  /\ UNCHANGED <<dbVars, lock, onBoot, tries, working, refused>>

\* A process that refuses to start ends, and its consumers with it.
Refuse(i, why) ==
  /\ pc' = [pc EXCEPT ![i] = "dead"]
  /\ refused' = [refused EXCEPT ![i] = why]
  /\ working' = working \ {i}

MigrateExits(i, accepted) ==
  /\ pc[i] = "running" /\ engine[i] \in Exits
  /\ IF engine[i] \in accepted
       THEN pc' = [pc EXCEPT ![i] = "check"] /\ UNCHANGED <<working, refused>>
       ELSE Refuse(i, "exit")
  /\ UNCHANGED <<dbVars, lock, engine, onBoot, tries>>
MigrateClosed(i) == MigrateExits(i, {"done"})

\* SIGKILL reaches npx, the engine that npx started may go on without it.
TimesOut(i) ==
  /\ pc[i] = "running" /\ engine[i] \in {"waiting", "holding"}
  /\ Refuse(i, "timeout")
  /\ \/ UNCHANGED <<engine, lock, broken>>
     \/ /\ engine' = [engine EXCEPT ![i] = "failed"]
        /\ lock' = IF lock = i THEN None ELSE lock
        /\ broken' = (broken \/ (lock = i /\ begun))
  /\ UNCHANGED <<applied, begun, onBoot, tries>>

CheckThat(i, upToDate) ==
  /\ pc[i] = "check"
  /\ UNCHANGED <<dbVars, lock, engine, onBoot>>
  /\ \/ begun /\ Refuse(i, "begun") /\ UNCHANGED tries
     \/ /\ ~begun /\ upToDate
        /\ pc' = [pc EXCEPT ![i] = "serving"]
        /\ working' = working \cup {i}
        /\ UNCHANGED <<tries, refused>>
     \/ /\ ~begun /\ ~upToDate /\ tries[i] >= Retries
        /\ Refuse(i, "behind") /\ UNCHANGED tries
     \/ /\ ~begun /\ ~upToDate /\ tries[i] < Retries
        /\ tries' = [tries EXCEPT ![i] = @ + 1]
        /\ UNCHANGED <<pc, working, refused>>
CheckAlmost(i) == CheckThat(i, applied + 1 >= Shipped[i])
Check(i) == CheckThat(i, applied >= Shipped[i])

-----------------------------------------------------------------------------
(* The engine, one per process.  It records a migration before it runs it and
   finishes the record afterwards; one that failed stays begun, and while one
   is begun no engine applies another. *)

Ends(i, code) ==
  /\ engine' = [engine EXCEPT ![i] = code]
  /\ lock' = None

TakeLock(i) ==
  /\ engine[i] = "waiting" /\ lock = None
  /\ engine' = [engine EXCEPT ![i] = "holding"]
  /\ lock' = i
  /\ UNCHANGED <<dbVars, pc, onBoot, tries, working, refused>>

Apply(i) ==
  /\ lock = i
  /\ UNCHANGED <<pc, onBoot, tries, working, refused>>
  /\ \/ /\ ~begun /\ applied < Shipped[i]
        /\ begun' = TRUE
        /\ UNCHANGED <<applied, broken, engine, lock>>
     \/ /\ begun /\ ~broken
        /\ begun' = FALSE /\ applied' = applied + 1
        /\ UNCHANGED <<broken, engine, lock>>
     \/ /\ begun /\ broken' = TRUE /\ Ends(i, "failed")
        /\ UNCHANGED <<applied, begun>>
     \/ /\ ~begun /\ applied >= Shipped[i] /\ Ends(i, "done")
        /\ UNCHANGED dbVars

\* An operator marks the failed migration rolled back.
Resolve ==
  /\ broken /\ begun' = FALSE /\ broken' = FALSE
  /\ UNCHANGED <<applied, lock, engine, pc, onBoot, tries, working, refused>>

Next ==
  \/ \E i \in Processes :
       \/ Boot(i) \/ Migrate(i) \/ MigrateClosed(i) \/ TimesOut(i) \/ Check(i)
       \/ TakeLock(i) \/ Apply(i)
  \/ Resolve

Spec == Init /\ [][Next]_vars

-----------------------------------------------------------------------------
(* Properties *)

\* "Schema first, then traffic" (main.ts): whatever other processes apply,
\* break or time out of meanwhile, one that serves has every migration of its
\* own image finished.
ServesCurrentSchema == \A i \in Processes : pc[i] = "serving" => applied >= Shipped[i]

\* A migration that failed stops every start until somebody resolves it: no
\* process begins to serve while it is on record, and no engine applies more.
FailureBlocks ==
  broken /\ broken' =>
    /\ applied' = applied
    /\ \A i \in Processes : pc'[i] = "serving" => pc[i] = "serving"

StartupInv == TypeOK /\ ServesCurrentSchema

\* What holds of processes that start, whatever their images ship.
StartHolds == []ServesCurrentSchema /\ [][FailureBlocks]_vars

-----------------------------------------------------------------------------
(* A statement of the comments that the code does not meet *)

\* "A worker reading a table that does not exist yet fails job by job, which is
\* harder to notice than refusing to start — so it migrates and checks exactly
\* as the API does" (worker.ts): a process takes jobs once its schema is there.
WorksOnCurrentSchema == \A i \in working : applied >= Shipped[i]
=============================================================================
