-------------------------- MODULE CampaignDelivery --------------------------
(***************************************************************************)
(* One phishing-simulation campaign, from launch to the last email.        *)
(*                                                                         *)
(* Three kinds of process share the campaign row and the send rows in      *)
(* Postgres and the send queue in Redis, none of them inside a transaction:*)
(*  - requests: launch, pause, resume, kill and retry calls, made by an    *)
(*    administrator or (launch) by the scheduler tick.  Every awaited call *)
(*    of the handler is an action of its own;                              *)
(*  - workers: the SendProcessor runs, each holding one BullMQ job;        *)
(*  - the environment: employees come and go, launch gates change, and     *)
(*    processes die between two steps.                                     *)
(*                                                                         *)
(* A member of Sends is one (employee, scenario) pair of the campaign.     *)
(***************************************************************************)
EXTENDS Naturals

CONSTANTS
  Sends,           \* the (employee, scenario) pairs that may get an email
  Requests,        \* campaign calls that may be in progress at once
  Workers,         \* concurrent SendProcessor runs (SEND_CONCURRENCY)
  Operations,      \* the campaign operations callers use
  FaultKinds,      \* the faults that may happen
  MaxFaults,       \* bound: faults in one behaviour
  MaxAttempts,     \* attempts of the send queue's jobs
  MaxOccurrences,  \* bound: next occurrences a launch may still clone
  Recurring,       \* campaign.recurrenceDays > 0
  None             \* no send

ASSUME DeliveryAssumption ==
  /\ Operations \subseteq {"launch", "pause", "resume", "kill", "retry"}
  /\ FaultKinds \subseteq {"request", "worker", "mailer", "database"}
  /\ MaxFaults \in Nat
  /\ MaxAttempts \in Nat \ {0}
  /\ MaxOccurrences \in Nat
  /\ Recurring \in BOOLEAN
  /\ None \notin Sends

VARIABLES
  status,       \* campaign.status
  occurrences,  \* draft clones made by scheduleNextOccurrence
  ready,        \* every check of preflight holds
  person,       \* whether the employee is not yet, is, or was on the roster
  rows,         \* the send rows: absent, unsent or stamped with sentAt
  job,          \* the BullMQ job `send-<id>` of each send
  pc, batch, todo,  \* requests: next step, send ids read, jobs left to clear
  at, on,       \* workers: next step and the send they hold
  mails,        \* emails the provider accepted, per send
  lost,         \* accepted emails whose sentAt stamp was lost, per send
  late,         \* emails each worker sent since the campaign was killed
  faults        \* faults so far

vars == <<status, occurrences, ready, person, rows, job, pc, batch, todo,
          at, on, mails, lost, late, faults>>
campaignVars == <<status, occurrences, late>>
tenantVars   == <<ready, person>>
requestVars  == <<pc, batch, todo>>
workerVars   == <<at, on>>
mailVars     == <<mails, lost>>

Status == {"draft", "active", "paused", "killed", "completed"}

RequestSteps ==
  {"idle", "launchPreflight", "launchRoster", "launchCreate", "launchRead",
   "launchActivate", "launchEnqueue", "launchRecur", "pauseWrite",
   "resumeWrite", "resumeRead", "resumeEnqueue", "killWrite", "killRead",
   "killDrain", "retryRead", "retryClear", "retryEnqueue"}

WorkerSteps == {"idle", "read", "send", "stamp", "ack"}

Job == [state : {"none", "waiting", "active", "completed", "failed"},
        made : Nat, stalled : BOOLEAN]

NoJob  == [state |-> "none", made |-> 0, stalled |-> FALSE]
NewJob == [state |-> "waiting", made |-> 0, stalled |-> FALSE]

TypeOK ==
  /\ status \in Status
  /\ occurrences \in Nat
  /\ ready \in BOOLEAN
  /\ person \in [Sends -> {"new", "listed", "left"}]
  /\ rows \in [Sends -> {"none", "pending", "sent"}]
  /\ job \in [Sends -> Job]
  /\ pc \in [Requests -> RequestSteps]
  /\ batch \in [Requests -> SUBSET Sends]
  /\ todo \in [Requests -> SUBSET Sends]
  /\ at \in [Workers -> WorkerSteps]
  /\ on \in [Workers -> Sends \cup {None}]
  /\ mails \in [Sends -> Nat]
  /\ lost \in [Sends -> Nat]
  /\ late \in [Workers -> Nat]
  /\ faults \in Nat

Init ==
  /\ status = "draft"
  /\ occurrences = 0
  /\ ready \in BOOLEAN
  /\ person \in [Sends -> {"new", "listed"}]
  /\ rows = [s \in Sends |-> "none"]
  /\ job = [s \in Sends |-> NoJob]
  /\ pc = [r \in Requests |-> "idle"]
  /\ batch = [r \in Requests |-> {}]
  /\ todo = [r \in Requests |-> {}]
  /\ at = [w \in Workers |-> "idle"]
  /\ on = [w \in Workers |-> None]
  /\ mails = [s \in Sends |-> 0]
  /\ lost = [s \in Sends |-> 0]
  /\ late = [w \in Workers |-> 0]
  /\ faults = 0

-----------------------------------------------------------------------------
(* Helpers.  A definition named like the next one with a suffix is that
   definition with one mistake in it, to show which property notices. *)

Pending == {s \in Sends : rows[s] = "pending"}

Goto(r, from, to) ==
  /\ pc[r] = from
  /\ pc' = [pc EXCEPT ![r] = to]

\* The handler returns or throws: its locals are gone.
Finish(r) ==
  /\ pc' = [pc EXCEPT ![r] = "idle"]
  /\ batch' = [batch EXCEPT ![r] = {}]
  /\ todo' = [todo EXCEPT ![r] = {}]

\* campaign.update({ where: { id } }): whatever the status is by now.
SetStatus(new) ==
  /\ status' = new
  /\ late' = IF new = "killed" THEN late ELSE [w \in Workers |-> 0]

AddBulkAlways(ids) ==
  job' = [s \in Sends |-> IF s \in ids THEN NewJob ELSE job[s]]

\* addBulk: a job whose id is still known to the queue is not added again.
AddBulk(ids) ==
  job' = [s \in Sends |-> IF s \in ids /\ job[s].state = "none"
                          THEN NewJob ELSE job[s]]

RemoveJobForced(s) == job' = [job EXCEPT ![s] = NoJob]

\* getJob(id)?.remove(): throws, and the job stays, while a worker locks it.
RemoveJob(s) ==
  job' = [job EXCEPT ![s] = IF @.state = "active" THEN @ ELSE NoJob]

Fault(kind) ==
  /\ kind \in FaultKinds
  /\ faults < MaxFaults
  /\ faults' = faults + 1

-----------------------------------------------------------------------------
(* launch *)

LaunchCheckKilledToo(r) ==
  /\ "launch" \in Operations
  /\ status \notin {"active", "completed"}
  /\ Recurring => occurrences < MaxOccurrences
  /\ Goto(r, "idle", "launchPreflight")
  /\ UNCHANGED <<campaignVars, tenantVars, rows, job, batch, todo, workerVars,
                 mailVars, faults>>

\* A refused launch (killed, active, completed) throws and changes nothing.
LaunchCheck(r) ==
  /\ "launch" \in Operations
  /\ status \notin {"killed", "active", "completed"}
  /\ Recurring => occurrences < MaxOccurrences
  /\ Goto(r, "idle", "launchPreflight")
  /\ UNCHANGED <<campaignVars, tenantVars, rows, job, batch, todo, workerVars,
                 mailVars, faults>>

LaunchPreflight(r) ==
  /\ pc[r] = "launchPreflight"
  /\ \/ ready /\ Goto(r, "launchPreflight", "launchRoster")
              /\ UNCHANGED <<batch, todo>>
     \/ ~ready /\ Finish(r)
  /\ UNCHANGED <<campaignVars, tenantVars, rows, job, workerVars, mailVars,
                 faults>>

\* Selected employees still on the roster, on a verified domain.
LaunchRoster(r) ==
  LET recipients == {s \in Sends : person[s] = "listed"} IN
  /\ pc[r] = "launchRoster"
  /\ \/ /\ recipients # {}
        /\ Goto(r, "launchRoster", "launchCreate")
        /\ batch' = [batch EXCEPT ![r] = recipients]
        /\ UNCHANGED todo
     \/ recipients = {} /\ Finish(r)
  /\ UNCHANGED <<campaignVars, tenantVars, rows, job, workerVars, mailVars,
                 faults>>

\* createMany with skipDuplicates; a deleted employee fails its foreign key
\* and with it the whole statement.
LaunchCreate(r) ==
  LET gone == {s \in batch[r] : person[s] = "left"} IN
  /\ pc[r] = "launchCreate"
  /\ \/ /\ gone = {}
        /\ Goto(r, "launchCreate", "launchRead")
        /\ rows' = [s \in Sends |-> IF s \in batch[r] /\ rows[s] = "none"
                                    THEN "pending" ELSE rows[s]]
        /\ batch' = [batch EXCEPT ![r] = {}]
        /\ UNCHANGED todo
     \/ gone # {} /\ Finish(r) /\ UNCHANGED rows
  /\ UNCHANGED <<campaignVars, tenantVars, job, workerVars, mailVars, faults>>

ReadPending(r, from, to) ==
  /\ Goto(r, from, to)
  /\ batch' = [batch EXCEPT ![r] = Pending]
  /\ UNCHANGED <<campaignVars, tenantVars, rows, job, todo, workerVars,
                 mailVars, faults>>

LaunchRead(r) == ReadPending(r, "launchRead", "launchActivate")

LaunchActivate(r) ==
  /\ Goto(r, "launchActivate", "launchEnqueue")
  /\ SetStatus("active")
  /\ UNCHANGED <<occurrences, tenantVars, rows, job, batch, todo, workerVars,
                 mailVars, faults>>

LaunchEnqueue(r) ==
  /\ Goto(r, "launchEnqueue", "launchRecur")
  /\ AddBulk(batch[r])
  /\ batch' = [batch EXCEPT ![r] = {}]
  /\ UNCHANGED <<campaignVars, tenantVars, rows, todo, workerVars, mailVars,
                 faults>>

LaunchRecur(r) ==
  /\ pc[r] = "launchRecur"
  /\ occurrences' = IF Recurring THEN occurrences + 1 ELSE occurrences
  /\ Finish(r)
  /\ UNCHANGED <<status, late, tenantVars, rows, job, workerVars, mailVars,
                 faults>>

Launch(r) == \/ LaunchCheck(r) \/ LaunchPreflight(r) \/ LaunchRoster(r)
             \/ LaunchCreate(r) \/ LaunchRead(r) \/ LaunchActivate(r)
             \/ LaunchEnqueue(r) \/ LaunchRecur(r)

-----------------------------------------------------------------------------
(* pause and resume *)

PauseCheck(r) ==
  /\ "pause" \in Operations
  /\ status = "active"
  /\ Goto(r, "idle", "pauseWrite")
  /\ UNCHANGED <<campaignVars, tenantVars, rows, job, batch, todo, workerVars,
                 mailVars, faults>>

PauseWrite(r) ==
  /\ pc[r] = "pauseWrite"
  /\ SetStatus("paused")
  /\ Finish(r)
  /\ UNCHANGED <<occurrences, tenantVars, rows, job, workerVars, mailVars,
                 faults>>

ResumeCheck(r) ==
  /\ "resume" \in Operations
  /\ status = "paused"
  /\ Goto(r, "idle", "resumeWrite")
  /\ UNCHANGED <<campaignVars, tenantVars, rows, job, batch, todo, workerVars,
                 mailVars, faults>>

ResumeWrite(r) ==
  /\ Goto(r, "resumeWrite", "resumeRead")
  /\ SetStatus("active")
  /\ UNCHANGED <<occurrences, tenantVars, rows, job, batch, todo, workerVars,
                 mailVars, faults>>

ResumeRead(r) == ReadPending(r, "resumeRead", "resumeEnqueue")

ResumeEnqueue(r) ==
  /\ pc[r] = "resumeEnqueue"
  /\ AddBulk(batch[r])
  /\ Finish(r)
  /\ UNCHANGED <<campaignVars, tenantVars, rows, workerVars, mailVars, faults>>

Pause(r)  == PauseCheck(r) \/ PauseWrite(r)
Resume(r) == ResumeCheck(r) \/ ResumeWrite(r) \/ ResumeRead(r) \/ ResumeEnqueue(r)

-----------------------------------------------------------------------------
(* kill and retryUnsent *)

KillCheck(r) ==
  /\ "kill" \in Operations
  /\ status # "killed"
  /\ Goto(r, "idle", "killWrite")
  /\ UNCHANGED <<campaignVars, tenantVars, rows, job, batch, todo, workerVars,
                 mailVars, faults>>

KillWrite(r) ==
  /\ Goto(r, "killWrite", "killRead")
  /\ SetStatus("killed")
  /\ UNCHANGED <<occurrences, tenantVars, rows, job, batch, todo, workerVars,
                 mailVars, faults>>

KillRead(r) ==
  /\ Goto(r, "killRead", "killDrain")
  /\ todo' = [todo EXCEPT ![r] = Pending]
  /\ UNCHANGED <<campaignVars, tenantVars, rows, job, batch, workerVars,
                 mailVars, faults>>

\* One turn of the loop: the job of the next unsent row is removed.
ClearNext(r, s) ==
  /\ s \in todo[r]
  /\ RemoveJob(s)
  /\ todo' = [todo EXCEPT ![r] = @ \ {s}]
  /\ UNCHANGED <<campaignVars, tenantVars, rows, pc, batch, workerVars,
                 mailVars, faults>>

KillDrain(r) == pc[r] = "killDrain" /\ \E s \in Sends : ClearNext(r, s)

KillDone(r) ==
  /\ pc[r] = "killDrain" /\ todo[r] = {}
  /\ Finish(r)
  /\ UNCHANGED <<campaignVars, tenantVars, rows, job, workerVars, mailVars,
                 faults>>

RetryCheck(r) ==
  /\ "retry" \in Operations
  /\ status = "active"
  /\ Goto(r, "idle", "retryRead")
  /\ UNCHANGED <<campaignVars, tenantVars, rows, job, batch, todo, workerVars,
                 mailVars, faults>>

RetryReadNoClear(r) ==
  /\ Goto(r, "retryRead", "retryClear")
  /\ batch' = [batch EXCEPT ![r] = Pending]
  /\ UNCHANGED <<campaignVars, tenantVars, rows, job, todo, workerVars,
                 mailVars, faults>>

RetryRead(r) ==
  /\ Goto(r, "retryRead", "retryClear")
  /\ batch' = [batch EXCEPT ![r] = Pending]
  /\ todo' = [todo EXCEPT ![r] = Pending]
  /\ UNCHANGED <<campaignVars, tenantVars, rows, job, workerVars, mailVars,
                 faults>>

RetryClear(r) == pc[r] = "retryClear" /\ \E s \in Sends : ClearNext(r, s)

RetryEnqueue(r) ==
  /\ pc[r] = "retryClear" /\ todo[r] = {}
  /\ AddBulk(batch[r])
  /\ Finish(r)
  /\ UNCHANGED <<campaignVars, tenantVars, rows, workerVars, mailVars, faults>>

Kill(r) == KillCheck(r) \/ KillWrite(r) \/ KillRead(r) \/ KillDrain(r) \/ KillDone(r)
Retry(r) == RetryCheck(r) \/ RetryRead(r) \/ RetryClear(r) \/ RetryEnqueue(r)

\* The call dies at its next await: a redeploy, a Postgres or a Redis error.
RequestDies(r) ==
  /\ pc[r] # "idle"
  /\ Fault("request")
  /\ Finish(r)
  /\ UNCHANGED <<campaignVars, tenantVars, rows, job, workerVars, mailVars>>

-----------------------------------------------------------------------------
(* SendProcessor, and the queue that feeds it *)

\* A worker locks a waiting job.
Fetch(w, s) ==
  /\ at[w] = "idle"
  /\ job[s].state = "waiting"
  /\ job' = [job EXCEPT ![s].state = "active"]
  /\ at' = [at EXCEPT ![w] = "read"]
  /\ on' = [on EXCEPT ![w] = s]
  /\ UNCHANGED <<campaignVars, tenantVars, rows, requestVars, mailVars, faults>>

\* One read of the send and its campaign, and what follows from it.  The client
\* fetches them by two selects of one call: the deletion of the row between the two
\* counts as one before or after both.
ReadThen(w, goes) ==
  /\ at[w] = "read"
  /\ at' = [at EXCEPT ![w] = IF goes THEN "send" ELSE "ack"]
  /\ UNCHANGED <<campaignVars, tenantVars, rows, job, requestVars, on, mailVars,
                 faults>>

ReadSendNoKillCheck(w)  == ReadThen(w, rows[on[w]] = "pending" /\ status # "paused")
ReadSendNoPauseCheck(w) == ReadThen(w, rows[on[w]] = "pending" /\ status # "killed")

ReadSendRequeues(w) ==
  \/ status = "active" /\ ReadThen(w, rows[on[w]] = "pending")
  \/ /\ at[w] = "read" /\ status # "active"
     /\ at' = [at EXCEPT ![w] = "idle"]
     /\ on' = [on EXCEPT ![w] = None]
     /\ job' = [job EXCEPT ![on[w]].state = "waiting"]
     /\ UNCHANGED <<campaignVars, tenantVars, rows, requestVars, mailVars, faults>>

\* The send is read with its campaign: missing, already sent and not active
\* are skipped.
ReadSend(w) == ReadThen(w, rows[on[w]] = "pending" /\ status = "active")

Accept(w) ==
  /\ mails' = [mails EXCEPT ![on[w]] = @ + 1]
  /\ late' = IF status = "killed" THEN [late EXCEPT ![w] = @ + 1] ELSE late

Mail(w) ==
  /\ at[w] = "send"
  /\ Accept(w)
  /\ at' = [at EXCEPT ![w] = "stamp"]
  /\ UNCHANGED <<status, occurrences, tenantVars, rows, job, requestVars, on,
                 lost, faults>>

Stamp(w) ==
  /\ at[w] = "stamp" /\ rows[on[w]] # "none"
  /\ rows' = [rows EXCEPT ![on[w]] = "sent"]
  /\ at' = [at EXCEPT ![w] = "ack"]
  /\ UNCHANGED <<campaignVars, tenantVars, job, requestVars, on, mailVars,
                 faults>>

\* The processor returned: the job is kept, completed, under its id.
Ack(w) ==
  /\ at[w] = "ack"
  /\ job' = [job EXCEPT ![on[w]].state = "completed"]
  /\ at' = [at EXCEPT ![w] = "idle"]
  /\ on' = [on EXCEPT ![w] = None]
  /\ UNCHANGED <<campaignVars, tenantVars, rows, requestVars, mailVars, faults>>

FailedForGood(j) == [state |-> "failed", made |-> j.made + 1, stalled |-> j.stalled]

\* The processor threw: back to the queue until the attempts run out.
Failed(j) ==
  [state   |-> IF j.made + 1 < MaxAttempts THEN "waiting" ELSE "failed",
   made    |-> j.made + 1,
   stalled |-> j.stalled]

FailAttempt(w) ==
  /\ job' = [job EXCEPT ![on[w]] = Failed(@)]
  /\ at' = [at EXCEPT ![w] = "idle"]
  /\ on' = [on EXCEPT ![w] = None]

Lose(w) == lost' = [lost EXCEPT ![on[w]] = @ + 1]

MailRefusedStamped(w) ==
  /\ at[w] = "send"
  /\ Fault("mailer")
  /\ at' = [at EXCEPT ![w] = "stamp"]
  /\ UNCHANGED <<campaignVars, tenantVars, rows, job, requestVars, on, mailVars>>

MailRefused(w) ==
  /\ at[w] = "send"
  /\ Fault("mailer")
  /\ FailAttempt(w)
  /\ UNCHANGED <<campaignVars, tenantVars, rows, requestVars, mailVars>>

\* The provider took the email but its answer was lost.
MailUncertain(w) ==
  /\ at[w] = "send"
  /\ Fault("mailer")
  /\ Accept(w)
  /\ Lose(w)
  /\ FailAttempt(w)
  /\ UNCHANGED <<status, occurrences, tenantVars, rows, requestVars>>

\* send.update throws: the row was deleted meanwhile, or the database failed.
StampFails(w) ==
  /\ at[w] = "stamp"
  /\ IF rows[on[w]] = "none" THEN UNCHANGED faults ELSE Fault("database")
  /\ Lose(w)
  /\ FailAttempt(w)
  /\ UNCHANGED <<campaignVars, tenantVars, rows, requestVars, mails>>

\* The process dies: the job stays active, with no worker behind its lock.
Crash(w) ==
  /\ at[w] # "idle"
  /\ Fault("worker")
  /\ IF at[w] = "stamp" THEN Lose(w) ELSE UNCHANGED lost
  /\ at' = [at EXCEPT ![w] = "idle"]
  /\ on' = [on EXCEPT ![w] = None]
  /\ UNCHANGED <<campaignVars, tenantVars, rows, job, requestVars, mails>>

\* BullMQ's stalled check: back to waiting once, failed the second time.
Recovered(j) ==
  [j EXCEPT !.state = IF j.stalled THEN "failed" ELSE "waiting", !.stalled = TRUE]

\* Assumption: a live worker keeps renewing the lock of the job it holds, so only
\* a job whose worker died is found stalled.  A worker that is cut off from Redis
\* for longer than the lock lasts would run beside its successor; it does not here.
Stalled(s) ==
  /\ job[s].state = "active"
  /\ \A w \in Workers : on[w] # s
  /\ job' = [job EXCEPT ![s] = Recovered(@)]
  /\ UNCHANGED <<campaignVars, tenantVars, rows, requestVars, workerVars,
                 mailVars, faults>>

\* removeOnComplete and removeOnFail: only the newest finished jobs are kept.
Trim(s) ==
  /\ job[s].state \in {"completed", "failed"}
  /\ job' = [job EXCEPT ![s] = NoJob]
  /\ UNCHANGED <<campaignVars, tenantVars, rows, requestVars, workerVars,
                 mailVars, faults>>

-----------------------------------------------------------------------------
(* The tenant around the campaign *)

GatesChange ==
  /\ ready' = ~ready
  /\ UNCHANGED <<campaignVars, person, rows, job, requestVars, workerVars,
                 mailVars, faults>>

Join(s) ==
  /\ person[s] = "new"
  /\ person' = [person EXCEPT ![s] = "listed"]
  /\ UNCHANGED <<campaignVars, ready, rows, job, requestVars, workerVars,
                 mailVars, faults>>

\* Deleting an employee deletes their send rows (onDelete: Cascade).
Leave(s) ==
  /\ person[s] = "listed"
  /\ person' = [person EXCEPT ![s] = "left"]
  /\ rows' = [rows EXCEPT ![s] = "none"]
  /\ UNCHANGED <<campaignVars, ready, job, requestVars, workerVars, mailVars,
                 faults>>

-----------------------------------------------------------------------------

Request(r) == Launch(r) \/ Pause(r) \/ Resume(r) \/ Kill(r) \/ Retry(r)

Worker(w) == \/ ReadSend(w) \/ Mail(w) \/ Stamp(w) \/ Ack(w)
             \/ MailRefused(w) \/ MailUncertain(w) \/ StampFails(w)

Tenant == GatesChange \/ \E s \in Sends : Join(s) \/ Leave(s)

Next ==
  \/ \E r \in Requests : Request(r) \/ RequestDies(r)
  \/ \E w \in Workers : Worker(w) \/ Crash(w)
  \/ \E s \in Sends : (\E w \in Workers : Fetch(w, s)) \/ Stalled(s) \/ Trim(s)
  \/ Tenant

Spec == Init /\ [][Next]_vars

(***************************************************************************)
(* Fairness.  A handler that has started runs on (Node resolves every      *)
(* promise it awaits), a worker finishes the job it holds, and BullMQ      *)
(* serves waiting jobs in order, so none is overtaken for ever, and        *)
(* re-examines stalled ones.  Nobody is obliged to call an operation, and  *)
(* nothing need go wrong.                                                  *)
(***************************************************************************)
Fairness ==
  /\ \A r \in Requests : WF_vars(Request(r) /\ pc[r] # "idle")
  /\ \A w \in Workers : WF_vars(Worker(w))
  /\ \A s \in Sends : /\ SF_vars(\E w \in Workers : Fetch(w, s))
                      /\ WF_vars(Stalled(s))

FairSpec == Spec /\ Fairness

-----------------------------------------------------------------------------
(* Properties *)

\* No recipient gets a second email unless the stamp of an earlier one was
\* lost: the job id and its lock keep two runs off one send, and the sentAt
\* check stops every later run.
AtMostOnce == \A s \in Sends : mails[s] <= lost[s] + 1

\* A row counted as sent stands for one accepted email whose stamp was not
\* lost, so the funnel's denominator is what the provider took.
SentMeansMailed == \A s \in Sends : rows[s] = "sent" => mails[s] = lost[s] + 1

\* No job exists for a send that was never materialised: "rows are created
\* before any job runs so the kill switch has something to halt".
JobsHaveRows ==
  \A s \in Sends : job[s].state # "none" => rows[s] # "none" \/ person[s] = "left"

\* After a kill each worker finishes at most the email it had already been
\* cleared to send, however many jobs were queued, retried or relaunched.
LateMailBound == \A w \in Workers : late[w] <= 1

\* A send stamped sentAt is never mailed again, whatever is retried.
NeverMailedAfterStamp ==
  [][\A s \in Sends : mails'[s] # mails[s] => rows[s] # "sent"]_vars

\* A kill can be undone only by a call that had read the status before it:
\* once no such call is in progress the campaign stays killed.
StatusWrites == {"launchPreflight", "launchRoster", "launchCreate",
                 "launchRead", "launchActivate", "pauseWrite", "resumeWrite"}
KillSettled == status = "killed" /\ \A r \in Requests : pc[r] \notin StatusWrites
KillSticks == [][KillSettled => KillSettled']_vars
\* Queue, workers and requests together implement the delivery contract: an
\* email goes out only on a clearance read while the campaign was active and
\* the send unsent, and one clearance buys one email.
Contract == INSTANCE DeliveryContract WITH
  cleared <- {s \in Sends : \E w \in Workers : on[w] = s /\ at[w] = "send"}
ImplementsContract == Contract!Spec

\* Killing a campaign empties the queue: every job waiting for it is taken,
\* skipped and finished, unless a call that was in progress undoes the kill.
Live == {s \in Sends : job[s].state \in {"waiting", "active"}}
KillQuiesces == status = "killed" ~> (status # "killed" \/ Live = {})

\* A job that waits in an active campaign gets its email out, or loses its row with
\* its employee: neither a dying worker, a refusal of the provider or of the database,
\* nor a dying call elsewhere leaves it behind.  Until then it may be paused, killed,
\* or cleared away by a kill or a retry; what a retry then puts back waits again.
Queued(s) == status = "active" /\ rows[s] = "pending" /\ job[s].state = "waiting"
Halted(s) == status # "active" \/ \E r \in Requests : s \in todo[r]
JobsDeliver == \A s \in Sends : Queued(s) ~> rows[s] # "pending" \/ Halted(s)

\* Retrying heals: in a campaign that stays active, whatever pauses, crashes
\* and dead calls left behind, an administrator who keeps retrying gets every
\* unsent row out.
RetryRuns == \E r \in Requests : RetryEnqueue(r)
RetryHeals ==
  <>[](status = "active") /\ []<><<RetryRuns>>_vars
    => \A s \in Sends : <>[](rows[s] # "pending")

-----------------------------------------------------------------------------
(* The inductive invariant behind the safety properties *)

\* A busy worker holds an active job, and no two workers hold the same one.
LockInv ==
  /\ \A w \in Workers : on[w] = None <=> at[w] = "idle"
  /\ \A w \in Workers : at[w] # "idle" => job[on[w]].state = "active"
  /\ \A v, w \in Workers : at[v] # "idle" /\ on[v] = on[w] => v = w

\* Jobs, and the sends a request is about to enqueue, were materialised.
\* Only a deleted employee's row disappears again.
RowInv ==
  /\ \A s \in Sends : rows[s] = "none" /\ person[s] # "left" =>
       job[s].state = "none" /\ mails[s] = 0 /\ lost[s] = 0
  /\ \A s \in Sends : rows[s] # "none" => person[s] = "listed"
  /\ \A r \in Requests : \A s \in batch[r] :
       /\ person[s] # "new"
       /\ rows[s] # "none" \/ person[s] = "left" \/ pc[r] = "launchCreate"

\* The ledger of each send: one accepted email more than lost stamps while a
\* run is between the mailer and the stamp, and for ever after the stamp.
LedgerInv ==
  /\ \A s \in Sends : mails[s] \in {lost[s], lost[s] + 1}
  /\ \A s \in Sends : rows[s] = "sent" => mails[s] = lost[s] + 1
  /\ \A s \in Sends : rows[s] = "pending" /\ mails[s] # lost[s] =>
       \E w \in Workers : on[w] = s /\ at[w] = "stamp"
  /\ \A w \in Workers : at[w] = "send" =>
       mails[on[w]] = lost[on[w]] /\ rows[on[w]] # "sent"
  /\ \A w \in Workers : at[w] = "stamp" =>
       mails[on[w]] = lost[on[w]] + 1 /\ rows[on[w]] # "sent"

\* A worker that mailed after the kill cannot have been cleared again.
LateInv ==
  \A w \in Workers : /\ status # "killed" => late[w] = 0
                     /\ at[w] = "send" => late[w] = 0
                     /\ late[w] <= 1

DeliveryInv == TypeOK /\ LockInv /\ RowInv /\ LedgerInv /\ LateInv
=============================================================================
