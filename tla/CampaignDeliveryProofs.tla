----------------------- MODULE CampaignDeliveryProofs -----------------------
(***************************************************************************)
(* Proofs about CampaignDelivery for any number of sends, requests and     *)
(* workers, any bound on faults and any number of attempts.                *)
(***************************************************************************)
EXTENDS CampaignDelivery, TLAPS

\* The job values the queue and the processor write are job values, and a
\* job that failed or stalled is not locked.
LEMMA JobValues ==
  /\ NoJob \in Job /\ NoJob.state = "none"
  /\ NewJob \in Job /\ NewJob.state = "waiting"
  /\ \A j \in Job : Failed(j) \in Job /\ Failed(j).state \in {"waiting", "failed"}
  /\ \A j \in Job : Recovered(j) \in Job /\ Recovered(j).state \in {"waiting", "failed"}
  /\ \A j \in Job : \A x \in {"active", "completed"} :
       [j EXCEPT !.state = x] \in Job /\ [j EXCEPT !.state = x].state = x
<1> USE DeliveryAssumption
<1>1. NoJob \in Job /\ NoJob.state = "none"
  BY DEF Job, NoJob
<1>2. NewJob \in Job /\ NewJob.state = "waiting"
  BY DEF Job, NewJob
<1>3. \A j \in Job : Recovered(j) \in Job /\ Recovered(j).state \in {"waiting", "failed"}
  BY DEF Job, Recovered
<1>4. \A j \in Job : Failed(j) \in Job /\ Failed(j).state \in {"waiting", "failed"}
  BY DEF Job, Failed
<1>5. \A j \in Job : \A x \in {"active", "completed"} :
        [j EXCEPT !.state = x] \in Job /\ [j EXCEPT !.state = x].state = x
  BY DEF Job
<1> QED
  BY <1>1, <1>2, <1>3, <1>4, <1>5

\* addBulk (campaigns.service.ts) leaves every job a job.
LEMMA AddBulkType ==
  ASSUME job \in [Sends -> Job], NEW ids \in SUBSET Sends, AddBulk(ids)
  PROVE  job' \in [Sends -> Job]
<1>1. \A s \in Sends :
        (IF s \in ids /\ job[s].state = "none" THEN NewJob ELSE job[s]) \in Job
  BY JobValues
<1> QED
  BY <1>1 DEF AddBulk

\* Every step keeps the types, given that a busy worker holds a send.
LEMMA TypeStep == ASSUME TypeOK, LockInv, [Next]_vars PROVE TypeOK'
<1> USE DeliveryAssumption DEF TypeOK, Status, RequestSteps, WorkerSteps
<1>1. ASSUME NEW r \in Requests, LaunchCheck(r) PROVE TypeOK'
  BY <1>1 DEF LaunchCheck, Goto, campaignVars, tenantVars, workerVars,
       mailVars
<1>2. ASSUME NEW r \in Requests, LaunchPreflight(r) PROVE TypeOK'
  BY <1>2 DEF LaunchPreflight, Goto, Finish, campaignVars, tenantVars,
       workerVars, mailVars
<1>3. ASSUME NEW r \in Requests, LaunchRoster(r) PROVE TypeOK'
  <2> DEFINE recipients == {s \in Sends : person[s] = "listed"}
  <2>1. recipients \in SUBSET Sends
    OBVIOUS
  <2>2. /\ \/ /\ Goto(r, "launchRoster", "launchCreate")
              /\ batch' = [batch EXCEPT ![r] = recipients]
              /\ UNCHANGED todo
           \/ Finish(r)
        /\ UNCHANGED <<campaignVars, tenantVars, rows, job, workerVars,
                       mailVars, faults>>
    BY <1>3 DEF LaunchRoster
  <2> HIDE DEF recipients
  <2> QED
    BY <2>1, <2>2 DEF Goto, Finish, campaignVars, tenantVars, workerVars,
       mailVars
<1>4. ASSUME NEW r \in Requests, LaunchCreate(r) PROVE TypeOK'
  <2>1. \A s \in Sends :
          (IF s \in batch[r] /\ rows[s] = "none" THEN "pending" ELSE rows[s])
            \in {"none", "pending", "sent"}
    OBVIOUS
  <2>2. rows' \in [Sends -> {"none", "pending", "sent"}]
    BY <1>4, <2>1 DEF LaunchCreate
  <2> QED
    BY <1>4, <2>2 DEF LaunchCreate, Goto, Finish, campaignVars, tenantVars,
       workerVars, mailVars
<1>5. ASSUME NEW r \in Requests, LaunchRead(r) PROVE TypeOK'
  BY <1>5 DEF LaunchRead, ReadPending, Pending, Goto, campaignVars,
       tenantVars, workerVars, mailVars
<1>6. ASSUME NEW r \in Requests, LaunchActivate(r) PROVE TypeOK'
  BY <1>6 DEF LaunchActivate, Goto, SetStatus, tenantVars, workerVars,
       mailVars
<1>7. ASSUME NEW r \in Requests, LaunchEnqueue(r) PROVE TypeOK'
  <2>1. job' \in [Sends -> Job]
    BY <1>7, AddBulkType DEF LaunchEnqueue
  <2> QED
    BY <1>7, <2>1 DEF LaunchEnqueue, Goto, campaignVars, tenantVars, workerVars,
       mailVars
<1>8. ASSUME NEW r \in Requests, LaunchRecur(r) PROVE TypeOK'
  BY <1>8 DEF LaunchRecur, Finish, tenantVars, workerVars, mailVars
<1>9. ASSUME NEW r \in Requests, PauseCheck(r) PROVE TypeOK'
  BY <1>9 DEF PauseCheck, Goto, campaignVars, tenantVars, workerVars, mailVars
<1>10. ASSUME NEW r \in Requests, PauseWrite(r) PROVE TypeOK'
  BY <1>10 DEF PauseWrite, SetStatus, Finish, tenantVars, workerVars, mailVars
<1>11. ASSUME NEW r \in Requests, ResumeCheck(r) PROVE TypeOK'
  BY <1>11 DEF ResumeCheck, Goto, campaignVars, tenantVars, workerVars,
       mailVars
<1>12. ASSUME NEW r \in Requests, ResumeWrite(r) PROVE TypeOK'
  BY <1>12 DEF ResumeWrite, Goto, SetStatus, tenantVars, workerVars, mailVars
<1>13. ASSUME NEW r \in Requests, ResumeRead(r) PROVE TypeOK'
  BY <1>13 DEF ResumeRead, ReadPending, Pending, Goto, campaignVars,
       tenantVars, workerVars, mailVars
<1>14. ASSUME NEW r \in Requests, ResumeEnqueue(r) PROVE TypeOK'
  <2>1. job' \in [Sends -> Job]
    BY <1>14, AddBulkType DEF ResumeEnqueue
  <2> QED
    BY <1>14, <2>1 DEF ResumeEnqueue, Finish, campaignVars, tenantVars,
       workerVars, mailVars
<1>15. ASSUME NEW r \in Requests, KillCheck(r) PROVE TypeOK'
  BY <1>15 DEF KillCheck, Goto, campaignVars, tenantVars, workerVars, mailVars
<1>16. ASSUME NEW r \in Requests, KillWrite(r) PROVE TypeOK'
  BY <1>16 DEF KillWrite, Goto, SetStatus, tenantVars, workerVars, mailVars
<1>17. ASSUME NEW r \in Requests, KillRead(r) PROVE TypeOK'
  BY <1>17 DEF KillRead, Goto, Pending, campaignVars, tenantVars, workerVars,
       mailVars
<1>18. ASSUME NEW r \in Requests, KillDrain(r) PROVE TypeOK'
  <2>1. job' \in [Sends -> Job]
    BY <1>18, JobValues DEF KillDrain, ClearNext, RemoveJob
  <2> QED
    BY <1>18, <2>1 DEF KillDrain, ClearNext, campaignVars, tenantVars,
       workerVars, mailVars
<1>19. ASSUME NEW r \in Requests, KillDone(r) PROVE TypeOK'
  BY <1>19 DEF KillDone, Finish, campaignVars, tenantVars, workerVars,
       mailVars
<1>20. ASSUME NEW r \in Requests, RetryCheck(r) PROVE TypeOK'
  BY <1>20 DEF RetryCheck, Goto, campaignVars, tenantVars, workerVars,
       mailVars
<1>21. ASSUME NEW r \in Requests, RetryRead(r) PROVE TypeOK'
  BY <1>21 DEF RetryRead, Goto, Pending, campaignVars, tenantVars, workerVars,
       mailVars
<1>22. ASSUME NEW r \in Requests, RetryClear(r) PROVE TypeOK'
  <2>1. job' \in [Sends -> Job]
    BY <1>22, JobValues DEF RetryClear, ClearNext, RemoveJob
  <2> QED
    BY <1>22, <2>1 DEF RetryClear, ClearNext, campaignVars, tenantVars,
       workerVars, mailVars
<1>23. ASSUME NEW r \in Requests, RetryEnqueue(r) PROVE TypeOK'
  <2>1. job' \in [Sends -> Job]
    BY <1>23, AddBulkType DEF RetryEnqueue
  <2> QED
    BY <1>23, <2>1 DEF RetryEnqueue, Finish, campaignVars, tenantVars,
       workerVars, mailVars
<1>24. ASSUME NEW r \in Requests, RequestDies(r) PROVE TypeOK'
  BY <1>24 DEF RequestDies, Fault, Finish, campaignVars, tenantVars,
       workerVars, mailVars
<1>25. ASSUME NEW w \in Workers, NEW s \in Sends, Fetch(w, s) PROVE TypeOK'
  <2>1. job' \in [Sends -> Job]
    BY <1>25, JobValues, ZenonT(60) DEF Fetch
  <2> QED
    BY <1>25, <2>1 DEF Fetch, campaignVars, tenantVars, requestVars, mailVars
<1>26. ASSUME NEW w \in Workers, ReadSend(w) PROVE TypeOK'
  BY <1>26 DEF ReadSend, ReadThen, campaignVars, tenantVars, requestVars, mailVars
<1>27. ASSUME NEW w \in Workers, Mail(w) PROVE TypeOK'
  <2>1. on[w] \in Sends
    BY <1>27 DEF Mail, LockInv
  <2>2. mails' \in [Sends -> Nat] /\ lost' \in [Sends -> Nat]
    BY <1>27, <2>1 DEF Mail, Accept
  <2>3. late' \in [Workers -> Nat]
    BY <1>27 DEF Mail, Accept
  <2> QED
    BY <1>27, <2>2, <2>3 DEF Mail, tenantVars, requestVars
<1>28. ASSUME NEW w \in Workers, Stamp(w) PROVE TypeOK'
  BY <1>28 DEF Stamp, campaignVars, tenantVars, requestVars, mailVars
<1>29. ASSUME NEW w \in Workers, Ack(w) PROVE TypeOK'
  <2>1. on[w] \in Sends
    BY <1>29 DEF Ack, LockInv
  <2>2. job' \in [Sends -> Job]
    BY <1>29, <2>1, JobValues, ZenonT(60) DEF Ack
  <2> QED
    BY <1>29, <2>2 DEF Ack, campaignVars, tenantVars, requestVars, mailVars
<1>30. ASSUME NEW w \in Workers, MailRefused(w) PROVE TypeOK'
  <2>1. on[w] \in Sends
    BY <1>30 DEF MailRefused, LockInv
  <2>2. job' \in [Sends -> Job]
    BY <1>30, <2>1, JobValues DEF MailRefused, FailAttempt
  <2> QED
    BY <1>30, <2>2 DEF MailRefused, Fault, FailAttempt, campaignVars,
       tenantVars, requestVars, mailVars
<1>31. ASSUME NEW w \in Workers, MailUncertain(w) PROVE TypeOK'
  <2>1. on[w] \in Sends
    BY <1>31 DEF MailUncertain, LockInv
  <2>2. job' \in [Sends -> Job]
    BY <1>31, <2>1, JobValues DEF MailUncertain, FailAttempt
  <2>3. mails' \in [Sends -> Nat] /\ lost' \in [Sends -> Nat]
    BY <1>31, <2>1 DEF MailUncertain, Accept, Lose
  <2>4. late' \in [Workers -> Nat]
    BY <1>31 DEF MailUncertain, Accept
  <2>5. faults' \in Nat /\ at' \in [Workers -> WorkerSteps] /\ on' \in [Workers -> Sends \cup {None}]
    BY <1>31 DEF MailUncertain, Fault, FailAttempt
  <2> QED
    BY <1>31, <2>2, <2>3, <2>4, <2>5 DEF MailUncertain, tenantVars, requestVars
<1>32. ASSUME NEW w \in Workers, StampFails(w) PROVE TypeOK'
  <2>1. on[w] \in Sends
    BY <1>32 DEF StampFails, LockInv
  <2>2. job' \in [Sends -> Job]
    BY <1>32, <2>1, JobValues DEF StampFails, FailAttempt
  <2>3. mails' \in [Sends -> Nat] /\ lost' \in [Sends -> Nat]
    BY <1>32, <2>1 DEF StampFails, Lose
  <2> QED
    BY <1>32, <2>2, <2>3 DEF StampFails, Fault, FailAttempt, campaignVars,
       tenantVars, requestVars
<1>33. ASSUME NEW w \in Workers, Crash(w) PROVE TypeOK'
  BY <1>33 DEF Crash, Fault, Lose, campaignVars, tenantVars, requestVars
<1>34. ASSUME NEW s \in Sends, Stalled(s) PROVE TypeOK'
  <2>1. job' \in [Sends -> Job]
    BY <1>34, JobValues DEF Stalled
  <2> QED
    BY <1>34, <2>1 DEF Stalled, campaignVars, tenantVars, requestVars,
       workerVars, mailVars
<1>35. ASSUME NEW s \in Sends, Trim(s) PROVE TypeOK'
  <2>1. job' \in [Sends -> Job]
    BY <1>35, JobValues DEF Trim
  <2> QED
    BY <1>35, <2>1 DEF Trim, campaignVars, tenantVars, requestVars, workerVars,
       mailVars
<1>36. ASSUME GatesChange PROVE TypeOK'
  BY <1>36 DEF GatesChange, campaignVars, requestVars, workerVars, mailVars
<1>37. ASSUME NEW s \in Sends, Join(s) PROVE TypeOK'
  BY <1>37 DEF Join, campaignVars, requestVars, workerVars, mailVars
<1>38. ASSUME NEW s \in Sends, Leave(s) PROVE TypeOK'
  BY <1>38 DEF Leave, campaignVars, requestVars, workerVars, mailVars
<1>39. CASE UNCHANGED vars
  BY <1>39 DEF vars
<1> QED
  BY <1>1, <1>2, <1>3, <1>4, <1>5, <1>6, <1>7, <1>8, <1>9, <1>10, <1>11,
       <1>12, <1>13, <1>14, <1>15, <1>16, <1>17, <1>18, <1>19, <1>20, <1>21,
       <1>22, <1>23, <1>24, <1>25, <1>26, <1>27, <1>28, <1>29, <1>30, <1>31,
       <1>32, <1>33, <1>34, <1>35, <1>36, <1>37, <1>38, <1>39
  DEF Next, Request, Launch, Pause, Resume, Kill, Retry, Worker, Tenant

-----------------------------------------------------------------------------

\* What a request may do to the sends and their jobs, whichever operation it
\* is and wherever it stops: it leaves locked jobs alone, touches no email,
\* and materialises only sends of listed employees.
LEMMA RequestEffect ==
  ASSUME TypeOK, RowInv, NEW r \in Requests, Request(r) \/ RequestDies(r)
  PROVE  /\ UNCHANGED <<person, at, on, mails, lost>>
         /\ \A s \in Sends : job[s].state = "active" => job'[s] = job[s]
         /\ \A s \in Sends :
              \/ job'[s] = job[s]
              \/ job'[s].state = "none"
              \/ job'[s].state = "waiting" /\ s \in batch[r] /\ pc[r] # "launchCreate"
         /\ \A s \in Sends :
              \/ rows'[s] = rows[s]
              \/ rows[s] = "none" /\ rows'[s] = "pending" /\ person[s] = "listed"
         /\ \A w \in Workers : late'[w] = late[w] \/ late'[w] = 0
         /\ status # "killed" /\ status' = "killed" => late' = late
         /\ status' # "killed" /\ status' # status => late' = [w \in Workers |-> 0]
<1> USE DEF TypeOK, campaignVars, tenantVars, workerVars, mailVars, Goto, Finish
<1>1. CASE Launch(r)
  <2>1. CASE LaunchCreate(r)
    BY <2>1 DEF LaunchCreate, RowInv
  <2>2. CASE LaunchEnqueue(r)
    BY <2>2, JobValues DEF LaunchEnqueue, AddBulk
  <2>3. CASE LaunchCheck(r) \/ LaunchPreflight(r) \/ LaunchRoster(r) \/ LaunchRead(r)
    BY <2>3 DEF LaunchCheck, LaunchPreflight, LaunchRoster, LaunchRead, ReadPending
  <2>4. CASE LaunchActivate(r) \/ LaunchRecur(r)
    BY <2>4 DEF LaunchActivate, LaunchRecur, SetStatus
  <2> QED
    BY <1>1, <2>1, <2>2, <2>3, <2>4 DEF Launch
<1>2. CASE Pause(r)
  BY <1>2 DEF Pause, PauseCheck, PauseWrite, SetStatus
<1>3. CASE Resume(r)
  <2>1. CASE ResumeEnqueue(r)
    BY <2>1, JobValues DEF ResumeEnqueue, AddBulk
  <2>2. CASE ResumeCheck(r) \/ ResumeWrite(r) \/ ResumeRead(r)
    BY <2>2 DEF ResumeCheck, ResumeWrite, ResumeRead, ReadPending, SetStatus
  <2> QED
    BY <1>3, <2>1, <2>2 DEF Resume
<1>4. CASE Kill(r)
  <2>1. CASE KillDrain(r)
    BY <2>1, JobValues DEF KillDrain, ClearNext, RemoveJob
  <2>2. CASE KillCheck(r) \/ KillWrite(r) \/ KillRead(r) \/ KillDone(r)
    BY <2>2 DEF KillCheck, KillWrite, KillRead, KillDone, SetStatus
  <2> QED
    BY <1>4, <2>1, <2>2 DEF Kill
<1>5. CASE Retry(r)
  <2>1. CASE RetryClear(r)
    BY <2>1, JobValues DEF RetryClear, ClearNext, RemoveJob
  <2>2. CASE RetryEnqueue(r)
    BY <2>2, JobValues DEF RetryEnqueue, AddBulk
  <2>3. CASE RetryCheck(r) \/ RetryRead(r)
    BY <2>3 DEF RetryCheck, RetryRead
  <2> QED
    BY <1>5, <2>1, <2>2, <2>3 DEF Retry
<1>6. CASE RequestDies(r)
  BY <1>6 DEF RequestDies
<1> QED
  BY <1>1, <1>2, <1>3, <1>4, <1>5, <1>6 DEF Request

\* Locks: a job is held by at most one worker, and only while it is active.
LEMMA LockStep ==
  ASSUME TypeOK, LockInv, RowInv, [Next]_vars PROVE LockInv'
<1> USE DeliveryAssumption DEF TypeOK, LockInv
<1>1. ASSUME NEW r \in Requests, Request(r) \/ RequestDies(r) PROVE LockInv'
  <2>1. UNCHANGED <<at, on>>
    BY <1>1, RequestEffect
  <2>2. \A s \in Sends : job[s].state = "active" => job'[s] = job[s]
    BY <1>1, RequestEffect
  <2> QED
    BY <2>1, <2>2
<1>2. ASSUME NEW w \in Workers, NEW s \in Sends, Fetch(w, s) PROVE LockInv'
  <2>1. \A v \in Workers : on[v] # s
    BY <1>2 DEF Fetch
  <2>2. job'[s].state = "active" /\ \A x \in Sends : x # s => job'[x] = job[x]
    BY <1>2, JobValues DEF Fetch
  <2> QED
    BY <1>2, <2>1, <2>2 DEF Fetch
<1>3. ASSUME NEW w \in Workers, ReadSend(w) \/ Mail(w) \/ Stamp(w) PROVE LockInv'
  BY <1>3 DEF ReadSend, ReadThen, Mail, Stamp, WorkerSteps
<1>4. ASSUME NEW w \in Workers,
             Ack(w) \/ MailRefused(w) \/ MailUncertain(w) \/ StampFails(w) \/ Crash(w)
      PROVE  LockInv'
  <2>1. at[w] # "idle" /\ on[w] \in Sends
    BY <1>4 DEF Ack, MailRefused, MailUncertain, StampFails, Crash
  <2>2. at' = [at EXCEPT ![w] = "idle"] /\ on' = [on EXCEPT ![w] = None]
    BY <1>4 DEF Ack, MailRefused, MailUncertain, StampFails, Crash, FailAttempt
  <2>3. \A s \in Sends : s # on[w] => job'[s] = job[s]
    BY <1>4, <2>1 DEF Ack, MailRefused, MailUncertain, StampFails, Crash, FailAttempt
  <2> QED
    BY <2>1, <2>2, <2>3
<1>5. ASSUME NEW s \in Sends, Stalled(s) \/ Trim(s) PROVE LockInv'
  <2>1. UNCHANGED <<at, on>>
    BY <1>5 DEF Stalled, Trim, workerVars
  <2>2. \A x \in Sends : x # s => job'[x] = job[x]
    BY <1>5 DEF Stalled, Trim
  <2>3. \A w \in Workers : on[w] # s
    BY <1>5 DEF Stalled, Trim
  <2> QED
    BY <2>1, <2>2, <2>3
<1>6. CASE Tenant
  BY <1>6 DEF Tenant, GatesChange, Join, Leave, workerVars
<1>7. CASE UNCHANGED vars
  BY <1>7 DEF vars
<1> QED
  BY <1>1, <1>2, <1>3, <1>4, <1>5, <1>6, <1>7 DEF Next, Worker

\* Materialisation: jobs and enqueued batches are about materialised sends.
LEMMA RowStep ==
  ASSUME TypeOK, LockInv, RowInv, [Next]_vars PROVE RowInv'
<1> DEFINE Fresh == \A s \in Sends : rows[s] = "none" /\ person[s] # "left" =>
                       job[s].state = "none" /\ mails[s] = 0 /\ lost[s] = 0
           Listed == \A s \in Sends : rows[s] # "none" => person[s] = "listed"
           Batches == \A r \in Requests : \A s \in batch[r] :
                        /\ person[s] # "new"
                        /\ rows[s] # "none" \/ person[s] = "left" \/ pc[r] = "launchCreate"
<1>0. Fresh /\ Listed /\ Batches
  BY DEF RowInv
<1>a. Fresh' /\ Listed' /\ Batches' => RowInv'
  BY DEF RowInv
<1> USE DeliveryAssumption DEF TypeOK, campaignVars, tenantVars, requestVars, workerVars, mailVars
<1>1. ASSUME NEW r \in Requests, Request(r) \/ RequestDies(r) PROVE RowInv'
  <2>1. UNCHANGED <<person, mails, lost>>
    BY <1>1, RequestEffect
  <2>2. \A s \in Sends : \/ job'[s] = job[s]
                         \/ job'[s].state = "none"
                         \/ s \in batch[r] /\ pc[r] # "launchCreate"
    BY <1>1, RequestEffect
  <2>3. \A s \in Sends : \/ rows'[s] = rows[s]
                         \/ rows[s] = "none" /\ rows'[s] = "pending" /\ person[s] = "listed"
    BY <1>1, RequestEffect
  <2>4. Fresh' /\ Listed'
    BY <1>0, <2>1, <2>2, <2>3
  <2>5. Batches'
    <3>1. \A q \in Requests \ {r} : batch'[q] = batch[q] /\ pc'[q] = pc[q]
      BY <1>1 DEF Request, Launch, Pause, Resume, Kill, Retry, RequestDies,
         LaunchCheck, LaunchPreflight, LaunchRoster, LaunchCreate, LaunchRead,
         LaunchActivate, LaunchEnqueue, LaunchRecur, PauseCheck, PauseWrite,
         ResumeCheck, ResumeWrite, ResumeRead, ResumeEnqueue, KillCheck,
         KillWrite, KillRead, KillDrain, KillDone, RetryCheck, RetryRead,
         RetryClear, RetryEnqueue, ReadPending, ClearNext, Goto, Finish
    <3>2. \/ batch'[r] = {}
          \/ batch'[r] = Pending /\ UNCHANGED rows
          \/ batch'[r] = batch[r] /\ pc[r] # "launchCreate"
          \/ batch'[r] = {s \in Sends : person[s] = "listed"} /\ pc'[r] = "launchCreate"
      <4>1. CASE LaunchRoster(r)
        BY <4>1 DEF LaunchRoster, Goto, Finish
      <4>2. CASE LaunchPreflight(r) \/ LaunchCreate(r) \/ LaunchRecur(r)
                 \/ LaunchEnqueue(r) \/ PauseWrite(r) \/ ResumeEnqueue(r)
                 \/ KillDone(r) \/ RetryEnqueue(r) \/ RequestDies(r)
        BY <4>2 DEF LaunchPreflight, LaunchCreate, LaunchRecur, LaunchEnqueue,
           PauseWrite, ResumeEnqueue, KillDone, RetryEnqueue, RequestDies, Goto, Finish
      <4>3. CASE LaunchRead(r) \/ ResumeRead(r) \/ RetryRead(r)
        BY <4>3 DEF LaunchRead, ResumeRead, RetryRead, ReadPending, Goto, Pending
      <4>4. CASE LaunchCheck(r) \/ LaunchActivate(r) \/ PauseCheck(r) \/ ResumeCheck(r)
                 \/ ResumeWrite(r) \/ KillCheck(r) \/ KillWrite(r) \/ KillRead(r)
                 \/ KillDrain(r) \/ RetryCheck(r) \/ RetryClear(r)
        BY <4>4 DEF LaunchCheck, LaunchActivate, PauseCheck, ResumeCheck,
           ResumeWrite, KillCheck, KillWrite, KillRead, KillDrain, RetryCheck,
           RetryClear, ClearNext, Goto
      <4> QED
        BY <1>1, <4>1, <4>2, <4>3, <4>4 DEF Request, Launch, Pause, Resume, Kill, Retry
    <3>3. \A q \in Requests \ {r} : \A s \in batch'[q] :
            /\ person'[s] # "new"
            /\ rows'[s] # "none" \/ person'[s] = "left" \/ pc'[q] = "launchCreate"
      BY <1>0, <2>1, <2>3, <3>1
    <3>4. \A s \in batch'[r] :
            /\ person'[s] # "new"
            /\ rows'[s] # "none" \/ person'[s] = "left" \/ pc'[r] = "launchCreate"
      BY <1>0, <2>1, <2>3, <3>2 DEF Pending
    <3> QED
      BY <3>3, <3>4
  <2> QED
    BY <1>a, <2>4, <2>5
<1>2. ASSUME NEW w \in Workers, Worker(w) \/ Crash(w) PROVE RowInv'
  <2>1. on[w] \in Sends /\ job[on[w]].state = "active"
    BY <1>2 DEF LockInv, Worker, ReadSend, ReadThen, Mail, Stamp, Ack, MailRefused,
       MailUncertain, StampFails, Crash
  <2>2. rows[on[w]] # "none" \/ person[on[w]] = "left"
    BY <1>0, <2>1
  <2>3. UNCHANGED <<person, batch, pc>>
    BY <1>2 DEF Worker, ReadSend, ReadThen, Mail, Stamp, Ack, MailRefused, MailUncertain,
       StampFails, Crash
  <2>4. \A s \in Sends : s # on[w] =>
          job'[s] = job[s] /\ mails'[s] = mails[s] /\ lost'[s] = lost[s]
    BY <1>2, <2>1 DEF Worker, ReadSend, ReadThen, Mail, Stamp, Ack, MailRefused, MailUncertain,
       StampFails, Crash, Accept, Lose, FailAttempt
  <2>5. \A s \in Sends : \/ rows'[s] = rows[s]
                         \/ rows[s] # "none" /\ rows'[s] # "none"
    <3>1. CASE Stamp(w)
      BY <2>1, <3>1 DEF Stamp
    <3>2. CASE ~Stamp(w)
      BY <1>2, <3>2 DEF Worker, ReadSend, ReadThen, Mail, Ack, MailRefused, MailUncertain,
         StampFails, Crash
    <3> QED
      BY <3>1, <3>2
  <2> QED
    BY <1>0, <1>a, <2>2, <2>3, <2>4, <2>5
<1>3. ASSUME NEW s \in Sends,
             Stalled(s) \/ Trim(s) \/ \E w \in Workers : Fetch(w, s)
      PROVE  RowInv'
  <2>1. job[s].state # "none"
    BY <1>3 DEF Stalled, Trim, Fetch
  <2>2. \A x \in Sends : x # s => job'[x] = job[x]
    BY <1>3 DEF Stalled, Trim, Fetch
  <2>3. UNCHANGED <<rows, person, batch, pc, mails, lost>>
    BY <1>3 DEF Stalled, Trim, Fetch
  <2> QED
    BY <1>0, <1>a, <2>1, <2>2, <2>3
<1>4. CASE Tenant
  BY <1>0, <1>a, <1>4 DEF Tenant, GatesChange, Join, Leave
<1>5. CASE UNCHANGED vars
  BY <1>0, <1>a, <1>5 DEF vars
<1> QED
  BY <1>1, <1>2, <1>3, <1>4, <1>5 DEF Next

\* The ledger: one email, one stamp, or one lost stamp.
LEMMA LedgerStep ==
  ASSUME TypeOK, LockInv, RowInv, LedgerInv, [Next]_vars PROVE LedgerInv'
<1> USE DeliveryAssumption DEF TypeOK, LedgerInv
<1>1. ASSUME NEW r \in Requests, Request(r) \/ RequestDies(r) PROVE LedgerInv'
  <2>1. UNCHANGED <<at, on, mails, lost>>
    BY <1>1, RequestEffect
  <2>2. \A s \in Sends : \/ rows'[s] = rows[s]
                         \/ rows[s] = "none" /\ rows'[s] = "pending" /\ person[s] = "listed"
    BY <1>1, RequestEffect
  <2>3. \A s \in Sends : rows'[s] # rows[s] => mails[s] = lost[s]
    BY <2>2 DEF RowInv
  <2>4. \A w \in Workers : at[w] # "idle" => on[w] \in Sends
    BY DEF LockInv
  <2> QED
    BY <2>1, <2>2, <2>3, <2>4
<1>2. ASSUME NEW w \in Workers, NEW s \in Sends, Fetch(w, s) PROVE LedgerInv'
  BY <1>2 DEF Fetch, mailVars, LockInv
<1>3. ASSUME NEW w \in Workers, Worker(w) \/ Crash(w) PROVE LedgerInv'
  <2> DEFINE s == on[w]
  <2>1. s \in Sends /\ \A v \in Workers : v # w => on[v] # s
    BY <1>3 DEF LockInv, Worker, ReadSend, ReadThen, Mail, Stamp, Ack, MailRefused,
       MailUncertain, StampFails, Crash
  <2>2. /\ \A v \in Workers : v # w => at'[v] = at[v] /\ on'[v] = on[v]
        /\ \A x \in Sends : x # s =>
             mails'[x] = mails[x] /\ lost'[x] = lost[x] /\ rows'[x] = rows[x]
    BY <1>3, <2>1 DEF Worker, ReadSend, ReadThen, Mail, Stamp, Ack, MailRefused, MailUncertain,
       StampFails, Crash, Accept, Lose, FailAttempt, mailVars
  <2>3. \/ at[w] \in {"read", "ack", "send"} /\ at'[w] \in {"idle", "ack"}
           /\ UNCHANGED <<rows, mails, lost>>
        \/ at[w] = "read" /\ at'[w] = "send" /\ on'[w] = s /\ rows[s] = "pending"
           /\ UNCHANGED <<rows, mails, lost>>
        \/ at[w] = "send" /\ at'[w] = "stamp" /\ on'[w] = s
           /\ mails'[s] = mails[s] + 1 /\ UNCHANGED <<rows, lost>>
        \/ at[w] = "send" /\ at'[w] = "idle" /\ mails'[s] = mails[s] + 1
           /\ lost'[s] = lost[s] + 1 /\ UNCHANGED rows
        \/ at[w] = "stamp" /\ at'[w] = "ack" /\ rows'[s] = "sent"
           /\ UNCHANGED <<mails, lost>>
        \/ at[w] = "stamp" /\ at'[w] = "idle" /\ lost'[s] = lost[s] + 1
           /\ UNCHANGED <<rows, mails>>
    <3>1. CASE Ack(w) \/ ReadSend(w) \/ MailRefused(w)
      BY <3>1 DEF Ack, ReadSend, ReadThen, MailRefused, FailAttempt, mailVars
    <3>2. CASE Mail(w) \/ MailUncertain(w)
      BY <3>2, <2>1 DEF Mail, MailUncertain, Accept, Lose, FailAttempt
    <3>3. CASE Stamp(w) \/ StampFails(w)
      BY <3>3, <2>1 DEF Stamp, StampFails, Lose, FailAttempt, mailVars
    <3>4. CASE Crash(w)
      BY <3>4, <2>1 DEF Crash, Lose, WorkerSteps
    <3> QED
      BY <1>3, <3>1, <3>2, <3>3, <3>4 DEF Worker
  <2>4. at[w] \in {"read", "ack", "idle"} /\ rows[s] = "pending" => mails[s] = lost[s]
    BY <2>1 DEF LockInv
  <2>5. \A v \in Workers : at[v] # "idle" => on[v] \in Sends
    BY DEF LockInv
  <2> HIDE DEF s
  <2> QED
    BY <2>1, <2>2, <2>3, <2>4, <2>5 DEF s
<1>4. ASSUME NEW s \in Sends, Stalled(s) \/ Trim(s) PROVE LedgerInv'
  BY <1>4 DEF Stalled, Trim, workerVars, mailVars
<1>5. CASE Tenant
  <2>1. UNCHANGED <<at, on, mails, lost>>
    BY <1>5 DEF Tenant, GatesChange, Join, Leave, workerVars, mailVars
  <2>2. \A s \in Sends : rows'[s] \in {rows[s], "none"}
    BY <1>5 DEF Tenant, GatesChange, Join, Leave
  <2>3. \A w \in Workers : at[w] # "idle" => on[w] \in Sends
    BY DEF LockInv
  <2> QED
    BY <2>1, <2>2, <2>3
<1>6. CASE UNCHANGED vars
  BY <1>6 DEF vars
<1> QED
  BY <1>1, <1>2, <1>3, <1>4, <1>5, <1>6 DEF Next

\* Late emails: whoever mailed after the kill read the status before it.
LEMMA LateStep ==
  ASSUME TypeOK, LockInv, RowInv, LateInv, [Next]_vars PROVE LateInv'
<1> USE DEF TypeOK, LateInv
<1>1. ASSUME NEW r \in Requests, Request(r) \/ RequestDies(r) PROVE LateInv'
  <2>1. /\ at' = at
        /\ \A w \in Workers : late'[w] = late[w] \/ late'[w] = 0
        /\ status' # "killed" /\ status' # status => late' = [w \in Workers |-> 0]
    BY <1>1, RequestEffect
  <2>2. late' = late \/ late' = [w \in Workers |-> 0]
    BY <1>1 DEF Request, Launch, Pause, Resume, Kill, Retry, RequestDies,
       LaunchCheck, LaunchPreflight, LaunchRoster, LaunchCreate, LaunchRead,
       LaunchActivate, LaunchEnqueue, LaunchRecur, PauseCheck, PauseWrite,
       ResumeCheck, ResumeWrite, ResumeRead, ResumeEnqueue, KillCheck,
       KillWrite, KillRead, KillDrain, KillDone, RetryCheck, RetryRead,
       RetryClear, RetryEnqueue, ReadPending, ClearNext, SetStatus, campaignVars
  <2> QED
    BY <2>1, <2>2
<1>2. ASSUME NEW w \in Workers, Worker(w) \/ Crash(w) PROVE LateInv'
  <2>1. CASE Mail(w) \/ MailUncertain(w)
    BY <2>1 DEF Mail, MailUncertain, Accept, FailAttempt
  <2>2. CASE ReadSend(w)
    BY <2>2 DEF ReadSend, ReadThen, campaignVars
  <2>3. CASE Stamp(w) \/ Ack(w) \/ MailRefused(w) \/ StampFails(w) \/ Crash(w)
    BY <2>3 DEF Stamp, Ack, MailRefused, StampFails, Crash, FailAttempt, campaignVars
  <2> QED
    BY <1>2, <2>1, <2>2, <2>3 DEF Worker
<1>3. ASSUME NEW s \in Sends,
             Stalled(s) \/ Trim(s) \/ \E w \in Workers : Fetch(w, s)
      PROVE  LateInv'
  BY <1>3 DEF Stalled, Trim, Fetch, campaignVars, workerVars
<1>4. CASE Tenant
  BY <1>4 DEF Tenant, GatesChange, Join, Leave, campaignVars, workerVars
<1>5. CASE UNCHANGED vars
  BY <1>5 DEF vars
<1> QED
  BY <1>1, <1>2, <1>3, <1>4, <1>5 DEF Next

-----------------------------------------------------------------------------

LEMMA InitDelivery == Init => DeliveryInv
<1> SUFFICES ASSUME Init PROVE DeliveryInv
  OBVIOUS
<1> USE DeliveryAssumption, JobValues
<1>1. TypeOK
  BY DEF Init, TypeOK, Status, RequestSteps, WorkerSteps
<1>2. LockInv /\ RowInv
  BY DEF Init, LockInv, RowInv
<1>3. LedgerInv /\ LateInv
  BY DEF Init, LedgerInv, LateInv
<1> QED
  BY <1>1, <1>2, <1>3 DEF DeliveryInv

\* The inductive invariant holds in every reachable state of
\* CampaignsService and SendProcessor.
THEOREM DeliveryInvariant == Spec => []DeliveryInv
<1>1. DeliveryInv /\ [Next]_vars => DeliveryInv'
  BY TypeStep, LockStep, RowStep, LedgerStep, LateStep DEF DeliveryInv
<1> QED
  BY <1>1, InitDelivery, PTL DEF Spec

\* Every variable keeps its type.
THEOREM TypeCorrect == Spec => []TypeOK
<1>1. DeliveryInv => TypeOK
  BY DEF DeliveryInv
<1> QED
  BY <1>1, DeliveryInvariant, PTL

\* At most one email per recipient and lost stamp.
THEOREM AtMostOnceCorrect == Spec => []AtMostOnce
<1>1. DeliveryInv => AtMostOnce
  <2> SUFFICES ASSUME DeliveryInv, NEW s \in Sends PROVE mails[s] <= lost[s] + 1
    BY DEF AtMostOnce
  <2>1. mails[s] \in Nat /\ lost[s] \in Nat /\ mails[s] \in {lost[s], lost[s] + 1}
    BY DEF DeliveryInv, TypeOK, LedgerInv
  <2> QED
    BY <2>1
<1> QED
  BY <1>1, DeliveryInvariant, PTL

\* A row stamped sentAt stands for exactly one accepted email whose stamp was
\* not lost.
THEOREM SentMeansMailedCorrect == Spec => []SentMeansMailed
<1>1. DeliveryInv => SentMeansMailed
  BY DEF DeliveryInv, LedgerInv, SentMeansMailed
<1> QED
  BY <1>1, DeliveryInvariant, PTL

\* Every job is about a send that was materialised first.
THEOREM JobsHaveRowsCorrect == Spec => []JobsHaveRows
<1>1. DeliveryInv => JobsHaveRows
  BY DEF DeliveryInv, RowInv, JobsHaveRows
<1> QED
  BY <1>1, DeliveryInvariant, PTL

\* A kill lets out at most one email per worker.
THEOREM LateMailBounded == Spec => []LateMailBound
<1>1. DeliveryInv => LateMailBound
  BY DEF DeliveryInv, LateInv, LateMailBound
<1> QED
  BY <1>1, DeliveryInvariant, PTL

\* No email follows the stamp.
THEOREM NeverMailedAfterStampCorrect == Spec => NeverMailedAfterStamp
<1>1. DeliveryInv /\ [Next]_vars
        => [\A s \in Sends : mails'[s] # mails[s] => rows[s] # "sent"]_vars
  <2> SUFFICES ASSUME DeliveryInv, Next, NEW s \in Sends, mails'[s] # mails[s]
               PROVE  rows[s] # "sent"
    OBVIOUS
  <2> USE DEF DeliveryInv
  <2>1. CASE \E w \in Workers : Mail(w) \/ MailUncertain(w)
    <3> PICK w \in Workers : Mail(w) \/ MailUncertain(w)
      BY <2>1
    <3>1. at[w] = "send" /\ mails' = [mails EXCEPT ![on[w]] = @ + 1]
      BY DEF Mail, MailUncertain, Accept
    <3>2. on[w] = s
      BY <3>1 DEF TypeOK
    <3> QED
      BY <3>1, <3>2 DEF LedgerInv
  <2>2. CASE ~ \E w \in Workers : Mail(w) \/ MailUncertain(w)
    <3>1. \A r \in Requests : Request(r) \/ RequestDies(r) => mails' = mails
      BY RequestEffect
    <3>2. \A w \in Workers : Worker(w) \/ Crash(w) => mails' = mails
      BY <2>2 DEF Worker, ReadSend, ReadThen, Stamp, Ack, MailRefused, StampFails, Crash,
         mailVars
    <3>3. \A x \in Sends : Stalled(x) \/ Trim(x) \/ (\E w \in Workers : Fetch(w, x))
            => mails' = mails
      BY DEF Stalled, Trim, Fetch, mailVars
    <3>4. Tenant => mails' = mails
      BY DEF Tenant, GatesChange, Join, Leave, mailVars
    <3> QED
      BY <3>1, <3>2, <3>3, <3>4 DEF Next
  <2> QED
    BY <2>1, <2>2
<1> QED
  BY <1>1, DeliveryInvariant, PTL DEF Spec, NeverMailedAfterStamp

\* A kill is undone only by a call that read the status before it.
THEOREM KillSticksCorrect == Spec => KillSticks
<1>1. TypeOK /\ [Next]_vars => [KillSettled => KillSettled']_vars
  <2> SUFFICES ASSUME TypeOK, Next, KillSettled PROVE KillSettled'
    OBVIOUS
  <2> USE DEF KillSettled, StatusWrites, TypeOK, Goto, Finish
  <2>1. ASSUME NEW r \in Requests, Request(r) \/ RequestDies(r) PROVE KillSettled'
    <3>1. CASE Launch(r)
      BY <3>1 DEF Launch, LaunchCheck, LaunchPreflight, LaunchRoster, LaunchCreate,
         LaunchRead, LaunchActivate, LaunchEnqueue, LaunchRecur, ReadPending,
         campaignVars
    <3>2. CASE Pause(r)
      BY <3>2 DEF Pause, PauseCheck, PauseWrite
    <3>3. CASE Resume(r)
      BY <3>3 DEF Resume, ResumeCheck, ResumeWrite, ResumeRead, ResumeEnqueue,
         ReadPending, campaignVars
    <3>4. CASE Kill(r)
      BY <3>4 DEF Kill, KillCheck, KillWrite, KillRead, KillDrain, KillDone,
         SetStatus, ClearNext, campaignVars
    <3>5. CASE Retry(r)
      BY <3>5 DEF Retry, RetryCheck, RetryRead, RetryClear, RetryEnqueue,
         ClearNext, campaignVars
    <3>6. CASE RequestDies(r)
      BY <3>6 DEF RequestDies, campaignVars
    <3> QED
      BY <2>1, <3>1, <3>2, <3>3, <3>4, <3>5, <3>6 DEF Request
  <2>2. ASSUME NEW w \in Workers, Worker(w) \/ Crash(w) PROVE KillSettled'
    BY <2>2 DEF Worker, ReadSend, ReadThen, Mail, Stamp, Ack, MailRefused, MailUncertain,
       StampFails, Crash, campaignVars, requestVars
  <2>3. ASSUME NEW s \in Sends,
               Stalled(s) \/ Trim(s) \/ \E w \in Workers : Fetch(w, s)
        PROVE  KillSettled'
    BY <2>3 DEF Stalled, Trim, Fetch, campaignVars, requestVars
  <2>4. CASE Tenant
    BY <2>4 DEF Tenant, GatesChange, Join, Leave, campaignVars, requestVars
  <2> QED
    BY <2>1, <2>2, <2>3, <2>4 DEF Next
<1> QED
  BY <1>1, TypeCorrect, PTL DEF Spec, KillSticks

-----------------------------------------------------------------------------

\* Every step of the campaign is a step of the delivery contract, or none.
THEOREM ContractStep ==
  DeliveryInv /\ [Next]_vars => [Contract!Next]_(Contract!vars)
<1> DEFINE Cleared == {s \in Sends : \E w \in Workers : on[w] = s /\ at[w] = "send"}
<1> SUFFICES ASSUME DeliveryInv, [Next]_vars
             PROVE  Contract!Next \/ UNCHANGED <<status, rows, Cleared, mails, lost>>
  BY DEF Contract!vars
<1>0. \A x \in Sends : Contract!Clear(x) \/ Contract!Send(x) \/ Contract!Revoke(x)
        \/ Contract!Record(x) \/ Contract!Forget(x) \/ Contract!Withdraw(x)
          => Contract!Next
  BY DEF Contract!Next
<1> USE DEF DeliveryInv, TypeOK
<1>1. ASSUME NEW r \in Requests, Request(r) \/ RequestDies(r)
      PROVE  Contract!Next \/ UNCHANGED <<status, rows, Cleared, mails, lost>>
  <2>1. UNCHANGED <<at, on, mails, lost>>
    BY <1>1, RequestEffect
  <2>2. Cleared' = Cleared
    BY <2>1
  <2>3. status' \in Status
    BY <1>1, TypeStep DEF Next
  <2>4. CASE rows' = rows
    <3>1. Contract!Change
      BY <2>1, <2>2, <2>3, <2>4 DEF Contract!Change
    <3> QED
      BY <3>1 DEF Contract!Next
  <2>5. CASE rows' # rows
    <3> DEFINE S == {s \in Sends : rows'[s] # rows[s]}
    <3>1. LaunchCreate(r)
      BY <1>1, <2>5 DEF Request, Launch, Pause, Resume, Kill, Retry, RequestDies,
         LaunchCheck, LaunchPreflight, LaunchRoster, LaunchRead,
         LaunchActivate, LaunchEnqueue, LaunchRecur, PauseCheck, PauseWrite,
         ResumeCheck, ResumeWrite, ResumeRead, ResumeEnqueue, KillCheck,
         KillWrite, KillRead, KillDrain, KillDone, RetryCheck, RetryRead,
         RetryClear, RetryEnqueue, ReadPending, ClearNext
    <3>2. status' = status
      BY <3>1 DEF LaunchCreate, campaignVars
    <3>3. \A s \in Sends : \/ rows'[s] = rows[s]
                           \/ rows[s] = "none" /\ rows'[s] = "pending" /\ person[s] = "listed"
      BY <1>1, RequestEffect
    <3>4. \A s \in S : rows[s] = "none" /\ mails[s] = 0 /\ rows'[s] = "pending"
      BY <3>3 DEF RowInv
    <3>5. rows' \in [Sends -> {"none", "pending", "sent"}]
      BY <1>1, TypeStep DEF Next
    <3>6. rows' = [s \in Sends |-> IF s \in S THEN "pending" ELSE rows[s]]
      BY <3>4, <3>5
    <3>7. S \in SUBSET Sends
      OBVIOUS
    <3> HIDE DEF S
    <3>8. Contract!Materialise(S)
      BY <2>1, <2>2, <3>2, <3>4, <3>6 DEF Contract!Materialise
    <3> QED
      BY <3>7, <3>8 DEF Contract!Next
  <2> QED
    BY <2>4, <2>5
<1>2. ASSUME NEW w \in Workers, Worker(w) \/ Crash(w)
      PROVE  Contract!Next \/ UNCHANGED <<status, rows, Cleared, mails, lost>>
  <2>0. PICK s \in Sends : on[w] = s
    BY <1>2 DEF LockInv, Worker, ReadSend, ReadThen, Mail, Stamp, Ack, MailRefused,
       MailUncertain, StampFails, Crash
  <2>1. on[w] = s /\ \A v \in Workers : v # w => on[v] # s
    BY <1>2, <2>0 DEF LockInv, Worker, ReadSend, ReadThen, Mail, Stamp, Ack, MailRefused,
       MailUncertain, StampFails, Crash
  <2>2. /\ status' = status
        /\ \A v \in Workers : v # w => at'[v] = at[v] /\ on'[v] = on[v]
    BY <1>2 DEF Worker, ReadSend, ReadThen, Mail, Stamp, Ack, MailRefused, MailUncertain,
       StampFails, Crash, FailAttempt, campaignVars
  <2>3. at'[w] # "send" => Cleared' = Cleared \ {s}
    BY <2>1, <2>2
  <2>4. at[w] # "send" => s \notin Cleared
    BY <2>1
  <2>5. at[w] = "send" => s \in Cleared
    BY <2>1
  <2>6. CASE ReadSend(w)
    <3>1. UNCHANGED <<rows, mails, lost, on>> /\ at[w] = "read"
      BY <2>1, <2>6 DEF ReadSend, ReadThen, mailVars
    <3>2. CASE rows[s] = "pending" /\ status = "active"
      <4>1. at'[w] = "send"
        BY <2>1, <2>6, <3>2 DEF ReadSend, ReadThen
      <4>2. Cleared' = Cleared \cup {s}
        BY <2>1, <2>2, <3>1, <4>1
      <4>3. mails[s] = lost[s]
        BY <2>1, <3>1, <3>2 DEF LedgerInv
      <4>4. Contract!Clear(s)
        BY <2>1, <2>2, <2>4, <3>1, <3>2, <4>2, <4>3 DEF Contract!Clear
      <4> QED
        BY <1>0, <4>4
    <3>3. CASE ~(rows[s] = "pending" /\ status = "active")
      <4>1. at'[w] = "ack"
        BY <2>1, <2>6, <3>3 DEF ReadSend, ReadThen
      <4>2. Cleared' = Cleared
        BY <2>3, <2>4, <3>1, <4>1
      <4> QED
        BY <2>2, <3>1, <4>2
    <3> QED
      BY <3>2, <3>3
  <2>7. CASE Mail(w) \/ MailUncertain(w)
    <3>1. at[w] = "send" /\ at'[w] # "send" /\ UNCHANGED rows
      BY <2>1, <2>7 DEF Mail, MailUncertain, FailAttempt
    <3>2. mails' = [mails EXCEPT ![s] = @ + 1]
      BY <2>1, <2>7 DEF Mail, MailUncertain, Accept
    <3>3. UNCHANGED lost \/ lost' = [lost EXCEPT ![s] = @ + 1]
      BY <2>1, <2>7 DEF Mail, MailUncertain, Lose
    <3>4. Contract!Send(s)
      BY <2>1, <2>2, <2>3, <2>5, <3>1, <3>2, <3>3 DEF Contract!Send
    <3> QED
      BY <1>0, <3>4
  <2>8. CASE Stamp(w)
    <3>1. at[w] = "stamp" /\ at'[w] = "ack" /\ rows[s] # "none"
          /\ rows' = [rows EXCEPT ![s] = "sent"] /\ UNCHANGED <<mails, lost>>
      BY <2>1, <2>8 DEF Stamp, mailVars
    <3>2. rows[s] = "pending" /\ mails[s] = lost[s] + 1
      BY <2>1, <3>1 DEF LedgerInv
    <3>3. Contract!Record(s)
      BY <2>1, <2>2, <2>3, <2>4, <3>1, <3>2 DEF Contract!Record, Contract!InFlight
    <3> QED
      BY <1>0, <3>3
  <2>9. CASE Ack(w)
    BY <2>1, <2>2, <2>3, <2>4, <2>9 DEF Ack, mailVars
  <2>10. CASE MailRefused(w) \/ (Crash(w) /\ at[w] = "send")
    <3>1. at[w] = "send" /\ at'[w] = "idle" /\ UNCHANGED <<rows, mails, lost>>
      BY <2>1, <2>10 DEF MailRefused, Crash, FailAttempt, mailVars
    <3>2. Contract!Revoke(s)
      BY <2>1, <2>2, <2>3, <2>5, <3>1 DEF Contract!Revoke
    <3> QED
      BY <1>0, <3>2
  <2>11. CASE StampFails(w) \/ (Crash(w) /\ at[w] = "stamp")
    <3>1. at[w] = "stamp" /\ at'[w] = "idle" /\ UNCHANGED <<rows, mails>>
          /\ lost' = [lost EXCEPT ![s] = @ + 1]
      BY <2>1, <2>11 DEF StampFails, Crash, Lose, FailAttempt
    <3>2. rows[s] # "sent" /\ mails[s] = lost[s] + 1
      BY <2>1, <3>1 DEF LedgerInv
    <3>3. Contract!Forget(s)
      BY <2>1, <2>2, <2>3, <2>4, <3>1, <3>2 DEF Contract!Forget, Contract!InFlight
    <3> QED
      BY <1>0, <3>3
  <2>12. CASE Crash(w) /\ at[w] \notin {"send", "stamp"}
    BY <2>1, <2>2, <2>3, <2>4, <2>12 DEF Crash
  <2> QED
    BY <2>1, <1>2, <2>6, <2>7, <2>8, <2>9, <2>10, <2>11, <2>12 DEF Worker
<1>3. ASSUME NEW s \in Sends,
             Stalled(s) \/ Trim(s) \/ \E w \in Workers : Fetch(w, s)
      PROVE  UNCHANGED <<status, rows, Cleared, mails, lost>>
  <2>1. UNCHANGED <<status, rows, mails, lost>>
    BY <1>3 DEF Stalled, Trim, Fetch, campaignVars, mailVars
  <2>2. CASE Stalled(s) \/ Trim(s)
    BY <2>1, <2>2 DEF Stalled, Trim, workerVars
  <2>3. ASSUME NEW w \in Workers, Fetch(w, s) PROVE Cleared' = Cleared
    BY <2>3 DEF Fetch
  <2> QED
    BY <1>3, <2>1, <2>2, <2>3
<1>4. CASE Tenant
  <2>1. UNCHANGED <<status, Cleared, mails, lost>>
    BY <1>4 DEF Tenant, GatesChange, Join, Leave, campaignVars, workerVars, mailVars
  <2>2. CASE rows' = rows
    BY <2>1, <2>2
  <2>3. CASE rows' # rows
    <3> PICK s \in Sends : Leave(s)
      BY <1>4, <2>3 DEF Tenant, GatesChange, Join
    <3>1. Contract!Withdraw(s)
      BY <2>1 DEF Leave, Contract!Withdraw
    <3> QED
      BY <1>0, <3>1
  <2> QED
    BY <2>2, <2>3
<1>5. CASE UNCHANGED vars
  BY <1>5 DEF vars
<1> QED
  BY <1>1, <1>2, <1>3, <1>4, <1>5 DEF Next

\* The campaign, its queue and its workers implement the delivery contract.
THEOREM DeliveryImplementsContract == Spec => ImplementsContract
<1>1. Init => Contract!Init
  <2> SUFFICES ASSUME Init PROVE Contract!Init
    OBVIOUS
  <2>1. {s \in Sends : \E w \in Workers : on[w] = s /\ at[w] = "send"} = {}
    BY DEF Init
  <2> QED
    BY <2>1 DEF Init, Contract!Init
<1> QED
  BY <1>1, ContractStep, DeliveryInvariant, PTL DEF Spec, ImplementsContract, Contract!Spec
=============================================================================
