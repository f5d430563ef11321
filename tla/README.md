# Verification of Vlumeaware

TLA+ models of the Vlumeaware API (`src/api`), the TLC runs that check them on
small instances, and TLAPS proofs that establish the most important results for
every size.

    tlc -workers 2 -config delivery_safety.cfg MCCampaignDelivery
    tlapm CampaignDeliveryProofs.tla

## 1. The system

Vlumeaware runs phishing simulations.  An administrator of a tenant launches a
campaign; every recipient gets a simulated phishing email; what they do with it
is tracked; those who fall for it are assigned training and a quiz; the results
feed reports and risk scores.  It is one NestJS service over Postgres (through
Prisma), with a worker process, Redis (BullMQ queues, rate limits) and a mail
provider.

Almost nothing runs inside a transaction.  A handler is a sequence of awaited
queries, most of them *read the row, decide, update by id*, and any other
handler, worker or tick may run between two of them.  That is where the models
look: **each awaited query is an action**, several calls are in progress at
once, and a call may die between two of its steps.

| component (`src/api/src/…`) | state it keeps | operations | what is hard | what makes it correct |
|---|---|---|---|---|
| campaigns (`modules/campaigns`) | `campaigns.status`; one `sends` row per employee and scenario | create, schedule, launch, pause, resume, kill, retryUnsent | stale status writes; a launch that dies half-way; occurrences that follow | rows before jobs; a settled kill is final; nobody stays unsent for ever; one occurrence follows each launch |
| send queue (`queue/send.processor.ts`) | BullMQ jobs `send-<id>`, `sends.sentAt` | fetch, read, mail, stamp, retry, stalled check, trim | crash between mail and stamp; kept job ids; lost answers | at most one mail per lost stamp; stamped rows are what was mailed |
| scheduler tick (`queue/scheduler.processor.ts`) | `scheduledSendAt` | find what is due, launch it | one campaign's failure, a restart in the middle | what is due and ready is launched |
| weekly digest (`queue/digest.processor.ts`) | `lastDigestSentAt` | find, mail, stamp | overlapping runs, re-runs, lost stamps | an interval between digests; no stamp without a mail |
| tracking (`modules/tracking`), intake (`modules/intake`) | `openedAt`, `clickedAt`, `reportedAt`, `credentialsSubmitted` | open, click, moment page, report, forwarded mail, submit | prefetchers and double clicks; a click racing a report | first times win; the funnel nests; a report's credit settles |
| training (`modules/training`) | `training_assignments`, routing rules | assign from a submission, by hand, by enrolment; complete | check-then-create | one assignment per send and module |
| learning (`learn.service.ts`, `modules/quizzes`, `modules/certificates`) | quiz attempts, access tokens, certificates | assign with a link, submit a quiz, watch, issue and mail a certificate, replace questions | overlapping submissions; a call that dies after the pass | attempt cap; a pass is final and honoured; certificates are earned; links resolve |
| training videos (`modules/training-modules`, `modules/shared-modules`, `providers/storage`) | module rows, objects | upload, clone, remove, erase a client | the object and the row are written apart; clones share objects | modules play; an erased client leaves nothing |
| employee portal (`modules/portal`) | one token per employee row | ask for a link, open it | several rows of one address, overlapping requests | the last token was mailed; what is shown fits together |
| reports, risk (`modules/reports`, `modules/employees`) | none | funnel counts, scores, enrolment of repeat clickers | figures read by separate queries | no figure overstates |
| sign-in (`common/auth`) | `failedLoginCount`, `lockedUntil`, `mfaSecret`, `mfaEnabledAt` | login, second factor, set-up, activation, disabling, reset, unlock | a counter read, held and written back | a bounded number of wrong passwords; the secret switched on is the proven one |
| guards and tenant scope (`common/auth`, `common/consent`, `common/trial`, `common/prisma`) | the scope of a request | every route, every query | each guard reads for itself; accounts change meanwhile; queries that step out of the scope | roles, enrolment, clearance hold at the handler; no client's account sees or writes another's rows |
| console and staff accounts (`modules/tenants`, `modules/platform`, `modules/console-invite`), sign-up (`modules/signup`) | account rows, one-time links | create, invite, accept, deactivate, restore, delete, sign up | checks that are stale at the write | links die; an administrator remains; an address is somebody's alone |
| licences, seats, trial (`modules/licenses`, `modules/employees`, `common/trial`) | licence keys, `seatLimit`, roster | issue, redeem, revoke, upload, approve, delete the client | revoke racing redeem; two uploads; old values written back | seats bound the roster; a key activates once; access is granted by somebody |
| verified domains, gateway (`modules/domains`, `modules/tenants`) | domain rows, probe tokens | add, verify, remove, upload, probe, confirm | DNS asked in the middle of a call | mail stays inside proven domains; a probe confirms once |
| sending domains (`modules/sending-domains`) | the row and the provider's record | add, enable, refresh, remove, choose | late answers; removal while a campaign picks it | verified stays verified; campaigns use verified domains |
| rate limits (`common/ratelimit`) | fixed-window counters | hit | several processes, Redis away | at most the limit per window; no refusal for ever |
| start of processes (`migrate-on-boot.ts`, `schema-guard.ts`, `main.ts`, `worker.ts`) | the migration table | migrate, check, serve | several processes and images at once | serve only on the expected schema |
| web console (`src/web`) | the stored session, the tab | open, sign in and out, call the API | roles listed twice; several tabs | screens and routes agree; redirects come to rest |

They interact through rows.  A launch materialises `sends`; workers stamp them;
tracking stamps the same rows later; a submission assigns training; training
links lead to quizzes whose pass completes the assignment and issues a
certificate; reports count the rows; deleting an employee cascades over all of
them.  `PROJECT.json` lists every part of the repository, with the parts left
out and why.

## 2. The modules

| module | models | run |
|---|---|---|
| `DeliveryContract` | what a campaign promises about its emails: a clearance, one email for it, a record | refined by `CampaignDelivery` |
| `LinkContract` | what the product promises about links it mails: minted once, mailed to their owner, ended for good | refined by `ConsoleAccounts`, `Portal`, `Learning` |
| `CampaignDelivery`, `CampaignDeliveryProofs` | launch, pause, resume, kill, retry; the queue; the workers; crashes and lost answers | `delivery_…` |
| `Programme`, `ProgrammeProofs` | what a launch needs, schedules, the tick, the chain of occurrences | `programme` |
| `Engagement`, `EngagementProofs` | one send's marks, training assignment from them, the counts of a report | `tracking_marks`, `clients` |
| `Learning` | one employee, one training module, its quiz and certificates | `requests` |
| `Library` | training videos: objects, rows, clones, the erasure of a client | `clients` |
| `Portal` | the employees of one address: their links and their dashboard | `clients` |
| `ConsoleAccounts` | accounts of a client's console users, or of staff | `accounts` |
| `SignIn`, `SignInProofs` | the sign-in and second factor of one account | `accounts` |
| `SignUp` | whose an address is, while people sign up | `accounts` |
| `Licensing` | one client's status, approval, trial, licence, keys and seats | `clients` |
| `Onboarding` | what a client proves: domains, the people on them, its gateway | `accounts` |
| `SendingDomains` | the domains it sends from, and the campaigns given one | `accounts` |
| `Digest`, `RateLimit`, `Startup` | the weekly digest; one caller's counter; processes that start | `accounts` |
| `Endpoints`, `Access` | every route of the API with its guards; a request through them | `requests` |
| `Pages`, `Screens` | every screen of the console with the routes it calls; one browser tab | `requests` |
| `Accounts`, `AccountsProofs`, `DomainsProofs` | `SignIn`, `ConsoleAccounts`, `SignUp`, `Onboarding`, `SendingDomains`, `RateLimit`, `Digest` and `Startup` side by side | `accounts` |
| `Requests`, `RequestsProofs` | `Access`, `Screens` and `Learning` side by side | `requests` |
| `Clients`, `ClientsProofs` | `Licensing`, `Engagement`, `Library` and `Portal` side by side | `clients` |

`MCAccounts`, `MCRequests`, `MCClients`, `MCCampaignDelivery`, `MCEngagement`,
`MCProgramme` and `MCStartup` give them finite instances.

Within a run, `Access` is composed with `Endpoints`, `Screens` with `Pages` and
`Endpoints`, `CampaignDelivery` with `DeliveryContract`; and `Accounts`,
`Clients` and `Requests` compare each a component of theirs with `LinkContract`.
Otherwise modules meet in rows, each taking what another writes as an action of
its environment: a launch of `Programme` is one of `CampaignDelivery`, which
ends with `sentAt`, `Stamp` in `Engagement`; the assignment of `Submit` there is
`Routed` in `Learning`, whose passes and certificates are `Study` in `Portal`;
the domains of `Onboarding` and `SendingDomains` are facts of `Programme`'s
checklist; the level of access of `Licensing` is `SetLevel` in `Access`; the
unlocking that accounts cause is `Unlock` in `SignIn`.

### Conventions

- `pc` (or `at` for workers) is the next step of a call; further per-call
  variables are the local variables of the handler that survive an `await`.
- `Finish` is a return or a throw.  `…Dies` and `Crash` are a process that
  stops, or a query that is rejected, between two steps.
- A definition that repeats the next one with a suffix (`IssueResends` before
  `Issue`) is that definition with one mistake.  It is not part of `Next`; it
  exists to show which property would notice that mistake.
- `FooInv` at the end of a module is its inductive invariant, a conjunction of
  named parts.

### CampaignDelivery

The status check and every awaited query of a campaign call is an action:
`launchPreflight`, `launchRoster`, `launchCreate` (`createMany` with
`skipDuplicates`), `launchRead`, `launchActivate`, `launchEnqueue` (`addBulk`),
`launchRecur`; similarly for the other calls.  Updates of the campaign are by id
alone, as in the code, so a call whose check has gone stale still writes.

A worker reads its send and the campaign (`ReadSend`), mails (`Mail`, or
`MailRefused`, or `MailUncertain` when the provider accepted but the answer was
lost), stamps (`Stamp`, `StampFails`) and acknowledges.  `ReadSend` is one query of
the code that the database client answers by two selects, taken as one.  A worker
that lives keeps renewing the lock of its job: only jobs of dead workers are found
stalled.  One that loses its lock and runs beside its successor is not modelled, so
`AtMostOnce`, `SentMeansMailed` and `ImplementsContract`, and their theorems, rest on
that assumption; the code has no other defence, and such a pair could mail twice.
BullMQ, an external
library, is modelled from how `queue.module.ts` configures it: a job id that is
still kept is not added again, three attempts, one recovery from a stall,
`removeOnComplete` and `removeOnFail` trimming.  `mails`, `lost` and `late` are
history: mails accepted, mails whose stamp is lost, mails a worker delivered
after the kill.  The nine checks of `preflight` are one flag, `ready`, that may
change at any time; employees join and leave.

### Engagement

One row's marks (`openedAt`, `clickedAt`, `reportedAt`, `credentialsSubmitted`)
and the calls that write them, query by query with the guards of their
`updateMany`.  Times are a small clock.  `submissions` and `forwarded` are
history (what recipients did), `dropped` the sends whose call died.  The routing
rule may change.  `metrics` counts each figure in a query of its own.

### Learning

One employee and one module.  A quiz is submitted through the tracking link of a
send or through a mailed /learn link; both keep the same attempts, counted by
employee and quiz.  `via` is the source that a certificate is filed under, with
`None` for a link without a send, as in `issue`'s look-up.  `QuizRead` and
`Prior` are separate queries, so questions and attempts may be replaced and
added in between.  There is one quiz.  Both links accept the id of any quiz of the
client (`learn.service.ts:190`, `tracking.service.ts:356`), so passing another
module's quiz completes the link's assignment as well; the model's submissions are
those of the module's own quiz, which is the one that the link shows.

### ConsoleAccounts

The life of an account and its one-time link: `Create`/`SendConsoleInvite`,
`Issue` (the hash is stored, which kills the earlier link), `Mail`,
`FindByToken`, `Accept`; `Remove`, `AssertNotLastActiveAdmin`, `Deactivate` or
`Delete`; `Reactivate`.  Staff accounts have the same life without deletion
(`Outsiders = {}`).  A link that has expired and a password that is too short
only end the acceptance, so expiry is not a variable.  `stale` and `miscounted`
record which calls' reads have been overtaken by a write.

### SignIn

One row of either table.  `Login` and `VerifyMfa` read it, refusing a locked
account; `Wrong` writes the count that was read plus one, and `lockedUntil` as
a time or null; `RightPassword` and `RightCode` reset both.  `SetupMfa`,
`ActivateMfa`/`Activated`, `DisableMfa` and `ResetMfa` are the enrolment.
`guesses`, `proven` and `torn` are history.  Where one address has accounts in
several tenants, this is one of them.

### Programme

The client's checklist (`readiness`) is a set of facts, `done`, some of which
come and go.  `Launch`, `PassPreflight`, `PassRecipients`, `Activate`, `Clone`
are the awaits of `launch` that `CampaignDelivery` abstracts into one flag and
one counter; the tick is the same steps taken by `Worker` for each campaign that
`TickFind` saw.  `CloneOut` is the occurrence the code makes once `MaxCampaigns`
rows are there: it is counted and not followed.  `stale` has the launches from which
something was taken back after preflight.

### Licensing

One client.  `tenant` is its row; `Level` is `TrialService.access`, computed from
the row and the day.  A call remembers what it read (`limit`, `counted`) until it
writes.  `Claim` is the one transaction that is guarded on what it changes.
`overtaken`, `crossed`, `stale` say whose reads another write has overtaken.

### Onboarding and SendingDomains

A domain's row, its token and what the DNS shows are apart, since the question to
the DNS is asked between two queries.  `Home` gives each person the domain of the
address.  The gateway's probe is a mail whose link confirms it; `stale` has the
openings of a probe that another opening of the same mail overtook.  In
`SendingDomains`, `registry` is the mail provider's record; a row that is removed
and made again has a new registration, so a late answer is about the old one.

### SignUp, Digest, RateLimit, Startup

Small modules of one handler each, with its callers, its deaths and its clock.
`Digest` has overlapping runs on several workers; `RateLimit` has a counter per
store and a client per process that gives up after its attempts; `Startup` has
`prisma migrate deploy` as a child that holds the advisory lock and may survive
its timeout, and `working` for the workers that consume jobs.

### Library and Portal

`stored` is what object storage holds, `module` and `shared` are rows that point
at it.  `DeleteObjects` deletes one object after the other and reports what it
could not delete.  `loose` has the videos of modules that were removed, which stay,
and `late` those whose row was made after an erasure had collected what to delete and
went with the others.  In `Portal`, `RequestLink` serves the rows of an address one
by one (`IssueToken`, `Mail`), and a page is read in two steps (`ReadRows`,
`ReadAttempts`), between which `Study` goes on.

### Endpoints and Access

`Endpoints` is a table: for each route of each controller what it does, the roles
it lists, what the first of `:tenantId` and `:id` in its path names and whether a
pipe parses it, and its guards.  `Access` takes a request through `Session`
(`jwt.strategy.ts`), `Enrolment`, `Approved`, `Consent`, `WritableGuard`, the
interceptor, the pipes (`RefuseMalformed`) and the handler.  Routes that agree in
all of that are one kind.

The path may name a client, a UUID that is no client's (`Entity`) or something that
is no UUID (`Malformed`).  The interceptor takes the last for no name: a client's
account stays in its own scope, staff get every client's (`Scope`).  Where the
handler parses the parameter (`path = "tenant"`) such a request ends there; where it
does not (`"word"`) it runs.  `Handle` is a query that the database client narrows
(`ScopedWhere`, `ScopedCreate`, and for updates `Reassigns`, which throws);
`HandleOutside` is one on a table without a scope, or in `runAsSystem`, which goes
by the path or the scope itself; `Redeem` looks a licence key up among those of all
clients and refuses one that is another's.

### Pages and Screens

`Pages` is a table as well: who may open a screen and the routes that it and its
components call, by role.  `Screens` is one tab of a browser: the guard in its
effects (`GuardSignsOut`, `GuardSendsHome`, `GuardLetsIn`), the stored session
that other tabs write, timers, redirects, links of the navigation, and the answer
of the API to each call, computed from `Endpoints`.

## 3. What the runs check

| run | instance | question and result |
|---|---|---|
| `delivery_safety` | 1 send, 2 calls, 2 workers, 2 faults, all operations and faults | nobody is mailed twice without a lost stamp (`AtMostOnce`), stamped rows are what was mailed (`SentMeansMailed`), a settled kill is final (`KillSticks`), each worker mails at most once after a kill (`LateMailBound`), and the pipeline implements `DeliveryContract` (`ImplementsContract`) |
| `delivery_retry` | 1 send, 2 calls, 1 worker, everything, 1 fault of any kind | a waiting job of an active campaign gets its email out, unless the campaign is halted, the job cleared or the employee deleted (`JobsDeliver`); a killed campaign's queue drains (`KillQuiesces`); in a campaign that stays active, retrying again and again gets every unsent row out, whatever pauses and dead calls left behind (`RetryHeals`) |
| `programme` | 2 campaigns, with or without a sending domain, 2 launches each, 1 administrator, the worker, 1 death, an allowlist that comes and goes | a launch sends only when the whole checklist is done (`LaunchesReady`); no occurrence is lost or made twice (`ProgrammeInv`); what is due and ready is launched, though the tick is refused another campaign again and again (`DueLaunches`) |
| `tracking_marks` | 1 send, 2 calls, 1 death | the row's funnel nests, first times win, report credit settles, no figure overstates |
| `accounts` | 2 calls, one of eight components | sign-in (`SignInInv`, `GuessesBounded`), console accounts (`LinksHold`, `TeamSteps`, which has `LinkContract` too), sign-up, people and domains (`MailsStayInside`, `ProbeConfirmsOnce`), sending domains (`SendersHold`, `SendersStay`), the limiter, the digest, the start of processes |
| `requests` | one of three components | what gets past the guards (`HandledIsAllowed`); whose rows a handler sees and writes, in its scope and outside (`ScopesHold`); screens against routes (`ScreensAgree`) and redirects (`ScreensSettle`); quizzes, certificates and the links to courses (`LessonsHold`, with `LinkContract`; `PassIsFinal`) |
| `clients` | 2 calls, one of four components | licences and seats (`LicencesHold`, `LicenceSteps`), courses (`CoursesFollow`, `CoursesOnce`), videos, the employee's dashboard and its links (`PortalHolds`, with `LinkContract`) |
| `occurrences_launch` (violation) | 1 recurring campaign | "Recurrence: chain the next occurrence as a fresh scheduled draft. The scheduler tick launches it when due" (`campaigns.service.ts:392`) |
| `viewer_enrolment` (violation) | 1 account | "straight to the enrolment screen — in its OWN portal" (`portal-login.tsx:55`) |
| `worker_unmigrated` (violation) | 1 API, 1 worker, 2 migrations | "it migrates and checks exactly as the API does" (`worker.ts`) |
| `shared_video_erased` (violation) | 1 client, 1 shared module | removing a client removes "everything belonging to them" (`tenants.service.ts`), and what belongs to the platform stays |
| `late_video_kept` (violation) | 1 client, 2 calls | "The database rows go, and the videos, logos and signed agreements they pointed at have to go with them" (`storage.service.ts:267`) |

**Several components in a run.**  `Accounts`, `Requests` and `Clients` hold
several components that share no variable.  Their initial states choose one,
`focus`; the variables of the others stay 0, or, for the component that the
module extends, at an initial state.  So such a specification is the disjoint
union of its components, and a property `focus = "videos" => Videos!LibraryInv`
says of it exactly what `LibraryInv` says of the component.  Nothing is lost
against a run each; constants that play the same part are shared, each component
states what it asks of them (`LibraryAssumption`), and the module that holds it
assumes that (`ClientsAssumption`).  The `MC` modules add finite values and
symmetry only, so what the runs check of `AccountsSpec`, `RequestsSpec` and
`ClientsSpec` is, word for word, what the theorems of `AccountsProofs`,
`DomainsProofs`, `RequestsProofs` and `ClientsProofs` prove for all values.  The
component that such a module extends (`SignIn`, `Access`, `Licensing`) is proved by
itself, and then that the composition implements it (`AccountsSignIn`,
`RequestsAccess`, `ClientsLicensing`).

The properties are stated for what *overlapping calls explain*.  The code does
not promise, and does not deliver, sequential results under overlap: the attempt
cap can be exceeded, a link can set two passwords, a lock can be undone.  Each
property says how far that can go (`AttemptsCapped`, `UsesBounded`,
`DuplicatesBounded`, `GuessesBounded`: a bound in the number of concurrent
calls) or which call must be in progress for it, or must have been overtaken
(`KillSticks`, `CreditSettles`, `PassIsFinal`, `LastAdminKept`,
`WithdrawnHoldsNoLink`, `SeatsKept`, `DomainsInUseStay`, `LaunchesReady`).  A run with a single
call would not tell these from the sequential statement.

`GuessesBounded` deserves a word.  `recordTenantUserFailure` writes the count it
was given, plus one, and clears `lockedUntil` when that is below five
(`accounts` takes three: the code only ever compares a count with it, and the
states multiply with it).  A slow
call therefore sets the count back to what it read, and even unlocks the account.
Each such step costs it one higher read, and the failures that fit between two
resets are the lattice paths of *n* calls through *m* failures, less one:
with the limit of five, 5 for calls that never overlap and 20 for two; with the
limit of three, 9 for two calls and 19 for three.  The bound is attained in each
case that was run, and it is proved for every number of calls and every limit
(section 4, **Sign-in**).

**The contract of links.**  Console invitations, dashboard links and course links are
three implementations, in three services, of one idea.  `LinkContract` states it: an
owner has one link or none, a new link is one nobody ever had and ends the last one,
and what is mailed to an owner is at that moment nobody else's.  The last matters,
because each service reads or mints a token in one query and mails it in a later one,
while other calls mint and withdraw.  The runs check that each component's every step
is one of the contract's, and that no link opens what is another's (`OpensOwnOnly`).

Every property of a passing run has a mutant: one mapped definition with one
mistake under which TLC finds the property violated.

### Bounds

`MaxFaults`, `MaxDeaths`, `MaxAttempts`, `MaxOccurrences`, `MaxCampaigns`,
`MaxLaunches`, `MaxTime`, `MaxRows`, `MaxTokens`, `MaxLinks`, `MaxSecrets`,
`MaxCount`, `MaxHits` and `MaxHops` bound counters, in guards.  Two concurrent
calls are enough for every race here, because each is a check of one call
overtaken by one write of another; the proofs remove the bound where there are
proofs.  Two sends matter for
one-per-send (`clients`); elsewhere sends do not interact.  Two links give a
superseded and a current one; three tokens one more than rows.  In `clients`, one
key, one limit and one day are enough for each order of grant, count, lapse and
write; two addresses fill one seat twice.  In `accounts`, one domain is made
twice (`MaxRows = 2`), two test mails overtake each other, a window of two and a
clock of three have two windows that overlap, and two of three images ship the
newest migration.  `requests` has two clients, so that one is the other's
stranger, and two accounts in one browser; of the levels of access it leaves out
`readonly` and `offboarded`, which no route's guards tell from `suspended`.  Calls,
names and modules are symmetric in the safety runs; liveness runs use no symmetry.

Deadlock is checked in the delivery and tracking runs.  In the others a system
may stop: accounts and clients that are deleted have nobody left to act, time and
minted rows are bounded, and a process may have refused to start.  In `programme`
one draft recurs and has its sending domain, the other has none and is refused at
every tick: the two may be due together, in either order.

### Fairness

Two specifications check liveness.  `FairSpec` of `CampaignDelivery` assumes weak
fairness of each call that has started and of each worker's next step (Node
resolves what it awaits), of the stalled check (BullMQ's timer), and strong
fairness of fetching a job (it becomes disabled whenever workers are busy, and
BullMQ serves waiting jobs in order).  No operation has to be called, and no
fault or trim has to happen, though both may: `JobsDeliver`, `KillQuiesces` and
`RetryHeals` are checked with calls, workers, the provider and the database failing.
`JobsDeliver` starts when the job waits.  That a launch which dies before `addBulk`
leaves rows without one is not in it; that is what `RetryHeals` is about, which has
the retrying administrator and the active campaign as explicit antecedents.
`FairSpec` of `Programme` assumes that
the worker goes on with its tick, which BullMQ repeats and which begins again
after a restart (`WF_vars(Scheduler)`), and that days pass.  Administrators may
do nothing for ever, and `DueLaunches` excuses a draft that was rescheduled or
whose client stopped being ready.

## 4. What is proved

Every property of the passing runs but the four liveness properties is a theorem, for
all values of the constants.  The argument has one shape
throughout.  The property is seldom inductive, because a call decides on what it
read earlier.  Its invariant `FooIInv` adds, as named parts, *what a call in
progress knows for as long as nothing overtook it*, and that what is handed from
row to mail to call (a link, a token, an object) has one owner.  One lemma takes
each part through each action; `FooInductive` combines them; `FooKept` derives
what the run checks.

**Delivery** (`CampaignDeliveryProofs`).  `DeliveryInv` is inductive:

- `LockInv`: a busy worker holds an active job and no two hold the same one;
- `RowInv`: jobs, and whatever a call is about to enqueue, were materialised;
- `LedgerInv`: per send, accepted mails exceed lost stamps by one exactly while
  a worker stands between mailer and stamp, and for ever after the stamp;
- `LateInv`: a worker that mailed after the kill has not been cleared again.

`AtMostOnce` alone is not inductive: that a second run does not mail depends on
the job lock (`LockInv`) and on what the first one is about to write
(`LedgerInv`).  From it follow `AtMostOnce`, `SentMeansMailed`, `JobsHaveRows`,
`LateMailBound`, `NeverMailedAfterStamp`, `KillSticks`, and that every step
implements a step of `DeliveryContract` or a stutter (`ContractStep`), hence
`DeliveryImplementsContract`.

**Engagement** (`EngagementProofs`).  `EngagementInv` adds to types what each
step of a call holds (`CallInv`); `FunnelNested` and `OnePerSend` are inductive
with it, and `CreditSettles` and `FirstWins` follow step by step.
`NeverOverstated` is inductive with them: what a figure counted when it was read
is still there, as long as nothing is deleted (the deletion of an employee, which
takes the sends along, is in `CampaignDelivery` and not here).  `CoursesIInv` says
that a submission has its course, or a call on its way to assign it, and counts
the calls that are about to assign by hand; `SubmitAssigns` and
`DuplicatesBounded` follow.  `ClientsProofs` instantiates this module (`Courses`)
for the training of `Clients`: `CoursesFollowKept`, `CoursesOnceKept`.

**Sign-in** (`SignInProofs`).  `SignInInv` adds to types that only an unlocked
row is read for an attempt, so its count has room for one more failure, and that
an activation holds a secret.  `TypeOK` and `EnabledIsProven` follow.

`GuessesBounded` takes most of the module.  A call has *room* for the failures that
can still follow from the count it read (`Room`); recording one leaves the row with
less room than the call had, and calls that read the row later have no more than
that.  The *profile* of a state counts, for each amount of room, the calls that have
less (`ProfileOf`).  A recorded failure moves one call down in it and may bring others
up, but only to levels below that call's: profiles descend lexicographically, and
`Ways` counts how often they can.  So the invariant `GuessesInv` carries an *allowance*
for each level of room, such that the guesses made and the allowance left never exceed
the bound (`Within`); the core is `AllowanceShrinks`, what a descent costs, and
`FullCovers`, what the first profile needs.  `Ways` being recursive, what is needed of
it (`WaysRecursion`, `WaysRule`, `WaysPositive`, `WaysMonotone`) is proved by least
counterexample: `LeastElement` takes a smallest member of a set of numbers from the
library's theorem on well-founded relations, which needs no induction rule.
`OneCallIsLimited` and `TwoCallsAreLimited` give the bound in closed form (`WaysOfFew`):
the limit itself for calls that never overlap, and (m + 1)(m + 2)/2 - 1 failures
under a limit of m for two calls at a time.

**Console accounts** (`AccountsProofs`).  `LinksIInv`: a link has
one owner, on whom the row, the mail and the calls that hold it agree; none is
stored, mailed or held before it is minted; `UsesBounded` counts acceptances made
and in progress; and a removal whose count nothing overtook leaves another
administrator (`CountHolds`).  `LinksHold` and `TeamSteps` follow.

**Links** (`AccountsProofs`, `ClientsProofs`, `RequestsProofs`).  Each step of the three
components is a step of `LinkContract` or a stutter (`InvitationsNext`, `TokensNext`,
`LessonLinksNext`), so `ConsoleImplementsLinks`, `DashboardImplementsLinks` and
`LessonsImplementLinks`.  The invariants of the first two say already whose token a
call is about to mail; for lessons `InHand` adds it: a call may mail the token that it
*found* on a row, so that no other row has that one must hold when the row is read.
`OpensOwnOnly` is then proved of the contract alone (`ContractKeeps`) for dashboards
and courses, and from `LinksIInv` for accounts.

**Sign-up, limiter, digest, start** (`AccountsProofs`).
- `SignUpIInv`: a sign-up that nobody has beaten still finds its address free
  wherever it has looked, and one about to add its administrator made the
  workspace, with its address.
- `LimiterIInv`: what was let through is told apart by its counter, the window of
  that counter and its number in it, and two windows of a counter do not overlap.
  `TwoWindows` then counts: an injection into stores × two windows × numbers up to
  the limit.
- `DigestIInv`: a client is on the list of one run at most, which began an interval
  after each run that served it, the torn ones excepted (`DueInTime`).
- `StartupIInv`: that a process serves says nothing of what it found; migrations
  are only added, and a failed one is one that is begun.

**Domains** (`DomainsProofs`).  `OnboardingIInv`: a token is shown before a row
or a call has it for proven (`TokensShown`); uploads and probes under way go by
domains that were proven (`CallsInside`); and a probe is sent by one call, and
once confirmed is neither outstanding nor about to confirm again, but by openings
that another opening of it overtook (`ProbesHold`).  `SendingIInv`: whose registration an answer is
about, which row a call read, and which campaign it is about to change; every
write of a row or of a campaign keeps what the *others* know (`RowWrittenHolds`,
`CampaignWrittenHolds`).

**Licences** (`ClientsProofs`).  `LicensingIInv`: `Held` and `KeyInv` tie a key's
claims to the guard of the claim, so no two activate; `SeatInv` says that what a
call counted is still no less than the roster, and the limit it read still the
client's; `StatusKnown` and `Uncleared` do it for deletions and approval.

**Videos and dashboard** (`ClientsProofs`).  `LibraryIInv`: what a call holds was
uploaded for the client it works for or for the platform (`LibraryHeld`), a module
plays what its client or the platform uploaded (`RowsKnown`), and what is stored
for a client can be traced to a module, to a call that has it in hand, to a
report, to a module removed before, or to one made behind a collection
(`StoredTraced`); what is claimed of an erased client (`ErasedLeavesNothing`) is no
more than that, and `late_video_kept` shows the last to be a leak.  `PortalIInv`:
a token has one owner, on whom the row and the call about to mail it agree
(`TokensOwned`), tokens are left for the rows a request still has to serve, and
what a page has read of a row that is still there is still so (`PageRead`).

**Campaigns that start** (`ProgrammeProofs`).  `ChecksInv`: a launch that is not
overtaken still knows what it has checked, and a campaign with a sending domain
has a verified one; an occurrence has none, so it never passes preflight, and only
the first of a chain is launched.  That last fact is what makes `ChainContinues`
inductive: launching adds a call with an occurrence to make, and making it takes
the call away and adds the occurrence.  `ProgrammeInv` and `LaunchesReady` follow,
and so, sadly, does the reason why `occurrences_launch` fails.

**Requests** (`RequestsProofs`).  `RoutesDeclare` goes through `Endpoints` group by
group: what viewers reach only reads or writes their own account, what governs is
staff's, what sends carries both guards and names a client.  `AccessIInv` adds
that a request past a guard still has what the guard asked for, unless its account
or client changed since, and that the rest of what the guards use (role, client,
path) never changes.  Of the handler it says whose rows it touched: those of its
scope, and of a client that the path or the scope names, so for a client's account
its own (`OwnRowsOnly`), and for staff the named client's unless no pipe parses the
name (`StaffAreScoped`).

**Screens** (`RequestsProofs`).  Two lemmas go through the tables, `RoutesFit`
through the routes by what they ask for and `ConsoleAgrees` through the screens:
no screen calls a route that refuses its people.  `ScreensIInv` adds that a mounted
screen is of somebody it allows (`MountedAllowed`), that the guard lets in a tab
that was redirected or led by a link (`SettlesNext`), and that one sent to enrol is
on its way there (`SentThere`).

**Lessons** (`RequestsProofs`).  `LessonsIInv` says where each call is and what its
links and passes are about (`LessonsLocated`).  `AttemptsCapped` counts attempts
plus submissions past the check.  That links go dead only by overlapping calls
needs `TokensExplained`: every token of a row but its first stands for a call that
found the row without one.  `PassIsFinal` follows step by step.

**Assumptions.**  Bounds are numbers, sets that are counted are finite, and what
stands for nothing is not something: `None` is no send, account, domain, object
or instant, `Platform` and `"removed"` no client.  At least one call exists where
the bound is the number of calls.  No client is called `system` or `entity`,
ids being UUIDs.  The worker is not one of the administrators' requests.  TLC
evaluates them in every run.

**Model-checked only.**  Liveness (`KillQuiesces`, `JobsDeliver`, `RetryHeals`,
`DueLaunches`), which the prover does not do under fairness.

## 5. Where the code and its documents disagree

The five violation runs:

- *The next occurrence of a recurring campaign can never be launched*
  (`occurrences_launch`).  `scheduleNextOccurrence` (`campaigns.service.ts:412`)
  copies neither the sending domain, which preflight requires and nothing but
  `create` writes, nor the chosen recipients.
- *A viewer who must enrol cannot* (`viewer_enrolment`).  The sign-in sends every
  client user to `/client/security`, whose guard admits administrators only.
- *A worker takes jobs before its schema is there* (`worker_unmigrated`).  The
  consumers start inside `createApplicationContext`, before the migrations.
- *Erasing a client deletes shared videos* (`shared_video_erased`).  A clone of a
  shared upload carries the shared object's address, and the erasure deletes the
  object of every clone.
- *Erasing a client can leave a video that nothing points at* (`late_video_kept`).
  The objects are collected at `tenants.service.ts:927`, the rows go at line 941; a
  module made in between loses its row and keeps its object.

The following are seen in the models, but no run states them.

Delivery and campaigns:
- kill is "Irreversible by design" (`campaigns.service.ts:456`), but a launch
  that had checked the status writes `active` over it (line 372); `KillSticks`
  says what remains;
- "resumed launches enqueue exactly the un-sent rows" (line 366): a job id that
  BullMQ still keeps is not added again (line 380), until `retryUnsent` removes it;
- a recurring campaign that is launched, paused and launched again makes its next
  occurrence twice; `ChainContinues` counts one for each launch;
- the comment at `tenants.service.ts:741`, that a draft was never launched, does
  not hold for a draft that was killed;
- a digest "cannot double-send" (`digest.processor.ts:24`): the mail (line 64)
  comes before the stamp (line 78), and a run that dies in between mails again.

Tracking and training:
- "Reporting after clicking is deliberately not a catch"
  (`docs/reporting-manual-attribution-spec.md:31`), but the update of
  `tracking.service.ts:157` credits a report whose click came after its read;
- a second submission after the routing rule changed assigns a second course;
- an assignment made after the employee passed the quiz cannot be completed by
  the quiz; `markComplete` (`learn.service.ts:251`) says "quiz-less module" and
  does not check it;
- a submission between the deletion and the creation of a quiz's questions uses
  an attempt without a score;
- a certificate is issued twice by overlapping passes, against "Idempotent per
  employee+module+send" (`certificates.service.ts:36`); `CertificatesEarned`
  bounds it;
- `requestLink` "always resolves the same way" (`portal.service.ts:34`), but an
  employee row deleted meanwhile makes it throw; a refused mail still ends the
  previous link.

Accounts:
- "both are refused: … removing the last remaining administrator"
  (`tenants.service.ts:405`): two removals at once both count two (line 448);
  `LastAdminKept` says what remains;
- a link "for one use only" (`console-invite.service.ts:110`) sets one password
  per acceptance that found it; `UsesBounded` bounds it;
- "lockout after five failures" (`docs/security/staff-access-control.md:20`)
  holds for attempts that do not overlap; `GuessesBounded` says what holds;
- addresses are unique "across staff and all client accounts"
  (`signup.service.ts:49`) for sign-ups only: neither `createTenantUser` nor the
  creation of staff looks, and a console user with a staff address cannot sign in.

Operations:
- the schema check promises to wait for a migration in progress
  (`schema-guard.ts:18`), but counts it as failed (line 70) and refuses at once;
- the rate limiter logs "failing open until it recovers"
  (`rate-limit.store.ts:73`), but its client gives up after five tries (line 65);
- removing a module, a logo or an agreement leaves its object in storage, which
  outlives the client's erasure;
- a path that names a client by something that is no UUID puts staff in the scope of
  all clients (`tenant-scope.interceptor.ts:26`), where the handler does not parse
  it (`campaigns`, `employees`, `training` and others), though the comment at line 31
  keeps that for "the genuinely cross-tenant console routes"; `StaffAreScoped` names
  it.  Nothing is sent so, since sending asks for a client;
- `GET shared-quizzes/:id` lists client roles, but the interceptor takes the
  `:id` for a client's and refuses them (`StrangersOnly` names it);
- `report.tsx:273` and `risk/page.tsx:70` offer viewers what the API refuses
  them; the console's `endSession` is never called.

## 6. Not modelled

PDF layout, HTML sanitising, encryption, page rendering, the libraries of
scenarios, templates and landing pages, groups, report channel settings, the
audit log, the marketing site, the mail wire format and the AI clients have no
state machine of their own: single-row writes, pure functions, or pages.  Their
routes and guards are in `Endpoints` all the same.  Addresses, wording and
content of mails are left out everywhere.

Of `auth.service.ts`, the choice between accounts that share an address and
changes of password are left out; of quizzes, removal and the parsing of uploaded
questions; of intake, everything before a mail is matched to a send; of tenants,
the settings that are one write; of reports, scores and trends, which are
arithmetic on what one query returned; of sign-up, the removal of console users;
of the start of processes, `SKIP_SCHEMA_CHECK`, a missing directory of migrations
and a database without history; of the console, forms and what tables show.

## 7. What is left

1. Proofs that the environment actions by which modules meet (`Stamp` of
   `Engagement`, `SetLevel` of `Access`, `Study` of `Portal`) are what the other
   module's steps amount to.
2. An abstract lockout would have to allow what the code does: an administrator who
   unlocks an account while one call is between read and write sees the count come
   back, even if no two sign-ins ever overlap.  `SignIn` therefore refines no
   textbook lockout, and `GuessesBounded` is what can be said instead.
3. The scores of `risk.service.ts` as functions against a reference definition.
4. Passwords: change, reset and the choice among accounts of one address.
