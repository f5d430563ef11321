-------------------------------- MODULE Accounts --------------------------------
(* Components side by side: sign-in, console accounts, sign-up, the domains  *)
(* and people of a client, its sending domains, the rate limiter, the weekly *)
(* digest and the start of processes.  They share no state, so a behaviour   *)
(* is of one of them: focus says of which, and the others' variables idle.   *)
EXTENDS SignIn

CONSTANTS
  Users, Admins, Outsiders, MaxLinks,  \* ConsoleAccounts
  MaxAccounts,        \* bound: console accounts that ever exist
  Emails, Workspaces, \* SignUp
  Persons, Home, Probes,     \* Onboarding
  Domains, MaxRows,          \* Onboarding, SendingDomains
  Shared, Campaigns,         \* SendingDomains
  Runners, Limit, Window, Attempts, MaxHits, \* RateLimit; the digest's runners
  Tenants, Interval, MaxFaults, \* Digest
  MaxTime,                      \* RateLimit, Digest
  Apis, Workers, Shipped, Retries, \* Startup
  None                \* nobody, nothing

VARIABLES
  focus, \* the component that this behaviour is of
  console_account, console_link, console_minted, console_mailed, console_uses,
  console_pc, console_subject, console_held, console_stale, console_miscounted,
  console_late,
  signup_staff, signup_users, signup_tenants, signup_pc, signup_mail,
  signup_workspace, signup_abandoned, signup_beaten,
  people_row, people_dns, people_roster, people_gateway, people_inbox, people_pc,
  people_asked, people_made, people_published, people_confirms, people_stale,
  domains_sender, domains_registry, domains_campaign, domains_pc, domains_asked,
  domains_answer, domains_made, domains_stale, domains_torn, domains_shaken,
  domains_rushed,
  limiter_now, limiter_shared, limiter_counter, limiter_up, limiter_failed,
  limiter_passed, limiter_forgot,
  digest_now, digest_enabled, digest_stamp, digest_queued, digest_started,
  digest_due, digest_mailing, digest_faults, digest_served, digest_torn,
  startup_applied, startup_begun, startup_lock, startup_engine, startup_pc,
  startup_onBoot, startup_tries, startup_working, startup_broken, startup_refused

Console == INSTANCE ConsoleAccounts WITH
  account <- console_account, link <- console_link, minted <- console_minted,
  mailed <- console_mailed, uses <- console_uses, pc <- console_pc,
  subject <- console_subject, held <- console_held, stale <- console_stale,
  miscounted <- console_miscounted, late <- console_late
Links == INSTANCE LinkContract WITH
  Owners <- Users, current <- console_link, minted <- console_minted,
  mailed <- console_mailed
Joining == INSTANCE SignUp WITH
  staff <- signup_staff, users <- signup_users, tenants <- signup_tenants,
  pc <- signup_pc, mail <- signup_mail, workspace <- signup_workspace,
  abandoned <- signup_abandoned, beaten <- signup_beaten
People == INSTANCE Onboarding WITH
  People <- Persons, row <- people_row, dns <- people_dns, roster <- people_roster,
  gateway <- people_gateway, inbox <- people_inbox, pc <- people_pc,
  asked <- people_asked, made <- people_made, published <- people_published,
  confirms <- people_confirms, stale <- people_stale
Sending == INSTANCE SendingDomains WITH
  sender <- domains_sender, registry <- domains_registry,
  campaign <- domains_campaign, pc <- domains_pc, asked <- domains_asked,
  answer <- domains_answer, made <- domains_made, stale <- domains_stale,
  torn <- domains_torn, shaken <- domains_shaken, rushed <- domains_rushed
Limiter == INSTANCE RateLimit WITH
  Processes <- Runners, now <- limiter_now, shared <- limiter_shared,
  counter <- limiter_counter, up <- limiter_up, failed <- limiter_failed,
  passed <- limiter_passed, forgot <- limiter_forgot
Weekly == INSTANCE Digest WITH
  Workers <- Runners, now <- digest_now, enabled <- digest_enabled,
  stamp <- digest_stamp, queued <- digest_queued, started <- digest_started,
  due <- digest_due, mailing <- digest_mailing, faults <- digest_faults,
  served <- digest_served, torn <- digest_torn
Starting == INSTANCE Startup WITH
  applied <- startup_applied, begun <- startup_begun, lock <- startup_lock,
  engine <- startup_engine, pc <- startup_pc, onBoot <- startup_onBoot,
  tries <- startup_tries, working <- startup_working, broken <- startup_broken,
  refused <- startup_refused

\* Each component asks of the constants what it asks by itself.
ASSUME AccountsAssumption ==
  /\ Console!ConsoleAccountsAssumption
  /\ Joining!SignUpAssumption
  /\ People!OnboardingAssumption
  /\ Sending!SendingDomainsAssumption
  /\ Limiter!RateLimitAssumption
  /\ Weekly!DigestAssumption
  /\ Starting!StartupAssumption

consoleVars == <<console_account, console_link, console_minted, console_mailed,
                 console_uses, console_pc, console_subject, console_held,
                 console_stale, console_miscounted, console_late>>
signupVars == <<signup_staff, signup_users, signup_tenants, signup_pc, signup_mail,
                signup_workspace, signup_abandoned, signup_beaten>>
peopleVars == <<people_row, people_dns, people_roster, people_gateway, people_inbox,
                people_pc, people_asked, people_made, people_published,
                people_confirms, people_stale>>
domainsVars == <<domains_sender, domains_registry, domains_campaign, domains_pc,
                 domains_asked, domains_answer, domains_made, domains_stale,
                 domains_torn, domains_shaken, domains_rushed>>
limiterVars == <<limiter_now, limiter_shared, limiter_counter, limiter_up,
                 limiter_failed, limiter_passed, limiter_forgot>>
digestVars == <<digest_now, digest_enabled, digest_stamp, digest_queued,
                digest_started, digest_due, digest_mailing, digest_faults,
                digest_served, digest_torn>>
startupVars == <<startup_applied, startup_begun, startup_lock, startup_engine,
                 startup_pc, startup_onBoot, startup_tries, startup_working,
                 startup_broken, startup_refused>>
allVars == <<focus, vars, consoleVars, signupVars, peopleVars, domainsVars, limiterVars, digestVars, startupVars>>

-----------------------------------------------------------------------------
\* The variables of a component stay as they are while another is looked at.
consoleIdle ==
  /\ console_account = 0 /\ console_link = 0 /\ console_minted = 0
  /\ console_mailed = 0 /\ console_uses = 0 /\ console_pc = 0 /\ console_subject = 0
  /\ console_held = 0 /\ console_stale = 0 /\ console_miscounted = 0
  /\ console_late = 0
signupIdle ==
  /\ signup_staff = 0 /\ signup_users = 0 /\ signup_tenants = 0 /\ signup_pc = 0
  /\ signup_mail = 0 /\ signup_workspace = 0 /\ signup_abandoned = 0
  /\ signup_beaten = 0
peopleIdle ==
  /\ people_row = 0 /\ people_dns = 0 /\ people_roster = 0 /\ people_gateway = 0
  /\ people_inbox = 0 /\ people_pc = 0 /\ people_asked = 0 /\ people_made = 0
  /\ people_published = 0 /\ people_confirms = 0 /\ people_stale = 0
domainsIdle ==
  /\ domains_sender = 0 /\ domains_registry = 0 /\ domains_campaign = 0
  /\ domains_pc = 0 /\ domains_asked = 0 /\ domains_answer = 0 /\ domains_made = 0
  /\ domains_stale = 0 /\ domains_torn = 0 /\ domains_shaken = 0
  /\ domains_rushed = 0
limiterIdle ==
  /\ limiter_now = 0 /\ limiter_shared = 0 /\ limiter_counter = 0 /\ limiter_up = 0
  /\ limiter_failed = 0 /\ limiter_passed = 0 /\ limiter_forgot = 0
digestIdle ==
  /\ digest_now = 0 /\ digest_enabled = 0 /\ digest_stamp = 0 /\ digest_queued = 0
  /\ digest_started = 0 /\ digest_due = 0 /\ digest_mailing = 0 /\ digest_faults = 0
  /\ digest_served = 0 /\ digest_torn = 0
startupIdle ==
  /\ startup_applied = 0 /\ startup_begun = 0 /\ startup_lock = 0
  /\ startup_engine = 0 /\ startup_pc = 0 /\ startup_onBoot = 0 /\ startup_tries = 0
  /\ startup_working = 0 /\ startup_broken = 0 /\ startup_refused = 0

\* As many of the console accounts as the bound allows ever exist.
FewAccounts ==
  Cardinality({u \in Users : console_account[u] # "absent"}) <= MaxAccounts

AccountsInit ==
  \/ /\ focus = "signin" /\ Init /\ consoleIdle /\ signupIdle /\ peopleIdle
     /\ domainsIdle /\ limiterIdle /\ digestIdle /\ startupIdle
  \/ /\ focus = "console" /\ Console!Init /\ Init /\ scope = "staff" /\ signupIdle
     /\ peopleIdle /\ domainsIdle /\ limiterIdle /\ digestIdle /\ startupIdle
  \/ /\ focus = "signup" /\ Joining!Init /\ Init /\ scope = "staff" /\ consoleIdle
     /\ peopleIdle /\ domainsIdle /\ limiterIdle /\ digestIdle /\ startupIdle
  \/ /\ focus = "people" /\ People!Init /\ Init /\ scope = "staff" /\ consoleIdle
     /\ signupIdle /\ domainsIdle /\ limiterIdle /\ digestIdle /\ startupIdle
  \/ /\ focus = "domains" /\ Sending!Init /\ Init /\ scope = "staff" /\ consoleIdle
     /\ signupIdle /\ peopleIdle /\ limiterIdle /\ digestIdle /\ startupIdle
  \/ /\ focus = "limiter" /\ Limiter!Init /\ Init /\ scope = "staff" /\ consoleIdle
     /\ signupIdle /\ peopleIdle /\ domainsIdle /\ digestIdle /\ startupIdle
  \/ /\ focus = "digest" /\ Weekly!Init /\ Init /\ scope = "staff" /\ consoleIdle
     /\ signupIdle /\ peopleIdle /\ domainsIdle /\ limiterIdle /\ startupIdle
  \/ /\ focus = "startup" /\ Starting!Init /\ Init /\ scope = "staff" /\ consoleIdle
     /\ signupIdle /\ peopleIdle /\ domainsIdle /\ limiterIdle /\ digestIdle

AccountsNext ==
  \/ /\ focus = "signin" /\ Next
     /\ UNCHANGED <<focus, consoleVars, signupVars, peopleVars, domainsVars,
                    limiterVars, digestVars, startupVars>>
  \/ /\ focus = "console" /\ Console!Next /\ FewAccounts'
     /\ UNCHANGED <<focus, vars, signupVars, peopleVars, domainsVars, limiterVars,
                    digestVars, startupVars>>
  \/ /\ focus = "signup" /\ Joining!Next
     /\ UNCHANGED <<focus, vars, consoleVars, peopleVars, domainsVars, limiterVars,
                    digestVars, startupVars>>
  \/ /\ focus = "people" /\ People!Next
     /\ UNCHANGED <<focus, vars, consoleVars, signupVars, domainsVars, limiterVars,
                    digestVars, startupVars>>
  \/ /\ focus = "domains" /\ Sending!Next
     /\ UNCHANGED <<focus, vars, consoleVars, signupVars, peopleVars, limiterVars,
                    digestVars, startupVars>>
  \/ /\ focus = "limiter" /\ Limiter!Next
     /\ UNCHANGED <<focus, vars, consoleVars, signupVars, peopleVars, domainsVars,
                    digestVars, startupVars>>
  \/ /\ focus = "digest" /\ Weekly!Next
     /\ UNCHANGED <<focus, vars, consoleVars, signupVars, peopleVars, domainsVars,
                    limiterVars, startupVars>>
  \/ /\ focus = "startup" /\ Starting!Next
     /\ UNCHANGED <<focus, vars, consoleVars, signupVars, peopleVars, domainsVars,
                    limiterVars, digestVars>>

AccountsSpec == AccountsInit /\ [][AccountsNext]_allVars

-----------------------------------------------------------------------------
(* Properties.  Those of the sign-in are in SignIn. *)

\* Links to console accounts: they die with the account's access, open it as often
\* as calls overlapped, and a call that nothing overtook uses the link it was mailed
\* (ConsoleAccounts: WithdrawnHoldsNoLink, UsesBounded, AcceptsCurrentLink).  A link
\* opens no account but the one it was mailed to (LinkContract: OpensOwnOnly).
LinksHold == focus = "console" => Console!LinksHold /\ Links!OpensOwnOnly

\* A team loses its last administrator only to removals that overlap, and a link
\* that is used up or withdrawn is never stored again (ConsoleAccounts:
\* LastAdminKept, LinksNeverReturn).  Invitations are links as LinkContract has them.
TeamSteps ==
  /\ [][focus = "console" => Console!TeamStep]_allVars
  /\ focus = "console" => Links!Init
  /\ [][focus = "console" => [Links!Next]_(Links!vars)]_allVars

\* A sign-up adds an administrator, with an address that nobody else has, to the
\* workspace that it made (SignUp: SignedUpHasAdmin, SignsUpNewAddress).
SignUpHolds ==
  /\ [](focus = "signup" => Joining!SignUpInv)
  /\ [][focus = "signup" => Joining!SignsUpNewAddress]_allVars

\* Domains are verified by their own token, and nobody outside them is mailed
\* (Onboarding: VerifiedShowedToken, StaysInside).
MailsStayInside == focus = "people" => People!OnboardingInv

\* A test mail confirms the gateway once (Onboarding: ProbeConfirmsOnce).
ProbeConfirmsOnce == [][focus = "people" => People!ProbeConfirmsOnce]_allVars

\* What a client sends from is registered and verified (SendingDomains:
\* ManagedSends, OwnIsRegistered, ActiveHasDomain).
SendersHold == focus = "domains" => Sending!DomainsInv

\* A sending domain in use is neither removed nor unverified (SendingDomains:
\* VerifiedSticks, DomainsInUseStay).
SendersStay == [][focus = "domains" => Sending!DomainsStep]_allVars

\* Refusals end, and the limit is the deployment's (RateLimit: RefusalEnds, LimitHolds).
LimiterHolds == focus = "limiter" => Limiter!RateLimitInv

\* Digests keep their distance, and a stamp stands for a mail (Digest: DigestsSpaced,
\* StampsAreServed).
DigestHolds == focus = "digest" => Weekly!DigestInv

\* Processes serve only on their own schema, and a failed migration stops every start
\* (Startup: ServesCurrentSchema, FailureBlocks).
StartHolds ==
  /\ [](focus = "startup" => Starting!StartupInv)
  /\ [][focus = "startup" => Starting!FailureBlocks]_allVars
=============================================================================
