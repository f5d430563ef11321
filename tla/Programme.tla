----------------------------- MODULE Programme -----------------------------
(***************************************************************************)
(* How the campaigns of a client start: what must be in place first,       *)
(* campaigns that are drafted, scheduled, launched by hand or by the       *)
(* worker's tick, paused and launched again, and the next occurrence of a  *)
(* recurring one.  How the client gets ready is in Onboarding, its sending *)
(* domains in SendingDomains, what a launch does to the queue in           *)
(* CampaignDelivery.                                                       *)
(***************************************************************************)
EXTENDS Integers, FiniteSets

CONSTANTS
  Requests,     \* requests that may be in progress at once
  Worker,       \* the process that runs the scheduler's tick
  Unsteady,     \* what of the client's set-up comes and goes; the rest stays as it starts
  Drafts,       \* how campaigns are drafted: day due, recurring, with a sending domain
  MaxCampaigns, \* bound: campaigns made
  MaxTime,      \* bound: days that pass
  MaxLaunches,  \* bound: a campaign launched as often is not paused again
  MaxDeaths,    \* bound: calls that die
  None          \* null

\* What a client has to have: its people are on its one domain.
Facts == {"agreementSigned", "domainVerified", "sendingDomainVerified", "employeesUploaded",
          "gatewayAllowlist"}

ASSUME ProgrammeAssumption ==
  /\ Unsteady \subseteq Facts
  /\ Worker \notin Requests /\ IsFiniteSet(Requests)
  /\ None \notin Nat
  /\ MaxCampaigns \in Nat /\ MaxTime \in Nat /\ MaxLaunches \in Nat /\ MaxDeaths \in Nat
  /\ Drafts \subseteq [due : 0 .. MaxTime \cup {None}, recurring : BOOLEAN, sender : BOOLEAN]

Calls == Requests \cup {Worker}
Campaigns == 1 .. MaxCampaigns

VARIABLES
  now,      \* the day
  done,     \* what the client has in place
  campaign, \* the campaign rows
  pc,       \* next step of each call
  asked,    \* the campaign it launches
  due,      \* campaigns a tick has still to launch
  deaths,   \* calls that died
  stale,    \* history: launches from which something was taken back after preflight
  cut       \* history: campaigns whose launch ended before the next occurrence

callVars == <<pc, asked, due>>
history == <<stale, cut>>
vars == <<now, done, campaign, callVars, deaths, history>>

NoCampaign == [status |-> "none", due |-> None, recurring |-> FALSE, sender |-> FALSE,
               parent |-> None, launches |-> 0]
Steps == {"idle", "tick", "preflight", "recipients", "activate", "clone"}

TypeOK ==
  /\ now \in 0 .. MaxTime
  /\ done \subseteq Facts
  /\ campaign \in [Campaigns -> [status : {"none", "draft", "active", "paused", "over"},
                                 due : 0 .. MaxTime + 1 \cup {None}, recurring : BOOLEAN,
                                 sender : BOOLEAN, parent : Campaigns \cup {None},
                                 launches : Nat]]
  /\ \A k \in Campaigns : (campaign[k].launches > 0) => campaign[k].status # "draft"
  /\ \A k \in Campaigns : campaign[k].status \in {"active", "paused"} => campaign[k].launches > 0
  /\ pc \in [Calls -> Steps]
  /\ asked \in [Calls -> Campaigns \cup {None}]
  /\ due \subseteq Campaigns
  /\ deaths \in 0 .. MaxDeaths
  /\ stale \subseteq Calls /\ cut \subseteq Campaigns

Init ==
  /\ now = 0
  /\ done \in SUBSET Facts
  /\ campaign = [k \in Campaigns |-> NoCampaign]
  /\ pc = [c \in Calls |-> "idle"] /\ asked = [c \in Calls |-> None]
  /\ due = {} /\ deaths = 0 /\ stale = {} /\ cut = {}

-----------------------------------------------------------------------------
(* Steps of a call.  A definition with the name of the next one and a suffix
   is that one with a mistake in it, to show which property notices. *)

At(c, step) == pc[c] = step
Go(c, step) == pc' = [pc EXCEPT ![c] = step]
MyCampaign(c) == asked[c]

\* A request returns; the tick goes on with its next campaign.
Finish(c) ==
  /\ Go(c, IF c = Worker THEN "tick" ELSE "idle")
  /\ asked' = [asked EXCEPT ![c] = None]

Cleared == {c \in Calls : pc[c] \in {"recipients", "activate"}}

\* The process or the database dies under the call, whatever it was doing.
CallDies(c) ==
  /\ pc[c] # "idle" /\ deaths < MaxDeaths
  /\ deaths' = deaths + 1
  /\ Go(c, "idle") /\ asked' = [asked EXCEPT ![c] = None]
  /\ due' = IF c = Worker THEN {} ELSE due
  /\ stale' = stale \ {c}
  /\ cut' = IF At(c, "clone") THEN cut \cup {MyCampaign(c)} ELSE cut
  /\ UNCHANGED <<now, done, campaign>>

Tick ==
  /\ now < MaxTime
  /\ now' = now + 1
  /\ UNCHANGED <<done, campaign, callVars, deaths, history>>

-----------------------------------------------------------------------------
(* What a launch needs *)

\* The set-up checklist (readiness): what is outstanding.
Checklist == Facts \ done

\* Preflight: the tracking domain is configured, and scenarios are attached at creation.
Preflight(k) ==
  {"agreementSigned", "employeesUploaded", "gatewayAllowlist"} \subseteq done /\ campaign[k].sender

\* Someone on the roster is on a domain that is verified now.
Mailable == {"employeesUploaded", "domainVerified"} \subseteq done

\* Something in the client's set-up is done, or is taken back; a sending domain
\* that goes is gone from the campaigns that have it.
SetFact(f) ==
  /\ done' = IF f \in done THEN done \ {f} ELSE done \cup {f}
  /\ f = "agreementSigned" => f \notin done
  /\ campaign' = IF f = "sendingDomainVerified"
                 THEN [k \in Campaigns |-> [campaign[k] EXCEPT !.sender = @ /\ f \in done']]
                 ELSE campaign
  /\ stale' = IF f \in done THEN stale \cup Cleared ELSE stale
  /\ UNCHANGED <<now, callVars, deaths, cut>>

-----------------------------------------------------------------------------
(* Campaigns *)

SetCampaign(k, row) ==
  /\ campaign' = [campaign EXCEPT ![k] = row]
  /\ UNCHANGED <<now, done, deaths>>

Draft(at, recurring, sender, parent) ==
  [status |-> "draft", due |-> at, recurring |-> recurring, sender |-> sender,
   parent |-> parent, launches |-> 0]

IsNext(k) == campaign[k].status = "none" /\ \A j \in 1 .. k - 1 : campaign[j].status # "none"

CreateCampaign(k, draft) ==
  /\ IsNext(k)
  /\ draft.sender => "sendingDomainVerified" \in done
  /\ SetCampaign(k, Draft(draft.due, draft.recurring, draft.sender, None))
  /\ UNCHANGED <<callVars, history>>

\* Only a draft can be scheduled.
Schedule(k, at) ==
  /\ campaign[k].status = "draft" /\ campaign[k].due # at
  /\ SetCampaign(k, [campaign[k] EXCEPT !.due = at])
  /\ UNCHANGED <<callVars, history>>

SetStatus(k, from, to) ==
  /\ campaign[k].status \in from
  /\ SetCampaign(k, [campaign[k] EXCEPT !.status = to])
  /\ UNCHANGED <<callVars, history>>

Pause(k) == campaign[k].launches < MaxLaunches /\ SetStatus(k, {"active"}, "paused")

Resume(k) == SetStatus(k, {"paused"}, "active")

\* Killed, or run to its end.
EndCampaign(k) == SetStatus(k, {"draft", "active", "paused"}, "over")

Launch(c, k) ==
  /\ pc[c] = "idle" /\ campaign[k].status \in {"draft", "paused"}
  /\ Go(c, "preflight") /\ asked' = [asked EXCEPT ![c] = k]
  /\ UNCHANGED <<now, done, campaign, due, deaths, history>>

Passed(c, ready) ==
  /\ At(c, "preflight") /\ ready
  /\ Go(c, "recipients")
  /\ UNCHANGED <<now, done, campaign, asked, due, deaths, history>>

\* The gateway is not asked about.
PassPreflightLax(c) ==
  Passed(c, {"agreementSigned", "employeesUploaded"} \subseteq done /\ campaign[MyCampaign(c)].sender)
PassPreflight(c) == Passed(c, Preflight(MyCampaign(c)))

PassRecipients(c) ==
  /\ At(c, "recipients") /\ Mailable
  /\ Go(c, "activate")
  /\ UNCHANGED <<now, done, campaign, asked, due, deaths, history>>

\* The sends are created and the campaign turns active.
Activate(c) ==
  LET k == MyCampaign(c) IN
  /\ At(c, "activate")
  /\ SetCampaign(k, [campaign[k] EXCEPT !.status = "active", !.launches = @ + 1])
  /\ stale' = stale \ {c}
  /\ UNCHANGED <<due, cut>>
  /\ IF campaign[k].recurring THEN Go(c, "clone") /\ UNCHANGED asked ELSE Finish(c)

\* The next occurrence belongs to the first; it has no sending domain (scheduleNextOccurrence).
Occurrence(k) ==
  Draft(now + 1, TRUE, FALSE, IF campaign[k].parent = None THEN k ELSE campaign[k].parent)

CloneRow(c, k, row) ==
  /\ At(c, "clone") /\ IsNext(k)
  /\ SetCampaign(k, row)
  /\ Finish(c)
  /\ UNCHANGED <<due, history>>

\* The next occurrence does not recur.
CloneOnce(c, k) == CloneRow(c, k, [Occurrence(MyCampaign(c)) EXCEPT !.recurring = FALSE])
Clone(c, k) == CloneRow(c, k, Occurrence(MyCampaign(c)))

\* Bound: no name is left for another campaign.
CloneOut(c) ==
  /\ At(c, "clone") /\ \A k \in Campaigns : ~IsNext(k)
  /\ Finish(c)
  /\ cut' = cut \cup {MyCampaign(c)}
  /\ UNCHANGED <<now, done, campaign, due, deaths, stale>>

\* The refusal ends the tick.
LaunchRefusedAborts(c) ==
  /\ \/ At(c, "preflight") /\ ~Preflight(MyCampaign(c))
     \/ At(c, "recipients") /\ ~Mailable
  /\ Go(c, "idle")
  /\ asked' = [asked EXCEPT ![c] = None]
  /\ due' = IF c = Worker THEN {} ELSE due
  /\ stale' = stale \ {c}
  /\ UNCHANGED <<now, done, campaign, deaths, cut>>

\* A check of the launch fails and it throws; the tick logs that and goes on.
LaunchRefused(c) ==
  /\ \/ At(c, "preflight") /\ ~Preflight(MyCampaign(c))
     \/ At(c, "recipients") /\ ~Mailable
  /\ Finish(c)
  /\ stale' = stale \ {c}
  /\ UNCHANGED <<now, done, campaign, due, deaths, cut>>

-----------------------------------------------------------------------------
(* The scheduler's tick *)

Scheduled(times) == {k \in Campaigns : campaign[k].status = "draft" /\ campaign[k].due \in times}
DueDrafts == Scheduled(0 .. now)

FindDue(found) ==
  /\ pc[Worker] = "idle" /\ found # {}
  /\ due' = found
  /\ Go(Worker, "tick")
  /\ UNCHANGED <<now, done, campaign, asked, deaths, history>>

\* A tick that finds nothing due changes nothing.
TickFind == FindDue(DueDrafts)

\* launch finds the campaign as it is now, and refuses one that cannot start.
TickLaunch(k) ==
  /\ At(Worker, "tick") /\ k \in due
  /\ due' = due \ {k}
  /\ IF campaign[k].status \in {"draft", "paused"}
     THEN Go(Worker, "preflight") /\ asked' = [asked EXCEPT ![Worker] = k]
     ELSE UNCHANGED <<pc, asked>>
  /\ UNCHANGED <<now, done, campaign, deaths, history>>

TickDone ==
  /\ At(Worker, "tick") /\ due = {}
  /\ Go(Worker, "idle")
  /\ stale' = stale \ {Worker}
  /\ UNCHANGED <<now, done, campaign, asked, due, deaths, cut>>

-----------------------------------------------------------------------------
Administrator ==
  \/ \E f \in Unsteady : SetFact(f)
  \/ \E k \in Campaigns :
       \/ \E draft \in Drafts : CreateCampaign(k, draft)
       \/ \E at \in {None, now} : Schedule(k, at)
       \/ Pause(k) \/ Resume(k) \/ EndCampaign(k)

LaunchStep(c) ==
  \/ PassPreflight(c) \/ PassRecipients(c) \/ Activate(c)
  \/ \E k \in Campaigns : Clone(c, k)
  \/ CloneOut(c) \/ LaunchRefused(c)

Scheduler == TickFind \/ (\E k \in Campaigns : TickLaunch(k)) \/ TickDone \/ LaunchStep(Worker)

Next ==
  \/ Tick \/ Administrator \/ Scheduler
  \/ \E c \in Requests : LaunchStep(c) \/ \E k \in Campaigns : Launch(c, k)
  \/ \E c \in Calls : CallDies(c)

Spec == Init /\ [][Next]_vars

\* The worker is restarted when it dies, its tick repeats, and days pass.
FairSpec == Spec /\ WF_vars(Scheduler) /\ WF_vars(Tick)

-----------------------------------------------------------------------------
(* Properties *)

\* A launch, by hand or by the tick, sends only when the client's checklist is
\* done, unless it was undone after the launch had checked it: preflight and the
\* recipients' domains together ask for no less than the checklist.
LaunchReady ==
  \A k \in Campaigns, c \in Calls :
    pc[c] = "activate" /\ asked[c] = k /\ campaign'[k].launches > campaign[k].launches
      /\ pc'[c] # "activate" /\ c \notin stale => Checklist = {}
LaunchesReady == [][LaunchReady]_vars

Occurrences(k) == {o \in Campaigns : campaign[o].parent = k /\ campaign[o].recurring}
Following(k) == {c \in Calls : pc[c] = "clone" /\ asked[c] = k}

\* A recurring campaign has an occurrence to follow for every launch, except for one
\* that is about to make it, unless one ended before it did: none is lost and none is
\* made twice when it is paused and launched again, or by hand and by the tick at once.
ChainContinues ==
  \A k \in Campaigns : campaign[k].recurring /\ campaign[k].parent = None /\ k \notin cut =>
    campaign[k].launches = Cardinality(Occurrences(k)) + Cardinality(Following(k))

\* A draft that is due and whose client stays ready is launched, though every tick
\* may meet another campaign that it is refused, the calls may die and the
\* administrator launches, pauses and reschedules meanwhile.
DueLaunches ==
  \A k \in Campaigns :
    k \in DueDrafts ~> \/ campaign[k].status # "draft" \/ k \notin DueDrafts
                      \/ ~Preflight(k) \/ ~Mailable

ProgrammeInv == TypeOK /\ ChainContinues

-----------------------------------------------------------------------------
(* A statement of the comments that the code does not meet *)

\* "Recurrence: chain the next occurrence as a fresh scheduled draft. The scheduler
\* tick launches it when due": an occurrence that is due is launched, or something
\* is outstanding on the client's checklist.
OccurrencesLaunch ==
  \A k \in Campaigns :
    k \in DueDrafts /\ campaign[k].parent # None
      ~> \/ campaign[k].status # "draft" \/ k \notin DueDrafts
         \/ Checklist # {} \/ ~Mailable
=============================================================================
