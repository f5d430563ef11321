-------------------------- MODULE SendingDomains --------------------------
(***************************************************************************)
(* The domains a client may send simulations from, and the campaigns that  *)
(* were given one of them.                                                 *)
(*                                                                         *)
(* A domain is registered with the mail provider and verified by DNS, or   *)
(* is one of the platform's shared domains and enabled without any check.  *)
(* The provider is asked in the middle of every operation, so what an      *)
(* operation read of a row may be old when it writes it; writes go by the  *)
(* row's id and fail when the row is gone.                                 *)
(***************************************************************************)
EXTENDS Integers

CONSTANTS
  Domains,   \* domains a client may add
  Shared,    \* those that the platform offers to everyone
  Campaigns, \* campaigns that can be created
  Calls,     \* calls that may be in progress at once
  MaxRows,   \* bound: rows made for one domain, one after the other
  None       \* no domain

SendingDomainsAssumption ==
  /\ Shared \subseteq Domains
  /\ MaxRows \in Nat \ {0}
  /\ None \notin Domains

VARIABLES
  sender,    \* the sending_domains row of each domain
  registry,  \* what the provider has on record for it: an id and a status
  campaign,  \* status and chosen domain of each campaign
  pc,        \* next step of each call
  asked,     \* the domain, the row and the campaign it is about
  answer,    \* what the provider answered it
  made,      \* rows and registrations made so far: the next ones' ids
  stale,     \* history: calls overtaken by a write to what they read
  torn,      \* history: domains deregistered by a call that has not deleted the row
  shaken,    \* history: domains whose row an overtaken refresh wrote
  rushed     \* history: campaigns launched, or deprived, by an overtaken call

rowVars == <<sender, registry, campaign>>
callVars == <<pc, asked, answer>>
history == <<made, stale, torn, shaken, rushed>>
vars == <<rowVars, callVars, history>>

Statuses == {"pending", "verified", "failed"}
Steps == {"idle", "register", "addCreate", "promote", "enableCreate", "ask",
          "refreshWrite", "count", "deregister", "delete", "campaignCreate", "activate"}
NoRow == [id |-> 0, managed |-> FALSE, provider |-> 0, status |-> "pending"]
Unknown == [id |-> 0, status |-> "pending"]
NoInput == [domain |-> None, id |-> 0, provider |-> 0, campaign |-> None]

TypeOK ==
  /\ sender \in [Domains -> [id : 0 .. MaxRows, managed : BOOLEAN,
                             provider : 0 .. MaxRows, status : Statuses]]
  /\ registry \in [Domains -> [id : 0 .. MaxRows, status : Statuses]]
  /\ campaign \in [Campaigns -> [status : {"none", "draft", "active", "over"},
                                 sender : Domains \cup {None}]]
  /\ pc \in [Calls -> Steps]
  /\ asked \in [Calls -> [domain : Domains \cup {None}, id : 0 .. MaxRows,
                          provider : 0 .. MaxRows, campaign : Campaigns \cup {None}]]
  /\ answer \in [Calls -> Statuses]
  /\ made \in [Domains -> [rows : 0 .. MaxRows, registrations : 0 .. MaxRows]]
  /\ stale \subseteq Calls
  /\ torn \subseteq Domains /\ shaken \subseteq Domains /\ rushed \subseteq Campaigns

Init ==
  /\ sender = [d \in Domains |-> NoRow] /\ registry = [d \in Domains |-> Unknown]
  /\ campaign = [k \in Campaigns |-> [status |-> "none", sender |-> None]]
  /\ pc = [c \in Calls |-> "idle"] /\ asked = [c \in Calls |-> NoInput]
  /\ answer = [c \in Calls |-> "pending"]
  /\ made = [d \in Domains |-> [rows |-> 0, registrations |-> 0]]
  /\ stale = {} /\ torn = {} /\ shaken = {} /\ rushed = {}

-----------------------------------------------------------------------------
(* Steps of a call.  A definition with the name of the next one and a suffix
   is that one with a mistake in it, to show which property notices. *)

There(d) == sender[d].id # 0
Known(d) == registry[d].id # 0
Sends(d) == There(d) /\ sender[d].status = "verified"

Begin(c, step, d, k) ==
  /\ pc[c] = "idle"
  /\ pc' = [pc EXCEPT ![c] = step]
  /\ asked' = [asked EXCEPT ![c] = [domain |-> d, id |-> sender[d].id,
                                  provider |-> sender[d].provider, campaign |-> k]]
  /\ UNCHANGED <<rowVars, answer, history>>

At(c, step) == pc[c] = step
Go(c, step) == pc' = [pc EXCEPT ![c] = step]
MyDomain(c) == asked[c].domain

\* The provider still knows the registration that the call read.
MyRegistration(c) ==
  asked[c].provider # 0 /\ registry[MyDomain(c)].id = asked[c].provider

Finish(c) ==
  /\ Go(c, "idle")
  /\ asked' = [asked EXCEPT ![c] = NoInput]
  /\ answer' = [answer EXCEPT ![c] = "pending"]

\* A write of c to a row or a campaign that others have read.
Overtake(c) == stale' = (stale \cup {e \in Calls : pc[e] # "idle"}) \ {c}

CallDies(c) ==
  /\ pc[c] # "idle" /\ Finish(c)
  /\ stale' = stale \ {c}
  /\ UNCHANGED <<rowVars, made, torn, shaken, rushed>>

\* A new row; the domain is unique within the client.
MakeRow(c, row) ==
  LET d == MyDomain(c) IN
  /\ ~There(d) /\ made[d].rows < MaxRows
  /\ sender' = [sender EXCEPT ![d] = [row EXCEPT !.id = made[d].rows + 1]]
  /\ made' = [made EXCEPT ![d].rows = @ + 1]
  /\ torn' = torn \ {d} /\ shaken' = shaken \ {d}
  /\ Overtake(c) /\ Finish(c)
  /\ UNCHANGED <<registry, campaign, rushed>>

\* A write to the row that the call read, by its id.
WriteRow(c, row) ==
  LET d == MyDomain(c) IN
  /\ There(d) /\ sender[d].id = asked[c].id
  /\ sender' = [sender EXCEPT ![d] = row]
  /\ Overtake(c) /\ Finish(c)
  /\ UNCHANGED <<registry, campaign, made>>

-----------------------------------------------------------------------------
(* A domain of the client's own *)

Add(c, d) == ~There(d) /\ Begin(c, "register", d, None)

\* The provider refuses a domain it has on record.
AddRegister(c) ==
  LET d == MyDomain(c) IN
  /\ At(c, "register") /\ ~Known(d) /\ made[d].registrations < MaxRows
  /\ made' = [made EXCEPT ![d].registrations = @ + 1]
  /\ registry' = [registry EXCEPT ![d] = [Unknown EXCEPT !.id = made'[d].registrations]]
  /\ asked' = [asked EXCEPT ![c].provider = registry'[d].id]
  /\ Go(c, "addCreate")
  /\ UNCHANGED <<sender, campaign, answer, stale, torn, shaken, rushed>>

AddCreate(c) ==
  /\ At(c, "addCreate")
  /\ MakeRow(c, [NoRow EXCEPT !.provider = asked[c].provider])

\* The provider looks at the DNS records when it likes.
ProviderDecides(d, s) ==
  /\ Known(d) /\ s \notin {registry[d].status, "pending"}
  /\ registry' = [registry EXCEPT ![d].status = s]
  /\ UNCHANGED <<sender, campaign, callVars, history>>

\* A row is asked about until it is verified; a managed one never is.
Refresh(c, d) ==
  /\ There(d) /\ ~sender[d].managed /\ sender[d].provider # 0
  /\ sender[d].status # "verified"
  /\ Begin(c, "ask", d, None)

RefreshAsk(c) ==
  /\ At(c, "ask") /\ MyRegistration(c)
  /\ answer' = [answer EXCEPT ![c] = registry[MyDomain(c)].status]
  /\ Go(c, "refreshWrite")
  /\ UNCHANGED <<rowVars, asked, history>>

WriteStatus(c) ==
  /\ shaken' = IF c \in stale THEN shaken \cup {MyDomain(c)} ELSE shaken
  /\ UNCHANGED <<torn, rushed>>
  /\ WriteRow(c, [sender[MyDomain(c)] EXCEPT !.status = answer[c]])

RefreshWrite(c) == At(c, "refreshWrite") /\ WriteStatus(c)

-----------------------------------------------------------------------------
(* A shared domain *)

EnableShared(c, d) ==
  /\ d \in Shared /\ ~sender[d].managed
  /\ Begin(c, IF There(d) THEN "promote" ELSE "enableCreate", d, None)

\* The status stays what the client's own registration had reached.
PromoteAsIs(c) ==
  /\ At(c, "promote")
  /\ shaken' = shaken \ {MyDomain(c)}
  /\ torn' = torn \ {MyDomain(c)} /\ UNCHANGED rushed
  /\ WriteRow(c, [sender[MyDomain(c)] EXCEPT !.managed = TRUE, !.provider = 0])

Promote(c) ==
  /\ At(c, "promote")
  /\ shaken' = shaken \ {MyDomain(c)}
  /\ torn' = torn \ {MyDomain(c)} /\ UNCHANGED rushed
  /\ WriteRow(c, [sender[MyDomain(c)] EXCEPT !.managed = TRUE, !.provider = 0,
                                             !.status = "verified"])

EnableCreate(c) ==
  /\ At(c, "enableCreate")
  /\ MakeRow(c, [NoRow EXCEPT !.managed = TRUE, !.status = "verified"])

-----------------------------------------------------------------------------
(* Removal: count the campaigns, tell the provider, delete the row. *)

Remove(c, d) == There(d) /\ Begin(c, "count", d, None)

Counted(c, holding) ==
  /\ At(c, "count")
  /\ \A k \in Campaigns : campaign[k].sender = MyDomain(c) => campaign[k].status \notin holding
  /\ Go(c, IF asked[c].provider # 0 THEN "deregister" ELSE "delete")
  /\ UNCHANGED <<rowVars, asked, answer, history>>

\* A draft does not keep its domain.
RemoveCountSent(c) == Counted(c, {"active"})
RemoveCount(c) == Counted(c, {"draft", "active"})

\* Best effort: the row is deleted even if the provider cannot be reached.
Deregister(c, reached) ==
  /\ At(c, "deregister")
  /\ reached => MyRegistration(c)
  /\ registry' = IF reached THEN [registry EXCEPT ![MyDomain(c)] = Unknown] ELSE registry
  /\ torn' = IF reached THEN torn \cup {MyDomain(c)} ELSE torn
  /\ Go(c, "delete")
  /\ UNCHANGED <<sender, campaign, asked, answer, made, stale, shaken, rushed>>

\* Campaigns that point to the row lose it (ON DELETE SET NULL).
Delete(c) ==
  LET d == MyDomain(c) IN
  /\ At(c, "delete") /\ There(d) /\ sender[d].id = asked[c].id
  /\ sender' = [sender EXCEPT ![d] = NoRow]
  /\ campaign' = [k \in Campaigns |->
       IF campaign[k].sender = d THEN [campaign[k] EXCEPT !.sender = None] ELSE campaign[k]]
  /\ torn' = torn \ {d} /\ shaken' = shaken \ {d}
  /\ rushed' = rushed \cup {k \in Campaigns : c \in stale /\ campaign[k].sender = d}
  /\ Overtake(c) /\ Finish(c)
  /\ UNCHANGED <<registry, made>>

-----------------------------------------------------------------------------
(* Campaigns *)

CreateCampaign(c, k, d) ==
  /\ campaign[k].status = "none" /\ Sends(d)
  /\ Begin(c, "campaignCreate", d, k)

WriteCampaign(c, row) ==
  /\ campaign' = [campaign EXCEPT ![asked[c].campaign] = row]
  /\ Overtake(c) /\ Finish(c)
  /\ UNCHANGED <<sender, registry, made, torn, shaken>>

CampaignCreate(c) ==
  /\ At(c, "campaignCreate") /\ sender[MyDomain(c)].id = asked[c].id
  /\ campaign[asked[c].campaign].status = "none"
  /\ UNCHANGED rushed
  /\ WriteCampaign(c, [status |-> "draft", sender |-> MyDomain(c)])

\* The domain's part in preflight; what follows it is in CampaignDelivery.
Launch(c, k) ==
  \E d \in Domains : /\ campaign[k] = [status |-> "draft", sender |-> d] /\ Sends(d)
                     /\ Begin(c, "activate", d, k)

Activate(c) ==
  LET k == asked[c].campaign IN
  /\ At(c, "activate")
  /\ rushed' = IF c \in stale THEN rushed \cup {k} ELSE rushed
  /\ WriteCampaign(c, [campaign[k] EXCEPT !.status = "active"])

\* Killed: it no longer needs its domain.
Kill(k) ==
  /\ campaign[k].status \in {"draft", "active"}
  /\ campaign' = [campaign EXCEPT ![k].status = "over"]
  /\ stale' = stale \cup {e \in Calls : pc[e] # "idle"}
  /\ UNCHANGED <<sender, registry, callVars, made, torn, shaken, rushed>>

-----------------------------------------------------------------------------
Request(c) ==
  \/ \E d \in Domains : Add(c, d) \/ Refresh(c, d) \/ EnableShared(c, d) \/ Remove(c, d)
  \/ \E k \in Campaigns : Launch(c, k) \/ \E d \in Domains : CreateCampaign(c, k, d)

Step(c) ==
  \/ AddRegister(c) \/ AddCreate(c)
  \/ RefreshAsk(c) \/ RefreshWrite(c)
  \/ Promote(c) \/ EnableCreate(c)
  \/ RemoveCount(c) \/ Deregister(c, TRUE) \/ Deregister(c, FALSE) \/ Delete(c)
  \/ CampaignCreate(c) \/ Activate(c)
  \/ CallDies(c)

Next ==
  \/ \E c \in Calls : Request(c) \/ Step(c)
  \/ \E d \in Domains, s \in Statuses : ProviderDecides(d, s)
  \/ \E k \in Campaigns : Kill(k)

Spec == Init /\ [][Next]_vars

-----------------------------------------------------------------------------
(* Properties *)

\* An enabled shared domain can send at once and for good (enableShared), unless
\* a refresh that had read the client's own row wrote the provider's answer over it.
ManagedSends == \A d \in Domains : sender[d].managed => Sends(d) \/ d \in shaken

\* The provider has a record of every row that is the client's own, as long as
\* no removal has told it to forget the domain and then left the row (remove).
OwnIsRegistered ==
  \A d \in Domains : There(d) /\ sender[d].provider # 0 =>
                      registry[d].id = sender[d].provider \/ d \in torn

\* A domain that could send stops only by being removed or by an answer to a
\* refresh that began before it was verified (refresh).
VerifiedSticks ==
  \A d \in Domains : Sends(d) /\ There(d)' /\ ~Sends(d)' => d \in shaken'

\* A campaign that still has to send loses its domain only to a removal that
\* had counted the campaigns before it was there (remove, create).
DomainsInUseStay ==
  \A k \in Campaigns :
    campaign[k].sender # None /\ campaign'[k].sender = None /\ campaign[k].status # "over" =>
      \E c \in Calls : pc[c] = "delete" /\ c \in stale

\* An active campaign sends from the verified domain it was given, unless its
\* launch or the domain's removal was overtaken, or an old answer was written.
ActiveHasDomain ==
  \A k \in Campaigns : campaign[k].status = "active" /\ k \notin rushed =>
     \/ campaign[k].sender # None /\ Sends(campaign[k].sender)
     \/ campaign[k].sender \in shaken

\* What holds in every state, and of every step.
DomainsInv == TypeOK /\ ManagedSends /\ OwnIsRegistered /\ ActiveHasDomain
DomainsStep == VerifiedSticks /\ DomainsInUseStay
=============================================================================
