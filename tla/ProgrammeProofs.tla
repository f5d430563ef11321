-------------------------- MODULE ProgrammeProofs --------------------------
(***************************************************************************)
(* Launches and the chain of occurrences, for any number of requests,      *)
(* campaigns and launches of them.                                         *)
(***************************************************************************)
EXTENDS Programme, FiniteSetTheorems, TLAPS

Row == [status : {"none", "draft", "active", "paused", "over"},
        due : 0 .. MaxTime + 1 \cup {None}, recurring : BOOLEAN,
        sender : BOOLEAN, parent : Campaigns \cup {None}, launches : Nat]

\* Who was launched is no draft, and what runs or is paused was launched.
Consistent(row) ==
  /\ row.launches > 0 => row.status # "draft"
  /\ row.status \in {"active", "paused"} => row.launches > 0

Launching == {"preflight", "recipients", "activate", "clone"}

\* A call that launches knows what.
CallsAsk == \A c \in Calls : pc[c] \in Launching => asked[c] \in Campaigns

-----------------------------------------------------------------------------
(* Every step keeps the types.  A campaign's row changes in one of a few ways. *)

LEMMA RowWritten ==
  ASSUME TypeOK, NEW k \in Campaigns, NEW row \in Row, Consistent(row), SetCampaign(k, row)
  PROVE  /\ campaign' \in [Campaigns -> Row]
         /\ \A j \in Campaigns : Consistent(campaign'[j])
         /\ campaign'[k] = row /\ \A j \in Campaigns \ {k} : campaign'[j] = campaign[j]
BY DEF SetCampaign, TypeOK, Row, Consistent

LEMMA ActivatedRow ==
  ASSUME NEW row \in Row, NEW n \in Nat
  PROVE  [row EXCEPT !.status = "active", !.launches = n] \in Row
BY ZenonT(60) DEF Row

LEMMA SenderRow ==
  ASSUME NEW row \in Row, NEW b \in BOOLEAN
  PROVE  [row EXCEPT !.sender = b] \in Row
BY SMTT(30) DEF Row

LEMMA RowsTyped ==
  ASSUME TypeOK, CallsAsk, Next
  PROVE  campaign' \in [Campaigns -> Row] /\ \A k \in Campaigns : Consistent(campaign'[k])
<1> USE ProgrammeAssumption
<1>1. campaign \in [Campaigns -> Row] /\ \A k \in Campaigns : Consistent(campaign[k])
  BY DEF TypeOK, Row, Consistent
<1>2. now \in 0 .. MaxTime /\ now + 1 \in 0 .. MaxTime + 1
  BY DEF TypeOK
<1>3. CASE campaign' = campaign
  BY <1>1, <1>3
<1>4. ASSUME NEW f \in Unsteady, SetFact(f)
      PROVE  campaign' \in [Campaigns -> Row] /\ \A k \in Campaigns : Consistent(campaign'[k])
  <2>1. CASE f = "sendingDomainVerified"
    <3> DEFINE verified == f \in done'
    <3>1. campaign' = [k \in Campaigns |-> [campaign[k] EXCEPT !.sender = campaign[k].sender /\ verified]]
      BY <1>4, <2>1 DEF SetFact
    <3>2. ASSUME NEW k \in Campaigns, NEW b \in BOOLEAN
          PROVE  [campaign[k] EXCEPT !.sender = b] \in Row /\ Consistent([campaign[k] EXCEPT !.sender = b])
      <4>1. campaign[k] \in Row /\ Consistent(campaign[k])
        BY <1>1
      <4>2. [campaign[k] EXCEPT !.sender = b] \in Row
        BY <4>1, SenderRow
      <4>3. /\ [campaign[k] EXCEPT !.sender = b].status = campaign[k].status
            /\ [campaign[k] EXCEPT !.sender = b].launches = campaign[k].launches
        BY <4>1 DEF Row
      <4> HIDE DEF Row
      <4> QED BY <4>1, <4>2, <4>3 DEF Consistent
    <3>3. ASSUME NEW k \in Campaigns PROVE (campaign[k].sender /\ verified) \in BOOLEAN
      OBVIOUS
    <3> HIDE DEF verified
    <3>4. ASSUME NEW k \in Campaigns PROVE campaign'[k] \in Row /\ Consistent(campaign'[k])
      BY <3>1, <3>2, <3>3
    <3> QED BY <3>1, <3>4
  <2>2. CASE f # "sendingDomainVerified"
    BY <1>1, <1>4, <2>2 DEF SetFact
  <2> QED BY <2>1, <2>2
<1>5. ASSUME NEW k \in Campaigns, NEW draft \in Drafts, CreateCampaign(k, draft)
      PROVE  \E row \in Row : Consistent(row) /\ SetCampaign(k, row)
  <2>1. draft \in [due : 0 .. MaxTime \cup {None}, recurring : BOOLEAN, sender : BOOLEAN]
    OBVIOUS
  <2>2. draft.due \in 0 .. MaxTime + 1 \cup {None}
    BY <2>1
  <2>3. Draft(draft.due, draft.recurring, draft.sender, None) \in Row
    BY <2>1, <2>2 DEF Draft, Row
  <2> QED BY <1>5, <2>3 DEF CreateCampaign, Draft, Consistent
<1>6. ASSUME NEW k \in Campaigns,
             (\E at \in {None, now} : Schedule(k, at)) \/ Pause(k) \/ Resume(k) \/ EndCampaign(k)
      PROVE  \E row \in Row : Consistent(row) /\ SetCampaign(k, row)
  <2>1. campaign[k] \in Row /\ Consistent(campaign[k])
    BY <1>1
  <2> QED BY <1>2, <1>6, <2>1 DEF Schedule, Pause, Resume, EndCampaign, SetStatus, Row, Consistent
<1>7. ASSUME NEW c \in Calls, asked[c] \in Campaigns, Activate(c)
      PROVE  \E k \in Campaigns : \E row \in Row : Consistent(row) /\ SetCampaign(k, row)
  <2> DEFINE k == asked[c]
             row == [campaign[k] EXCEPT !.status = "active", !.launches = @ + 1]
  <2>1. campaign[k] \in Row
    BY <1>1, <1>7
  <2>2. row.status = "active" /\ row.launches = campaign[k].launches + 1
    BY <2>1 DEF Row
  <2>3. campaign[k].launches \in Nat /\ campaign[k].launches + 1 > 0
    BY <2>1 DEF Row
  <2>4. row \in Row
    <3>1. ASSUME NEW n \in Nat
          PROVE  [campaign[k] EXCEPT !.status = "active", !.launches = n] \in Row
      BY <2>1, ActivatedRow, Zenon
    <3>2. campaign[k].launches + 1 \in Nat
      BY <2>3
    <3>3. [campaign[k] EXCEPT !.status = "active", !.launches = campaign[k].launches + 1] \in Row
      BY <3>1, <3>2, Zenon
    <3> QED BY <3>3
  <2>5. Consistent(row)
    BY <2>2, <2>3 DEF Consistent
  <2> QED BY <1>7, <2>4, <2>5 DEF Activate, MyCampaign
<1>8. ASSUME NEW c \in Calls, NEW k \in Campaigns, asked[c] \in Campaigns, Clone(c, k)
      PROVE  \E row \in Row : Consistent(row) /\ SetCampaign(k, row)
  <2> DEFINE first == IF campaign[asked[c]].parent = None THEN asked[c] ELSE campaign[asked[c]].parent
  <2>1. first \in Campaigns
    BY <1>1, <1>8 DEF Row
  <2>2. Draft(now + 1, TRUE, FALSE, first) \in Row
    BY <1>2, <2>1 DEF Draft, Row
  <2> QED BY <1>8, <2>2 DEF Clone, CloneRow, MyCampaign, Occurrence, Draft, Consistent
<1>9. ASSUME NEW k \in Campaigns, NEW row \in Row, Consistent(row), SetCampaign(k, row)
      PROVE  campaign' \in [Campaigns -> Row] /\ \A j \in Campaigns : Consistent(campaign'[j])
  BY <1>9, RowWritten
<1>10. CASE Administrator
  BY <1>4, <1>5, <1>6, <1>9, <1>10 DEF Administrator
<1>11. ASSUME NEW c \in Calls, LaunchStep(c)
       PROVE  campaign' \in [Campaigns -> Row] /\ \A j \in Campaigns : Consistent(campaign'[j])
  <2>1. CASE Activate(c) \/ \E k \in Campaigns : Clone(c, k)
    <3>1. asked[c] \in Campaigns
      BY <2>1 DEF CallsAsk, Launching, Activate, Clone, CloneRow, At
    <3> QED BY <2>1, <3>1, <1>7, <1>8, <1>9
  <2>2. CASE PassPreflight(c) \/ PassRecipients(c) \/ CloneOut(c) \/ LaunchRefused(c)
    BY <2>2, <1>3 DEF PassPreflight, Passed, PassRecipients, CloneOut, LaunchRefused
  <2> QED BY <1>11, <2>1, <2>2 DEF LaunchStep
<1>12. ASSUME \/ Tick \/ TickFind \/ (\E k \in Campaigns : TickLaunch(k)) \/ TickDone
              \/ (\E c \in Calls : CallDies(c) \/ \E k \in Campaigns : Launch(c, k))
       PROVE  campaign' = campaign
  BY <1>12 DEF Tick, TickFind, FindDue, TickLaunch, TickDone, CallDies, Launch
<1> QED BY <1>3, <1>10, <1>11, <1>12 DEF Next, Scheduler, Calls

LEMMA CallsTyped ==
  ASSUME TypeOK, Next
  PROVE  /\ pc' \in [Calls -> Steps] /\ asked' \in [Calls -> Campaigns \cup {None}]
         /\ due' \subseteq Campaigns
<1> USE DEF TypeOK, Steps, Go, Finish
<1>0. Worker \in Calls
  BY DEF Calls
<1>1. CASE Tick \/ Administrator
  BY <1>1 DEF Tick, Administrator, SetFact, CreateCampaign, Schedule, Pause, Resume, EndCampaign,
              SetStatus, callVars
<1>2. CASE TickFind \/ (\E k \in Campaigns : TickLaunch(k)) \/ TickDone
  BY <1>0, <1>2 DEF TickFind, FindDue, DueDrafts, Scheduled, TickLaunch, TickDone
<1>3. ASSUME NEW c \in Calls, LaunchStep(c)
      PROVE  /\ pc' \in [Calls -> Steps] /\ asked' \in [Calls -> Campaigns \cup {None}]
             /\ due' \subseteq Campaigns
  BY <1>3 DEF LaunchStep, PassPreflight, Passed, PassRecipients, Activate, Clone, CloneRow, CloneOut,
              LaunchRefused
<1>4. ASSUME NEW c \in Calls, CallDies(c) \/ \E k \in Campaigns : Launch(c, k)
      PROVE  /\ pc' \in [Calls -> Steps] /\ asked' \in [Calls -> Campaigns \cup {None}]
             /\ due' \subseteq Campaigns
  BY <1>4 DEF CallDies, Launch
<1> QED BY <1>0, <1>1, <1>2, <1>3, <1>4 DEF Next, Scheduler, Calls

LEMMA RestTyped ==
  ASSUME TypeOK, CallsAsk, Next
  PROVE  /\ now' \in 0 .. MaxTime /\ done' \subseteq Facts /\ deaths' \in 0 .. MaxDeaths
         /\ stale' \subseteq Calls /\ cut' \subseteq Campaigns
<1> USE ProgrammeAssumption DEF TypeOK, Steps
<1>0. Worker \in Calls /\ Cleared \subseteq Calls
  BY DEF Calls, Cleared
<1>1. CASE Tick \/ Administrator
  BY <1>0, <1>1 DEF Tick, Administrator, SetFact, CreateCampaign, Schedule, Pause, Resume, EndCampaign,
              SetStatus, SetCampaign, history
<1>2. CASE TickFind \/ (\E k \in Campaigns : TickLaunch(k)) \/ TickDone
  BY <1>0, <1>2 DEF TickFind, FindDue, TickLaunch, TickDone, history
<1>3. ASSUME NEW c \in Calls, LaunchStep(c)
      PROVE  /\ now' \in 0 .. MaxTime /\ done' \subseteq Facts /\ deaths' \in 0 .. MaxDeaths
             /\ stale' \subseteq Calls /\ cut' \subseteq Campaigns
  <2>1. CASE CloneOut(c)
    <3>1. asked[c] \in Campaigns
      BY <2>1 DEF CallsAsk, Launching, CloneOut, At
    <3> QED BY <2>1, <3>1 DEF CloneOut, MyCampaign
  <2> QED BY <1>0, <1>3, <2>1 DEF LaunchStep, PassPreflight, Passed, PassRecipients, Activate, Clone,
                CloneRow, LaunchRefused, SetCampaign, history
<1>4. ASSUME NEW c \in Calls, CallDies(c)
      PROVE  /\ now' \in 0 .. MaxTime /\ done' \subseteq Facts /\ deaths' \in 0 .. MaxDeaths
             /\ stale' \subseteq Calls /\ cut' \subseteq Campaigns
  BY <1>4 DEF CallDies, CallsAsk, Launching, At, MyCampaign
<1>5. ASSUME NEW c \in Calls, \E k \in Campaigns : Launch(c, k)
      PROVE  /\ now' \in 0 .. MaxTime /\ done' \subseteq Facts /\ deaths' \in 0 .. MaxDeaths
             /\ stale' \subseteq Calls /\ cut' \subseteq Campaigns
  BY <1>5 DEF Launch, history
<1> QED BY <1>0, <1>1, <1>2, <1>3, <1>4, <1>5 DEF Next, Scheduler, Calls

LEMMA TypesKept ==
  ASSUME TypeOK, CallsAsk, Next
  PROVE  TypeOK'
<1>1. /\ \A k \in Campaigns : (campaign'[k].launches > 0) => campaign'[k].status # "draft"
      /\ \A k \in Campaigns : campaign'[k].status \in {"active", "paused"} => campaign'[k].launches > 0
  BY RowsTyped DEF Consistent
<1> QED BY <1>1, RowsTyped, CallsTyped, RestTyped DEF TypeOK, Row

-----------------------------------------------------------------------------
(* What a launch has checked still holds of one that is not overtaken, and an *)
(* occurrence, which has no sending domain, never passes preflight: so only   *)
(* the first of a chain is ever launched, and the chain is counted at it.     *)

Made(k) == campaign[k].status # "none"

RowOK(k) ==
  /\ ~Made(k) => campaign[k] = NoCampaign
  /\ campaign[k].parent # None => Made(campaign[k].parent) /\ ~campaign[k].sender
  /\ campaign[k].sender => "sendingDomainVerified" \in done

CallOK(c) ==
  /\ pc[c] \in Launching => asked[c] \in Campaigns /\ Made(asked[c])
  /\ pc[c] \in Launching \ {"preflight"} => campaign[asked[c]].parent = None
  /\ pc[c] = "clone" => campaign[asked[c]].recurring
  /\ c \notin stale /\ pc[c] \in {"recipients", "activate"} => Preflight(asked[c])
  /\ c \notin stale /\ pc[c] = "activate" => Mailable

ChecksInv ==
  /\ TypeOK
  /\ \A k \in Campaigns : RowOK(k)
  /\ \A c \in Calls : CallOK(c)

\* A campaign, once made, stays in its chain and gets no sending domain.
RowStays(k) ==
  Made(k) => /\ Made(k)' /\ campaign'[k].parent = campaign[k].parent
             /\ campaign'[k].recurring = campaign[k].recurring
             /\ campaign'[k].sender => campaign[k].sender

LEMMA ChecksAsk ==
  ASSUME ChecksInv
  PROVE  CallsAsk /\ TypeOK /\ Worker \in Calls
BY DEF ChecksInv, CallOK, CallsAsk, Calls

\* What comes of a campaign that is written.
LEMMA MadeRows ==
  ASSUME ChecksInv, NEW k \in Campaigns, NEW row \in Row, SetCampaign(k, row),
         row.status # "none", row.sender => "sendingDomainVerified" \in done,
         row.parent # None => row.parent \in Campaigns /\ Made(row.parent) /\ ~row.sender,
         Made(k) => row.parent = campaign[k].parent /\ row.recurring = campaign[k].recurring
                      /\ row.sender = campaign[k].sender
  PROVE  /\ \A j \in Campaigns : RowOK(j)' /\ RowStays(j)
         /\ \A j \in Campaigns : Made(j) => campaign'[j].sender = campaign[j].sender
<1>1. campaign'[k] = row /\ (\A j \in Campaigns \ {k} : campaign'[j] = campaign[j]) /\ done' = done
  BY DEF ChecksInv, TypeOK, SetCampaign
<1>2. \A j \in Campaigns : Made(j) => Made(j)'
  BY <1>1 DEF Made
<1>3. RowOK(k)'
  BY <1>1, <1>2 DEF RowOK, Made
<1>4. ASSUME NEW j \in Campaigns \ {k} PROVE RowOK(j)'
  <2>1. RowOK(j) /\ campaign[j].parent \in Campaigns \cup {None}
    BY DEF ChecksInv, TypeOK
  <2> QED BY <1>1, <1>2, <2>1 DEF RowOK, Made
<1> QED BY <1>1, <1>2, <1>3, <1>4 DEF RowStays, Made

LEMMA SameRows ==
  ASSUME ChecksInv, UNCHANGED <<campaign, done>>
  PROVE  /\ \A j \in Campaigns : RowOK(j)' /\ RowStays(j)
         /\ \A j \in Campaigns : Made(j) => campaign'[j].sender = campaign[j].sender
BY DEF ChecksInv, RowOK, RowStays, Made

LEMMA FactRows ==
  ASSUME ChecksInv, NEW f \in Unsteady, SetFact(f)
  PROVE  \A k \in Campaigns : RowOK(k)' /\ RowStays(k)
<1> SUFFICES ASSUME NEW k \in Campaigns PROVE RowOK(k)' /\ RowStays(k)
  OBVIOUS
<1>1. campaign[k] \in Row /\ RowOK(k)
  BY DEF ChecksInv, TypeOK, Row
<1>2. \A j \in Campaigns : Made(j)' = Made(j)
  BY DEF SetFact, Made, ChecksInv, TypeOK
<1>3. CASE f = "sendingDomainVerified"
  <2>1. campaign'[k] = [campaign[k] EXCEPT !.sender = campaign[k].sender /\ f \in done']
    BY <1>3 DEF SetFact
  <2>2. campaign'[k].sender => campaign[k].sender /\ "sendingDomainVerified" \in done'
    BY <1>1, <1>3, <2>1 DEF Row
  <2>3. /\ campaign'[k].parent = campaign[k].parent /\ campaign'[k].recurring = campaign[k].recurring
        /\ campaign'[k].status = campaign[k].status
    BY <1>1, <2>1 DEF Row
  <2>4. ~Made(k) => campaign'[k] = NoCampaign
    <3> SUFFICES ASSUME ~Made(k) PROVE campaign'[k] = NoCampaign
      OBVIOUS
    <3>1. campaign[k] = NoCampaign
      BY <1>1 DEF RowOK
    <3>2. campaign'[k] \in Row
      BY <1>1, <2>1 DEF Row
    <3> DEFINE row == campaign'[k]
    <3>3. /\ row.status = "none" /\ row.due = None /\ row.recurring = FALSE /\ row.parent = None
          /\ row.launches = 0 /\ row.sender \in BOOLEAN /\ ~row.sender
      BY <1>1, <2>1, <2>2, <3>1, <3>2 DEF Row, NoCampaign
    <3>4. row = [status |-> row.status, due |-> row.due, recurring |-> row.recurring,
                 sender |-> row.sender, parent |-> row.parent, launches |-> row.launches]
      BY <3>2 DEF Row
    <3> QED BY <3>3, <3>4 DEF NoCampaign
  <2> QED BY <1>1, <1>2, <2>2, <2>3, <2>4 DEF RowOK, RowStays, Made, Row
<1>4. CASE f # "sendingDomainVerified"
  BY <1>1, <1>2, <1>4 DEF SetFact, RowOK, RowStays, Made, Row
<1> QED BY <1>3, <1>4

\* A call that does not move, and is overtaken or finds what it read unchanged.
LEMMA Unmoved ==
  ASSUME ChecksInv, NEW c \in Calls, pc'[c] = pc[c], asked'[c] = asked[c], c \in stale => c \in stale',
         \A k \in Campaigns : RowStays(k),
         \/ c \in stale' \/ c \notin Cleared
         \/ done \subseteq done' /\ \A k \in Campaigns : Made(k) => campaign'[k].sender = campaign[k].sender
  PROVE  CallOK(c)'
<1>1. CallOK(c)
  BY DEF ChecksInv
<1> QED BY <1>1 DEF CallOK, RowStays, Made, Launching, Cleared, Preflight, Mailable

\* Every row that any step writes is that of a campaign that was made or is just drafted.
LEMMA Drafted ==
  ASSUME ChecksInv, NEW k \in Campaigns, ~Made(k),
         NEW at \in 0 .. MaxTime + 1 \cup {None}, NEW recurring \in BOOLEAN, NEW sender \in BOOLEAN,
         NEW parent \in Campaigns \cup {None}, SetCampaign(k, Draft(at, recurring, sender, parent)),
         sender => "sendingDomainVerified" \in done,
         parent # None => Made(parent) /\ ~sender
  PROVE  /\ \A j \in Campaigns : RowOK(j)' /\ RowStays(j)
         /\ \A j \in Campaigns : Made(j) => campaign'[j].sender = campaign[j].sender
<1>1. Draft(at, recurring, sender, parent) \in Row
  BY DEF Draft, Row
<1> QED BY <1>1, MadeRows DEF Draft

\* What administrators do, and days that pass.
LEMMA AdministratorChecks ==
  ASSUME ChecksInv, Tick \/ Administrator
  PROVE  (\A k \in Campaigns : RowOK(k)') /\ (\A c \in Calls : CallOK(c)')
<1> USE ProgrammeAssumption
<1>1. TypeOK /\ \A k \in Campaigns : campaign[k] \in Row /\ RowOK(k)
  BY DEF ChecksInv, TypeOK, Row
<1>2. CASE Tick
  BY <1>2, SameRows, Unmoved DEF Tick, callVars, history
<1>3. ASSUME NEW f \in Unsteady, SetFact(f)
      PROVE  (\A k \in Campaigns : RowOK(k)') /\ (\A c \in Calls : CallOK(c)')
  <2>1. /\ UNCHANGED callVars /\ stale \subseteq stale'
        /\ \A k \in Campaigns : RowOK(k)' /\ RowStays(k)
    BY <1>3, FactRows DEF SetFact
  <2>2. CASE f \in done
    <3>1. \A c \in Calls : c \in stale' \/ c \notin Cleared
      BY <1>3, <2>2 DEF SetFact
    <3> QED BY <2>1, <3>1, Unmoved DEF callVars
  <2>3. CASE f \notin done
    <3>1. done' = done \cup {f}
      BY <1>3, <2>3 DEF SetFact
    <3>2. \A k \in Campaigns : campaign'[k].sender = campaign[k].sender
      BY <1>1, <1>3, <3>1 DEF SetFact, Row
    <3> QED BY <2>1, <3>1, <3>2, Unmoved DEF callVars
  <2> QED BY <2>2, <2>3
<1>4. ASSUME NEW k \in Campaigns, NEW draft \in Drafts, CreateCampaign(k, draft)
      PROVE  (\A j \in Campaigns : RowOK(j)') /\ (\A c \in Calls : CallOK(c)')
  <2>1. /\ draft.due \in 0 .. MaxTime + 1 \cup {None} /\ draft.recurring \in BOOLEAN
        /\ draft.sender \in BOOLEAN
    <3>1. draft \in [due : 0 .. MaxTime \cup {None}, recurring : BOOLEAN, sender : BOOLEAN]
      OBVIOUS
    <3> QED BY <3>1
  <2>2. ~Made(k) /\ SetCampaign(k, Draft(draft.due, draft.recurring, draft.sender, None))
        /\ (draft.sender => "sendingDomainVerified" \in done)
    BY <1>4 DEF CreateCampaign, IsNext, Made
  <2>3. /\ \A j \in Campaigns : RowOK(j)' /\ RowStays(j)
        /\ \A j \in Campaigns : Made(j) => campaign'[j].sender = campaign[j].sender
    BY <2>1, <2>2, Drafted
  <2> QED BY <1>4, <2>3, Unmoved DEF CreateCampaign, SetCampaign, callVars, history
<1>5. ASSUME NEW k \in Campaigns, NEW at \in {None, now}, Schedule(k, at)
      PROVE  (\A j \in Campaigns : RowOK(j)') /\ (\A c \in Calls : CallOK(c)')
  <2> DEFINE row == [campaign[k] EXCEPT !.due = at]
  <2>1. at \in 0 .. MaxTime + 1 \cup {None}
    BY <1>1 DEF TypeOK
  <2>2. row \in Row /\ row.status = "draft" /\ row.sender = campaign[k].sender
        /\ row.parent = campaign[k].parent /\ row.recurring = campaign[k].recurring
    BY <1>1, <1>5, <2>1 DEF Schedule, Row
  <2>3. SetCampaign(k, row)
    BY <1>5 DEF Schedule
  <2>4. /\ \A j \in Campaigns : RowOK(j)' /\ RowStays(j)
        /\ \A j \in Campaigns : Made(j) => campaign'[j].sender = campaign[j].sender
    <3>1. campaign[k].parent \in Campaigns \cup {None}
      BY <1>1 DEF Row
    <3> HIDE DEF row
    <3> QED BY <1>1, <2>2, <2>3, <3>1, MadeRows DEF RowOK
  <2> QED BY <1>5, <2>4, Unmoved DEF Schedule, SetCampaign, callVars, history
<1>6. ASSUME NEW k \in Campaigns, Pause(k) \/ Resume(k) \/ EndCampaign(k)
      PROVE  (\A j \in Campaigns : RowOK(j)') /\ (\A c \in Calls : CallOK(c)')
  <2>1. PICK to \in {"active", "paused", "over"} :
          SetCampaign(k, [campaign[k] EXCEPT !.status = to]) /\ UNCHANGED <<callVars, history>>
            /\ Made(k)
    BY <1>6 DEF Pause, Resume, EndCampaign, SetStatus, Made
  <2> DEFINE row == [campaign[k] EXCEPT !.status = to]
  <2>2. row \in Row /\ row.status = to /\ row.sender = campaign[k].sender
        /\ row.parent = campaign[k].parent /\ row.recurring = campaign[k].recurring
    BY <1>1 DEF Row
  <2>3. /\ \A j \in Campaigns : RowOK(j)' /\ RowStays(j)
        /\ \A j \in Campaigns : Made(j) => campaign'[j].sender = campaign[j].sender
        /\ done' = done
    <3>1. campaign[k].parent \in Campaigns \cup {None} /\ SetCampaign(k, row) /\ done' = done
      BY <1>1, <2>1 DEF Row, SetCampaign
    <3> HIDE DEF row
    <3> QED BY <1>1, <2>2, <3>1, MadeRows DEF RowOK
  <2> QED BY <2>1, <2>3, Unmoved DEF callVars, history
<1> QED BY <1>2, <1>3, <1>4, <1>5, <1>6 DEF Administrator

\* The steps of a launch: the other calls do not move.
LEMMA LaunchChecks ==
  ASSUME ChecksInv, NEW c \in Calls, LaunchStep(c)
  PROVE  (\A k \in Campaigns : RowOK(k)') /\ (\A d \in Calls : CallOK(d)')
<1> USE ProgrammeAssumption
<1>1. /\ \A k \in Campaigns : campaign[k] \in Row /\ RowOK(k)
      /\ TypeOK /\ CallOK(c) /\ pc \in [Calls -> Steps]
  BY DEF ChecksInv, TypeOK, Row
<1>2. CASE PassPreflight(c)
  <2>1. (\A j \in Campaigns : RowOK(j)' /\ RowStays(j))
        /\ (\A j \in Campaigns : Made(j) => campaign'[j].sender = campaign[j].sender)
    BY <1>2, SameRows DEF PassPreflight, Passed
  <2>2. \A d \in Calls \ {c} : CallOK(d)'
    BY <1>1, <1>2, <2>1, Unmoved DEF PassPreflight, Passed, Go, history
  <2>3. asked[c] \in Campaigns /\ Made(asked[c]) /\ Preflight(asked[c]) /\ pc'[c] = "recipients"
    BY <1>1, <1>2 DEF PassPreflight, Passed, Go, At, MyCampaign, CallOK, Launching
  <2>4. campaign[asked[c]].parent = None
    BY <1>1, <2>3 DEF Preflight, RowOK
  <2>5. CallOK(c)'
    BY <1>2, <2>3, <2>4 DEF PassPreflight, Passed, CallOK, Made, Preflight
  <2> QED BY <2>1, <2>2, <2>5
<1>3. CASE PassRecipients(c)
  <2>1. (\A j \in Campaigns : RowOK(j)' /\ RowStays(j))
        /\ (\A j \in Campaigns : Made(j) => campaign'[j].sender = campaign[j].sender)
    BY <1>3, SameRows DEF PassRecipients
  <2>2. \A d \in Calls \ {c} : CallOK(d)'
    BY <1>1, <1>3, <2>1, Unmoved DEF PassRecipients, Go, history
  <2>3. CallOK(c)'
    BY <1>1, <1>3 DEF PassRecipients, Go, At, CallOK, Made, Preflight, Mailable, Launching, history
  <2> QED BY <2>1, <2>2, <2>3
<1>4. CASE Activate(c)
  <2> DEFINE k == asked[c]
             row == [campaign[k] EXCEPT !.status = "active", !.launches = campaign[k].launches + 1]
  <2>1. k \in Campaigns /\ Made(k) /\ campaign[k].parent = None
    BY <1>1, <1>4 DEF Activate, At, CallOK, Launching
  <2>2. SetCampaign(k, row) /\ UNCHANGED done
    BY <1>4 DEF Activate, MyCampaign, SetCampaign
  <2>3. row \in Row
    <3>1. ASSUME NEW n \in Nat
          PROVE  [campaign[k] EXCEPT !.status = "active", !.launches = n] \in Row
      BY <1>1, <2>1, ActivatedRow, Zenon
    <3>2. campaign[k].launches + 1 \in Nat
      BY <1>1, <2>1 DEF Row
    <3> QED BY <3>1, <3>2, Zenon
  <2>4. row.status = "active" /\ row.sender = campaign[k].sender
        /\ row.parent = campaign[k].parent /\ row.recurring = campaign[k].recurring
    BY <1>1, <2>1 DEF Row
  <2>5. /\ \A j \in Campaigns : RowOK(j)' /\ RowStays(j)
        /\ \A j \in Campaigns : Made(j) => campaign'[j].sender = campaign[j].sender
    <3> HIDE DEF row
    <3> QED BY <1>1, <2>1, <2>2, <2>3, <2>4, MadeRows DEF RowOK
  <2>6. \A d \in Calls \ {c} : /\ pc'[d] = pc[d] /\ asked'[d] = asked[d] /\ (d \in stale => d \in stale')
    BY <1>1, <1>4 DEF Activate, Go, Finish, TypeOK
  <2>7. \A d \in Calls \ {c} : CallOK(d)'
    BY <2>2, <2>5, <2>6, Unmoved
  <2>8. \/ pc'[c] \in {"idle", "tick"}
        \/ pc'[c] = "clone" /\ asked'[c] = k /\ campaign[k].recurring
    BY <1>1, <1>4 DEF Activate, MyCampaign, Go, Finish
  <2>9. CallOK(c)'
    BY <2>1, <2>5, <2>8 DEF CallOK, Launching, RowStays, Made
  <2> QED BY <2>5, <2>7, <2>9
<1>5. ASSUME NEW k \in Campaigns, Clone(c, k)
      PROVE  (\A j \in Campaigns : RowOK(j)') /\ (\A d \in Calls : CallOK(d)')
  <2> DEFINE j == asked[c]
  <2>1. j \in Campaigns /\ Made(j) /\ campaign[j].parent = None
    BY <1>1, <1>5 DEF Clone, CloneRow, At, CallOK, Launching
  <2>2. ~Made(k) /\ SetCampaign(k, Draft(now + 1, TRUE, FALSE, j))
    BY <1>5, <2>1 DEF Clone, CloneRow, IsNext, Made, MyCampaign, Occurrence
  <2>3. now + 1 \in 0 .. MaxTime + 1
    BY <1>1 DEF TypeOK
  <2>4. (\A i \in Campaigns : RowOK(i)' /\ RowStays(i))
        /\ (\A i \in Campaigns : Made(i) => campaign'[i].sender = campaign[i].sender)
    BY <2>1, <2>2, <2>3, Drafted
  <2>5. \A d \in Calls \ {c} : CallOK(d)'
    BY <1>1, <1>5, <2>4, Unmoved DEF Clone, CloneRow, SetCampaign, Finish, Go, history, TypeOK
  <2>6. CallOK(c)'
    BY <1>1, <1>5 DEF Clone, CloneRow, Finish, Go, CallOK, Launching
  <2> QED BY <2>4, <2>5, <2>6
<1>6. CASE CloneOut(c) \/ LaunchRefused(c)
  <2>1. (\A j \in Campaigns : RowOK(j)' /\ RowStays(j))
        /\ (\A j \in Campaigns : Made(j) => campaign'[j].sender = campaign[j].sender)
    BY <1>6, SameRows DEF CloneOut, LaunchRefused
  <2>2. \A d \in Calls \ {c} : CallOK(d)'
    BY <1>1, <1>6, <2>1, Unmoved DEF CloneOut, LaunchRefused, Finish, Go, TypeOK
  <2>3. CallOK(c)'
    BY <1>1, <1>6 DEF CloneOut, LaunchRefused, Finish, Go, CallOK, Launching
  <2> QED BY <2>1, <2>2, <2>3
<1> QED BY <1>2, <1>3, <1>4, <1>5, <1>6 DEF LaunchStep

\* Launches that begin, ticks that find them, and calls that die.
LEMMA CallChecks ==
  ASSUME ChecksInv,
         \/ TickFind \/ (\E k \in Campaigns : TickLaunch(k)) \/ TickDone
         \/ \E c \in Calls : CallDies(c) \/ \E k \in Campaigns : Launch(c, k)
  PROVE  (\A k \in Campaigns : RowOK(k)') /\ (\A d \in Calls : CallOK(d)')
<1>1. Worker \in Calls /\ pc \in [Calls -> Steps] /\ asked \in [Calls -> Campaigns \cup {None}]
  BY DEF ChecksInv, TypeOK, Calls
<1>2. UNCHANGED <<campaign, done>>
  BY DEF TickFind, FindDue, TickLaunch, TickDone, CallDies, Launch
<1>3. (\A k \in Campaigns : RowOK(k)' /\ RowStays(k))
      /\ (\A j \in Campaigns : Made(j) => campaign'[j].sender = campaign[j].sender)
  BY <1>2, SameRows
<1>4. ASSUME NEW c \in Calls, CallDies(c)
      PROVE  \A d \in Calls : CallOK(d)'
  <2>1. \A d \in Calls \ {c} : CallOK(d)'
    BY <1>1, <1>2, <1>3, <1>4, Unmoved DEF CallDies, Go
  <2> QED BY <1>1, <1>4, <2>1 DEF CallDies, Go, CallOK, Launching
<1>5. ASSUME NEW c \in Calls, NEW k \in Campaigns, Launch(c, k)
      PROVE  \A d \in Calls : CallOK(d)'
  <2>1. \A d \in Calls \ {c} : CallOK(d)'
    BY <1>1, <1>2, <1>3, <1>5, Unmoved DEF Launch, Go, history
  <2> QED BY <1>1, <1>5, <2>1 DEF Launch, Go, CallOK, Launching, Made
<1>6. CASE TickFind \/ TickDone
  <2>1. \A d \in Calls \ {Worker} : CallOK(d)'
    BY <1>1, <1>2, <1>3, <1>6, Unmoved DEF TickFind, FindDue, TickDone, Go, history
  <2>2. pc'[Worker] \in {"idle", "tick"}
    BY <1>1, <1>6 DEF TickFind, FindDue, TickDone, Go
  <2>3. ASSUME NEW d \in Calls, d = Worker PROVE CallOK(d)'
    BY <2>2, <2>3 DEF CallOK, Launching
  <2> QED BY <1>3, <2>1, <2>3
<1>7. ASSUME NEW k \in Campaigns, TickLaunch(k)
      PROVE  \A d \in Calls : CallOK(d)'
  <2>1. \A d \in Calls \ {Worker} : CallOK(d)'
    BY <1>1, <1>2, <1>3, <1>7, Unmoved DEF TickLaunch, Go, history
  <2> QED BY <1>1, <1>7, <2>1 DEF TickLaunch, At, Go, CallOK, Launching, Made
<1> QED BY <1>3, <1>4, <1>5, <1>6, <1>7

LEMMA ChecksKept ==
  ASSUME ChecksInv, Next
  PROVE  ChecksInv'
BY ChecksAsk, TypesKept, AdministratorChecks, LaunchChecks, CallChecks
   DEF Next, Scheduler, ChecksInv, Calls

-----------------------------------------------------------------------------
(* The chain is counted: a launch adds one call that has an occurrence to     *)
(* make, and making it takes the call away and adds the occurrence.           *)

LEMMA Counted ==
  ASSUME ChecksInv, NEW k \in Campaigns
  PROVE  /\ IsFiniteSet(Occurrences(k)) /\ IsFiniteSet(Following(k))
         /\ Cardinality(Occurrences(k)) \in Nat /\ Cardinality(Following(k)) \in Nat
<1>1. IsFiniteSet(Campaigns) /\ IsFiniteSet(Calls)
  BY ProgrammeAssumption, FS_Interval, FS_AddElement DEF Campaigns, Calls
<1>2. Occurrences(k) \in SUBSET Campaigns /\ Following(k) \in SUBSET Calls
  BY DEF Occurrences, Following
<1> QED BY <1>1, <1>2, FS_Subset, FS_CardinalityType

\* A step that neither launches nor makes an occurrence.
LEMMA Quiet ==
  ASSUME ChainContinues, cut \subseteq cut',
         \A o \in Campaigns : /\ campaign'[o].parent = campaign[o].parent
                              /\ campaign'[o].recurring = campaign[o].recurring
                              /\ campaign'[o].launches = campaign[o].launches,
         \A k \in Campaigns \ cut' : Following(k)' = Following(k)
  PROVE  ChainContinues'
<1> SUFFICES ASSUME NEW k \in Campaigns, campaign'[k].recurring, campaign'[k].parent = None, k \notin cut'
             PROVE  campaign'[k].launches = Cardinality(Occurrences(k)') + Cardinality(Following(k)')
  BY DEF ChainContinues
<1>1. Occurrences(k)' = Occurrences(k) /\ Following(k)' = Following(k)
  BY DEF Occurrences
<1> QED BY <1>1 DEF ChainContinues

\* Nothing belongs to a campaign that was not made.
LEMMA NothingFollows ==
  ASSUME ChecksInv, NEW k \in Campaigns, ~Made(k)
  PROVE  /\ Occurrences(k) = {} /\ Following(k) = {}
         /\ campaign[k] = NoCampaign
<1>1. \A o \in Campaigns : campaign[o].parent # k
  BY ProgrammeAssumption DEF ChecksInv, RowOK, Campaigns
<1>2. \A c \in Calls : pc[c] = "clone" => asked[c] # k
  BY DEF ChecksInv, CallOK, Launching
<1> QED BY <1>1, <1>2 DEF Occurrences, Following, ChecksInv, RowOK

LEMMA CreateChain ==
  ASSUME ChecksInv, ChainContinues, NEW k \in Campaigns, NEW draft \in Drafts, CreateCampaign(k, draft)
  PROVE  ChainContinues'
<1>1. /\ ~Made(k) /\ campaign' = [campaign EXCEPT ![k] = Draft(draft.due, draft.recurring, draft.sender, None)]
      /\ UNCHANGED <<pc, asked, cut>>
  BY DEF CreateCampaign, IsNext, Made, SetCampaign, callVars, history
<1>2. /\ campaign'[k].parent = None /\ campaign'[k].launches = 0
      /\ \A j \in Campaigns \ {k} : campaign'[j] = campaign[j]
  BY <1>1 DEF Draft, ChecksInv, TypeOK
<1>3. campaign[k].parent = None
  BY <1>1, NothingFollows DEF NoCampaign
<1>4. \A j \in Campaigns : Occurrences(j)' = Occurrences(j) /\ Following(j)' = Following(j)
  BY <1>1, <1>2, <1>3, ProgrammeAssumption DEF Occurrences, Following, Campaigns
<1> SUFFICES ASSUME NEW j \in Campaigns, campaign'[j].recurring, campaign'[j].parent = None, j \notin cut'
             PROVE  campaign'[j].launches = Cardinality(Occurrences(j)') + Cardinality(Following(j)')
  BY DEF ChainContinues
<1>5. CASE j = k
  BY <1>1, <1>2, <1>4, <1>5, NothingFollows, FS_EmptySet
<1>6. CASE j # k
  BY <1>1, <1>2, <1>4, <1>6 DEF ChainContinues
<1> QED BY <1>5, <1>6

LEMMA ActivateChain ==
  ASSUME ChecksInv, ChainContinues, NEW c \in Calls, Activate(c)
  PROVE  ChainContinues'
<1>0. PICK k \in Campaigns : k = asked[c]
  BY DEF Activate, At, ChecksInv, CallOK, Launching
<1>1. /\ k = asked[c] /\ pc[c] = "activate" /\ campaign[k] \in Row
      /\ pc \in [Calls -> Steps] /\ asked \in [Calls -> Campaigns \cup {None}]
  BY <1>0 DEF Activate, At, ChecksInv, TypeOK, Row
<1>2. /\ campaign' = [campaign EXCEPT ![k] = [campaign[k] EXCEPT !.status = "active",
                                                !.launches = campaign[k].launches + 1]]
      /\ cut' = cut
  BY <1>1 DEF Activate, MyCampaign, SetCampaign
<1>3. /\ \A j \in Campaigns \ {k} : campaign'[j] = campaign[j]
      /\ campaign'[k].launches = campaign[k].launches + 1 /\ campaign[k].launches \in Nat
      /\ campaign'[k].recurring = campaign[k].recurring /\ campaign'[k].parent = campaign[k].parent
  BY <1>1, <1>2 DEF ChecksInv, TypeOK, Row
<1>4. \A j \in Campaigns : Occurrences(j)' = Occurrences(j)
  BY <1>3 DEF Occurrences
<1>5. \A d \in Calls \ {c} : pc'[d] = pc[d] /\ asked'[d] = asked[d]
  BY <1>1 DEF Activate, Go, Finish
<1>6. IF campaign[k].recurring THEN pc'[c] = "clone" /\ asked'[c] = k ELSE pc'[c] \in {"idle", "tick"}
  BY <1>1 DEF Activate, MyCampaign, Go, Finish
<1>7. \A j \in Campaigns \ {k} : Following(j)' = Following(j)
  BY <1>1, <1>5, <1>6 DEF Following
<1> SUFFICES ASSUME NEW j \in Campaigns, campaign'[j].recurring, campaign'[j].parent = None, j \notin cut'
             PROVE  campaign'[j].launches = Cardinality(Occurrences(j)') + Cardinality(Following(j)')
  BY DEF ChainContinues
<1>8. CASE j = k
  <2>1. Following(k)' = Following(k) \cup {c} /\ c \notin Following(k)
    BY <1>1, <1>3, <1>5, <1>6, <1>8 DEF Following
  <2>2. Cardinality(Following(k)') = Cardinality(Following(k)) + 1
    BY <1>1, <2>1, Counted, FS_AddElement
  <2>3. campaign[k].launches = Cardinality(Occurrences(k)) + Cardinality(Following(k))
    BY <1>1, <1>2, <1>3, <1>8 DEF ChainContinues
  <2> QED BY <1>1, <1>3, <1>4, <1>8, <2>2, <2>3, Counted
<1>9. CASE j # k
  BY <1>2, <1>3, <1>4, <1>7, <1>9 DEF ChainContinues
<1> QED BY <1>8, <1>9

LEMMA CloneChain ==
  ASSUME ChecksInv, ChainContinues, NEW c \in Calls, NEW o \in Campaigns, Clone(c, o)
  PROVE  ChainContinues'
<1> USE ProgrammeAssumption
<1>0. PICK k \in Campaigns : k = asked[c]
  BY DEF Clone, CloneRow, At, ChecksInv, CallOK, Launching
<1>1. /\ k = asked[c] /\ pc[c] = "clone" /\ Made(k) /\ campaign[k].parent = None
      /\ pc \in [Calls -> Steps] /\ asked \in [Calls -> Campaigns \cup {None}]
  BY <1>0 DEF Clone, CloneRow, At, ChecksInv, CallOK, Launching, TypeOK
<1>2. /\ ~Made(o) /\ campaign' = [campaign EXCEPT ![o] = Draft(now + 1, TRUE, FALSE, k)]
      /\ cut' = cut
  BY <1>1 DEF Clone, CloneRow, IsNext, Made, MyCampaign, Occurrence, SetCampaign, history
<1>3. /\ \A j \in Campaigns \ {o} : campaign'[j] = campaign[j]
      /\ campaign'[o].recurring = TRUE /\ campaign'[o].parent = k
  BY <1>2 DEF ChecksInv, TypeOK, Draft
<1>4. campaign[o].parent = None /\ None \notin Campaigns
  BY <1>2, NothingFollows DEF NoCampaign, Campaigns
<1>5. \A d \in Calls \ {c} : pc'[d] = pc[d] /\ asked'[d] = asked[d]
  BY <1>1 DEF Clone, CloneRow, Go, Finish
<1>6. pc'[c] \in {"idle", "tick"}
  BY <1>1 DEF Clone, CloneRow, Go, Finish
<1>7. \A j \in Campaigns \ {k} : Following(j)' = Following(j) /\ Occurrences(j)' = Occurrences(j)
  BY <1>1, <1>3, <1>4, <1>5, <1>6 DEF Following, Occurrences
<1>8. Following(k)' = Following(k) \ {c} /\ c \in Following(k)
  BY <1>1, <1>5, <1>6 DEF Following
<1>9. Occurrences(k)' = Occurrences(k) \cup {o} /\ o \notin Occurrences(k)
  BY <1>1, <1>3, <1>4 DEF Occurrences
<1>10. /\ Cardinality(Following(k)') = Cardinality(Following(k)) - 1
       /\ Cardinality(Occurrences(k)') = Cardinality(Occurrences(k)) + 1
  <2>1. IsFiniteSet(Following(k)) /\ IsFiniteSet(Occurrences(k))
    BY Counted
  <2>2. Cardinality(Following(k) \ {c}) = Cardinality(Following(k)) - 1
    BY <1>8, <2>1, FS_RemoveElement
  <2>3. Cardinality(Occurrences(k) \cup {o}) = Cardinality(Occurrences(k)) + 1
    BY <1>9, <2>1, FS_AddElement
  <2> QED BY <1>8, <1>9, <2>2, <2>3
<1> SUFFICES ASSUME NEW j \in Campaigns, campaign'[j].recurring, campaign'[j].parent = None, j \notin cut'
             PROVE  campaign'[j].launches = Cardinality(Occurrences(j)') + Cardinality(Following(j)')
  BY DEF ChainContinues
<1>11. j # o
  BY <1>1, <1>3, <1>4
<1>12. campaign[j].launches = Cardinality(Occurrences(j)) + Cardinality(Following(j))
  BY <1>2, <1>3, <1>11 DEF ChainContinues
<1>13. CASE j = k
  BY <1>1, <1>3, <1>10, <1>11, <1>12, <1>13, Counted
<1>14. CASE j # k
  BY <1>3, <1>7, <1>11, <1>12, <1>14
<1> QED BY <1>13, <1>14

LEMMA ChainKept ==
  ASSUME ChecksInv, ChainContinues, Next
  PROVE  ChainContinues'
<1> USE DEF ChecksInv
<1>1. \A k \in Campaigns : campaign[k] \in Row
  BY DEF TypeOK, Row
<1>2. pc \in [Calls -> Steps] /\ asked \in [Calls -> Campaigns \cup {None}] /\ Worker \in Calls
  BY DEF TypeOK, Calls
<1>3. ASSUME NEW f \in Unsteady, SetFact(f)
      PROVE  ChainContinues'
  BY <1>1, <1>3, Quiet DEF SetFact, callVars, Following, Row
<1>4. ASSUME NEW k \in Campaigns,
             (\E at \in {None, now} : Schedule(k, at)) \/ Pause(k) \/ Resume(k) \/ EndCampaign(k)
      PROVE  ChainContinues'
  <2>1. /\ \A o \in Campaigns : /\ campaign'[o].parent = campaign[o].parent
                                /\ campaign'[o].recurring = campaign[o].recurring
                                /\ campaign'[o].launches = campaign[o].launches
        /\ UNCHANGED <<callVars, cut>>
    BY <1>1, <1>4 DEF Schedule, Pause, Resume, EndCampaign, SetStatus, SetCampaign, Row, TypeOK, history
  <2> QED BY <2>1, Quiet DEF callVars, Following
<1>5. CASE Tick \/ TickFind \/ (\E k \in Campaigns : TickLaunch(k)) \/ TickDone
  <2>1. campaign' = campaign /\ cut' = cut
    BY <1>5 DEF Tick, TickFind, FindDue, TickLaunch, TickDone, history
  <2>2. \A d \in Calls : (pc'[d] = "clone") = (pc[d] = "clone") /\ (pc[d] = "clone" => asked'[d] = asked[d])
    BY <1>2, <1>5 DEF Tick, TickFind, FindDue, TickLaunch, TickDone, At, Go, callVars
  <2>3. \A k \in Campaigns : Following(k)' = Following(k)
    BY <2>2 DEF Following
  <2> QED BY <2>1, <2>3, Quiet
<1>6. ASSUME NEW c \in Calls,
             \/ PassPreflight(c) \/ PassRecipients(c) \/ LaunchRefused(c) \/ \E k \in Campaigns : Launch(c, k)
      PROVE  ChainContinues'
  <2>1. campaign' = campaign /\ cut' = cut
    BY <1>6 DEF PassPreflight, Passed, PassRecipients, LaunchRefused, Launch, history
  <2>2. /\ pc[c] # "clone" /\ pc'[c] # "clone"
        /\ \A d \in Calls \ {c} : pc'[d] = pc[d] /\ asked'[d] = asked[d]
    BY <1>2, <1>6 DEF PassPreflight, Passed, PassRecipients, LaunchRefused, Launch, At, Go, Finish
  <2>3. \A k \in Campaigns : Following(k)' = Following(k)
    BY <2>2 DEF Following
  <2> QED BY <2>1, <2>3, Quiet
<1>7. ASSUME NEW c \in Calls, CallDies(c) \/ CloneOut(c)
      PROVE  ChainContinues'
  <2>1. /\ campaign' = campaign /\ cut \subseteq cut'
        /\ pc[c] = "clone" => asked[c] \in cut'
    BY <1>7 DEF CallDies, CloneOut, At, MyCampaign
  <2>2. /\ pc'[c] # "clone"
        /\ \A d \in Calls \ {c} : pc'[d] = pc[d] /\ asked'[d] = asked[d]
    BY <1>2, <1>7 DEF CallDies, CloneOut, At, Go, Finish
  <2>3. \A k \in Campaigns \ cut' : Following(k)' = Following(k)
    BY <2>1, <2>2 DEF Following
  <2> QED BY <2>1, <2>3, Quiet
<1> QED BY <1>2, <1>3, <1>4, <1>5, <1>6, <1>7, CreateChain, ActivateChain, CloneChain
        DEF Next, Administrator, Scheduler, LaunchStep, Calls

-----------------------------------------------------------------------------
ProgrammeIInv == ChecksInv /\ ChainContinues

\* A launch knows what it has checked, and every occurrence is accounted for.
THEOREM ProgrammeInductive == Spec => []ProgrammeIInv
<1>1. Init => ProgrammeIInv
  <2> SUFFICES ASSUME Init PROVE ProgrammeIInv
    OBVIOUS
  <2> USE ProgrammeAssumption
  <2>1. \A k \in Campaigns : campaign[k] = NoCampaign
    BY DEF Init
  <2>2. NoCampaign \in Row
    BY DEF NoCampaign, Row
  <2>3. TypeOK
    BY <2>1, <2>2 DEF Init, TypeOK, Row, NoCampaign, Steps
  <2>4. ChecksInv
    BY <2>1, <2>3 DEF Init, ChecksInv, RowOK, CallOK, Made, NoCampaign, Launching
  <2>5. ChainContinues
    BY <2>1 DEF ChainContinues, NoCampaign
  <2> QED BY <2>4, <2>5 DEF ProgrammeIInv
<1>2. ProgrammeIInv /\ [Next]_vars => ProgrammeIInv'
  <2> SUFFICES ASSUME ProgrammeIInv, [Next]_vars PROVE ProgrammeIInv'
    OBVIOUS
  <2>1. CASE UNCHANGED vars
    BY <2>1 DEF vars, callVars, history, ProgrammeIInv, ChecksInv, TypeOK, RowOK, CallOK, Made, Preflight,
                Mailable, ChainContinues, Occurrences, Following
  <2>2. CASE Next
    BY <2>2, ChecksKept, ChainKept DEF ProgrammeIInv
  <2> QED BY <2>1, <2>2
<1> QED BY <1>1, <1>2, PTL DEF Spec

\* Every launch of a recurring campaign is followed by exactly one occurrence, once the
\* call that makes it is done.
THEOREM OccurrencesAccounted == Spec => []ProgrammeInv
<1>1. ProgrammeIInv => ProgrammeInv
  BY DEF ProgrammeIInv, ChecksInv, ProgrammeInv
<1> QED BY <1>1, ProgrammeInductive, PTL

\* Whoever launches sends only when nothing of the checklist is outstanding, unless it
\* was taken back after the launch had asked.
THEOREM OnlyReadyLaunch == Spec => LaunchesReady
<1>1. ProgrammeIInv /\ [Next]_vars => [LaunchReady]_vars
  <2> SUFFICES ASSUME ProgrammeIInv, NEW k \in Campaigns, NEW c \in Calls, pc[c] = "activate",
                      asked[c] = k, c \notin stale
               PROVE  Checklist = {}
    BY DEF LaunchReady
  <2>1. Preflight(k) /\ Mailable /\ RowOK(k)
    BY DEF ProgrammeIInv, ChecksInv, CallOK
  <2> QED BY <2>1 DEF Preflight, Mailable, RowOK, Checklist, Facts
<1> QED BY <1>1, ProgrammeInductive, PTL DEF Spec, LaunchesReady
=============================================================================
