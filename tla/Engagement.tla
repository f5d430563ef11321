----------------------------- MODULE Engagement -----------------------------
(***************************************************************************)
(* What one recipient does with the simulations they were mailed, and the  *)
(* training that follows.  Their send rows and training assignments are    *)
(* written by concurrent calls: the tracking endpoints, the forwarding     *)
(* address, and an administrator's training screens.  No call holds a      *)
(* transaction, so each awaited query is a step.  A metrics report reads   *)
(* the same rows with several queries at once.                             *)
(***************************************************************************)
EXTENDS Naturals, FiniteSets

CONSTANTS
  Sends,       \* the simulations mailed to the recipient
  Calls,       \* calls that may be in progress at once
  Modules,     \* training modules of the tenant
  Operations,  \* the operations callers use
  MaxTime,     \* bound: the clock stops here
  MaxRows,     \* bound: assignments per module without a source send
  MaxFaults,   \* bound: calls that die half-way
  None         \* no send, no module

ASSUME EngagementAssumption ==
  /\ Operations \subseteq {"open", "click", "moment", "report", "forward",
                           "submit", "assign", "enrol", "complete", "rule",
                           "metrics", "stamp"}
  /\ MaxTime \in Nat \ {0} /\ MaxRows \in Nat /\ MaxFaults \in Nat
  /\ None \notin Sends \cup Modules
  /\ IsFiniteSet(Sends) /\ IsFiniteSet(Calls)

VARIABLES
  now,          \* the clock
  sent,         \* send.sentAt is set
  openedAt, clickedAt, reportedAt,  \* of each send; 0 is null
  credentials,  \* send.credentialsSubmitted
  submissions,  \* sends with a credential_submissions row
  forwarded,    \* sends with a phish_reports row
  rule,         \* the module the scenario routes to
  open, done,   \* assignments per module and source, outstanding and complete
  pc, target, chosen,  \* calls: next step, their send, their module
  unread, figures,     \* the metrics report: figures to read, figures read
  dropped, faults      \* sends whose call died half-way, deaths so far

vars == <<now, sent, openedAt, clickedAt, reportedAt, credentials, submissions,
          forwarded, rule, open, done, pc, target, chosen, unread, figures,
          dropped, faults>>
marks      == <<openedAt, clickedAt, reportedAt, credentials>>
evidence   == <<sent, submissions, forwarded>>
training   == <<rule, open, done>>
callVars   == <<pc, target, chosen>>
reportVars == <<unread, figures>>
faultVars  == <<dropped, faults>>

Sources == Sends \cup {None}
Figures == {"sent", "opened", "clicked", "submitted"}
Steps   == {"idle", "open", "clickMark", "clickOpen", "momentMark",
            "momentOpen", "reportRead", "reportMark", "reportOpen",
            "forwardRecord", "forwardCredit", "submitCreate", "submitFlag",
            "submitClick", "submitOpen", "ruleRead", "assignRead",
            "assignCreate", "manualCreate"}
Times   == 0 .. MaxTime

TypeOK ==
  /\ now \in 1 .. MaxTime
  /\ sent \in [Sends -> BOOLEAN]
  /\ openedAt \in [Sends -> Times]
  /\ clickedAt \in [Sends -> Times]
  /\ reportedAt \in [Sends -> Times]
  /\ credentials \in [Sends -> BOOLEAN]
  /\ submissions \subseteq Sends
  /\ forwarded \subseteq Sends
  /\ rule \in Modules \cup {None}
  /\ open \in [Modules -> [Sources -> Nat]]
  /\ done \in [Modules -> [Sources -> Nat]]
  /\ pc \in [Calls -> Steps]
  /\ target \in [Calls -> Sources]
  /\ chosen \in [Calls -> Modules \cup {None}]
  /\ unread \subseteq Figures
  /\ figures \in [Figures -> Nat]
  /\ dropped \subseteq Sources
  /\ faults \in Nat

Init ==
  /\ now = 1
  /\ sent = [s \in Sends |-> FALSE]
  /\ openedAt = [s \in Sends |-> 0]
  /\ clickedAt = [s \in Sends |-> 0]
  /\ reportedAt = [s \in Sends |-> 0]
  /\ credentials = [s \in Sends |-> FALSE]
  /\ submissions = {} /\ forwarded = {}
  /\ rule \in Modules \cup {None}
  /\ open = [m \in Modules |-> [x \in Sources |-> 0]]
  /\ done = [m \in Modules |-> [x \in Sources |-> 0]]
  /\ pc = [c \in Calls |-> "idle"]
  /\ target = [c \in Calls |-> None]
  /\ chosen = [c \in Calls |-> None]
  /\ unread = Figures /\ figures = [f \in Figures |-> 0]
  /\ dropped = {} /\ faults = 0

-----------------------------------------------------------------------------
(* Steps of a call.  A definition named like the next one with a suffix is
   that definition with one mistake in it, to show which property notices. *)

Start(c, op, step, s) ==
  /\ op \in Operations
  /\ pc[c] = "idle"
  /\ pc' = [pc EXCEPT ![c] = step]
  /\ target' = [target EXCEPT ![c] = s]
  /\ UNCHANGED <<now, marks, evidence, training, chosen, reportVars, faultVars>>

Goto(c, step) == pc' = [pc EXCEPT ![c] = step] /\ UNCHANGED <<target, chosen>>

\* The call returns or throws: its locals are gone.
Finish(c) ==
  /\ pc' = [pc EXCEPT ![c] = "idle"]
  /\ target' = [target EXCEPT ![c] = None]
  /\ chosen' = [chosen EXCEPT ![c] = None]

FirstAlways(at, s) == [at EXCEPT ![s] = now]

\* updateMany({ where: { id, <field>: null } }): the first time is kept.
First(at, s) == [at EXCEPT ![s] = IF @ = 0 THEN now ELSE @]

MarkOpened(c) ==
  /\ openedAt' = First(openedAt, target[c])
  /\ Finish(c)
  /\ UNCHANGED <<now, clickedAt, reportedAt, credentials, evidence, training,
                 reportVars, faultVars>>

MarkClicked(c, next) ==
  /\ clickedAt' = First(clickedAt, target[c])
  /\ Goto(c, next)
  /\ UNCHANGED <<now, openedAt, reportedAt, credentials, evidence, training,
                 reportVars, faultVars>>

Open(c) ==
  \/ \E s \in Sends : Start(c, "open", "open", s)
  \/ pc[c] = "open" /\ MarkOpened(c)

Click(c) ==
  \/ \E s \in Sends : Start(c, "click", "clickMark", s)
  \/ pc[c] = "clickMark" /\ MarkClicked(c, "clickOpen")
  \/ pc[c] = "clickOpen" /\ MarkOpened(c)

\* getTeachableMoment is recordClick.
Moment(c) ==
  \/ \E s \in Sends : Start(c, "moment", "momentMark", s)
  \/ pc[c] = "momentMark" /\ MarkClicked(c, "momentOpen")
  \/ pc[c] = "momentOpen" /\ MarkOpened(c)

-----------------------------------------------------------------------------
(* Reporting: the button, and the forwarding address *)

ReportReadLate(c) ==
  /\ pc[c] = "reportRead"
  /\ IF reportedAt[target[c]] = 0 THEN Goto(c, "reportMark") ELSE Finish(c)
  /\ UNCHANGED <<now, marks, evidence, training, reportVars, faultVars>>

ReportRead(c) ==
  /\ pc[c] = "reportRead"
  /\ IF reportedAt[target[c]] = 0 /\ clickedAt[target[c]] = 0
     THEN Goto(c, "reportMark") ELSE Finish(c)
  /\ UNCHANGED <<now, marks, evidence, training, reportVars, faultVars>>

\* The update asks again that reportedAt is null, not that clickedAt is.
ReportMark(c) ==
  /\ pc[c] = "reportMark"
  /\ reportedAt' = First(reportedAt, target[c])
  /\ Goto(c, "reportOpen")
  /\ UNCHANGED <<now, openedAt, clickedAt, credentials, evidence, training,
                 reportVars, faultVars>>

Report(c) ==
  \/ \E s \in Sends : Start(c, "report", "reportRead", s)
  \/ ReportRead(c)
  \/ ReportMark(c)
  \/ pc[c] = "reportOpen" /\ MarkOpened(c)

\* Only the real recipient, from an authenticated address, is eligible.
ForwardRecord(c) ==
  /\ pc[c] = "forwardRecord"
  /\ forwarded' = forwarded \cup {target[c]}
  /\ Goto(c, "forwardCredit") \/ Finish(c)
  /\ UNCHANGED <<now, marks, sent, submissions, training, reportVars, faultVars>>

ForwardCredit(c) ==
  LET s == target[c] IN
  /\ pc[c] = "forwardCredit"
  /\ reportedAt' = IF clickedAt[s] = 0 THEN First(reportedAt, s) ELSE reportedAt
  /\ Finish(c)
  /\ UNCHANGED <<now, openedAt, clickedAt, credentials, evidence, training,
                 reportVars, faultVars>>

Forward(c) ==
  \/ \E s \in Sends : Start(c, "forward", "forwardRecord", s)
  \/ ForwardRecord(c)
  \/ ForwardCredit(c)

-----------------------------------------------------------------------------
(* Credential submission, and the assignment it ends in *)

SubmitCreate(c) ==
  /\ pc[c] = "submitCreate"
  /\ submissions' = submissions \cup {target[c]}
  /\ Goto(c, "submitFlag")
  /\ UNCHANGED <<now, marks, sent, forwarded, training, reportVars, faultVars>>

SubmitFlag(c) ==
  /\ pc[c] = "submitFlag"
  /\ credentials' = [credentials EXCEPT ![target[c]] = TRUE]
  /\ Goto(c, "submitClick")
  /\ UNCHANGED <<now, openedAt, clickedAt, reportedAt, evidence, training,
                 reportVars, faultVars>>

SubmitOpenEarly(c) ==
  /\ pc[c] = "submitOpen"
  /\ Goto(c, "ruleRead")
  /\ UNCHANGED <<now, marks, evidence, training, reportVars, faultVars>>

SubmitOpen(c) ==
  /\ pc[c] = "submitOpen"
  /\ openedAt' = First(openedAt, target[c])
  /\ Goto(c, "ruleRead")
  /\ UNCHANGED <<now, clickedAt, reportedAt, credentials, evidence, training,
                 reportVars, faultVars>>

RuleRead(c) ==
  /\ pc[c] = "ruleRead"
  /\ \/ /\ rule # None
        /\ pc' = [pc EXCEPT ![c] = "assignRead"]
        /\ chosen' = [chosen EXCEPT ![c] = rule]
        /\ UNCHANGED target
     \/ rule = None /\ Finish(c)
  /\ UNCHANGED <<now, marks, evidence, training, reportVars, faultVars>>

Rows(m, x) == open[m][x] + done[m][x]

Outstanding(m) == \E x \in Sources : open[m][x] # 0

AssignReadAnySource(c) ==
  /\ pc[c] = "assignRead"
  /\ IF ~Outstanding(chosen[c]) THEN Goto(c, "assignCreate") ELSE Finish(c)
  /\ UNCHANGED <<now, marks, evidence, training, reportVars, faultVars>>

AssignRead(c) ==
  /\ pc[c] = "assignRead"
  /\ IF Rows(chosen[c], target[c]) = 0 THEN Goto(c, "assignCreate") ELSE Finish(c)
  /\ UNCHANGED <<now, marks, evidence, training, reportVars, faultVars>>

Insert(m, x) == open' = [open EXCEPT ![m][x] = @ + 1]

AssignCreateUnkeyed(c) ==
  /\ pc[c] = "assignCreate"
  /\ Insert(chosen[c], target[c])
  /\ Finish(c)
  /\ UNCHANGED <<now, marks, evidence, rule, done, reportVars, faultVars>>

\* The unique key on employee, module and source send refuses a second row,
\* and the call throws.
AssignCreate(c) ==
  /\ pc[c] = "assignCreate"
  /\ \/ Rows(chosen[c], target[c]) = 0 /\ Insert(chosen[c], target[c])
     \/ Rows(chosen[c], target[c]) # 0 /\ UNCHANGED open
  /\ Finish(c)
  /\ UNCHANGED <<now, marks, evidence, rule, done, reportVars, faultVars>>

Submit(c) ==
  \/ \E s \in Sends : Start(c, "submit", "submitCreate", s)
  \/ SubmitCreate(c)
  \/ SubmitFlag(c)
  \/ pc[c] = "submitClick" /\ MarkClicked(c, "submitOpen")
  \/ SubmitOpen(c)
  \/ RuleRead(c)
  \/ AssignRead(c)
  \/ AssignCreate(c)

-----------------------------------------------------------------------------
(* Training screens.  A null source send escapes the unique key. *)

Creating(m) == {c \in Calls : pc[c] = "manualCreate" /\ chosen[c] = m}

Choose(c, op, m) ==
  /\ op \in Operations
  /\ Rows(m, None) + Cardinality(Creating(m)) < MaxRows
  /\ pc[c] = "idle"
  /\ pc' = [pc EXCEPT ![c] = "manualCreate"]
  /\ chosen' = [chosen EXCEPT ![c] = m]
  /\ UNCHANGED <<now, marks, evidence, training, target, reportVars, faultVars>>

\* assignManual: skipped when the module is outstanding from any source.
ManualRead(c, m) == ~Outstanding(m) /\ Choose(c, "assign", m)

RepeatClicker == Cardinality({s \in Sends : clickedAt[s] # 0}) >= 2

\* autoEnrolRepeatClickers: skipped when ever assigned without a source.
EnrolRead(c, m) ==
  RepeatClicker /\ Rows(m, None) = 0 /\ Choose(c, "enrol", m)

ManualCreate(c) ==
  /\ pc[c] = "manualCreate"
  /\ Insert(chosen[c], None)
  /\ Finish(c)
  /\ UNCHANGED <<now, marks, evidence, rule, done, reportVars, faultVars>>

Manual(c) ==
  \/ \E m \in Modules : ManualRead(c, m) \/ EnrolRead(c, m)
  \/ ManualCreate(c)

\* markComplete, and a passed quiz.
Complete(m, x) ==
  /\ "complete" \in Operations
  /\ open[m][x] # 0
  /\ open' = [open EXCEPT ![m][x] = @ - 1]
  /\ done' = [done EXCEPT ![m][x] = @ + 1]
  /\ UNCHANGED <<now, marks, evidence, rule, callVars, reportVars, faultVars>>

\* upsertRule and deleteRule.
Route(m) ==
  /\ "rule" \in Operations
  /\ rule' = m
  /\ UNCHANGED <<now, marks, evidence, open, done, callVars, reportVars, faultVars>>

-----------------------------------------------------------------------------
(* The campaign report, and the world around *)

ReachedExactly(f) ==
  {s \in Sends :
    /\ sent[s]
    /\ f = "opened" => openedAt[s] # 0 /\ clickedAt[s] = 0
    /\ f = "clicked" => clickedAt[s] # 0 /\ ~credentials[s]
    /\ f = "submitted" => credentials[s]}

\* "Reached at least this far", over delivered sends.
Reached(f) ==
  {s \in Sends :
    /\ sent[s]
    /\ f = "opened" => openedAt[s] # 0 \/ clickedAt[s] # 0 \/ credentials[s]
                         \/ reportedAt[s] # 0
    /\ f = "clicked" => clickedAt[s] # 0 \/ credentials[s]
    /\ f = "submitted" => credentials[s]}

\* metrics: the counts are queries of one Promise.all, in any order.
ReadFigure(f) ==
  /\ "metrics" \in Operations
  /\ f \in unread
  /\ unread' = unread \ {f}
  /\ figures' = [figures EXCEPT ![f] = Cardinality(Reached(f))]
  /\ UNCHANGED <<now, marks, evidence, training, callVars, faultVars>>

NewReport ==
  /\ unread = {}
  /\ unread' = Figures
  /\ figures' = [f \in Figures |-> 0]
  /\ UNCHANGED <<now, marks, evidence, training, callVars, faultVars>>

\* The send processor's stamp, after the mail that carried the token.
Stamp(s) ==
  /\ "stamp" \in Operations
  /\ ~sent[s]
  /\ sent' = [sent EXCEPT ![s] = TRUE]
  /\ UNCHANGED <<now, marks, submissions, forwarded, training, callVars,
                 reportVars, faultVars>>

Tick ==
  /\ now < MaxTime
  /\ now' = now + 1
  /\ UNCHANGED <<marks, evidence, training, callVars, reportVars, faultVars>>

CallDies(c) ==
  /\ pc[c] # "idle"
  /\ faults < MaxFaults
  /\ faults' = faults + 1
  /\ dropped' = dropped \cup {target[c]}
  /\ Finish(c)
  /\ UNCHANGED <<now, marks, evidence, training, reportVars>>

Call(c) == \/ Open(c) \/ Click(c) \/ Moment(c) \/ Report(c) \/ Forward(c)
           \/ Submit(c) \/ Manual(c)

Next ==
  \/ \E c \in Calls : Call(c) \/ CallDies(c)
  \/ \E m \in Modules, x \in Sources : Complete(m, x)
  \/ \E m \in Modules \cup {None} : Route(m)
  \/ \E f \in Figures : ReadFigure(f)
  \/ NewReport
  \/ \E s \in Sends : Stamp(s)
  \/ Tick

Spec == Init /\ [][Next]_vars

-----------------------------------------------------------------------------
(* Properties *)

Busy(s, steps) == \E c \in Calls : target[c] = s /\ pc[c] \in steps

\* "The funnel stays hierarchical": a submission implies a click and a click
\* an open, in the rows themselves, as soon as no call that is about to
\* backfill is in progress; only a call that died can leave a gap.
FunnelNested ==
  \A s \in Sends \ dropped :
    /\ s \in submissions => credentials[s] \/ Busy(s, {"submitFlag"})
    /\ credentials[s] => clickedAt[s] # 0 \/ Busy(s, {"submitClick"})
    /\ clickedAt[s] # 0 => openedAt[s] # 0 \/
         Busy(s, {"clickOpen", "momentOpen", "submitOpen"})

\* A late report earns nothing: once a send is clicked and no report that was
\* checked before the click is in progress, its credit is settled for ever.
CreditSettled(s) == clickedAt[s] # 0 /\ ~Busy(s, {"reportMark"})
CreditSettles ==
  [][\A s \in Sends : CreditSettled(s) =>
        CreditSettled(s)' /\ reportedAt'[s] = reportedAt[s]]_vars

\* "First open wins; later opens are not overwritten", likewise clicks and
\* reports, whatever calls run side by side.
Kept(at) == \A s \in Sends : at[s] # 0 => at'[s] = at[s]
FirstWins == [][Kept(openedAt) /\ Kept(clickedAt) /\ Kept(reportedAt)]_vars

\* Concurrent submissions for one send never assign the same module twice.
OnePerSend == \A m \in Modules, s \in Sends : Rows(m, s) <= 1

\* Whoever submitted credentials has the routed module assigned for that
\* send, or a call is on its way to it or died, as long as the rule stood.
SubmitAssigns ==
  "rule" \notin Operations /\ rule # None =>
    \A s \in Sends \ dropped : s \in submissions =>
       \/ Rows(rule, s) = 1
       \/ Busy(s, {"submitFlag", "submitClick", "submitOpen", "ruleRead",
                   "assignRead", "assignCreate"})

\* The unguarded check-then-create of the training screens can duplicate an
\* outstanding module, but never beyond the calls that raced.
DuplicatesBounded == \A m \in Modules : open[m][None] <= Cardinality(Calls)

\* A report never overstates: whatever happens while its figures are counted
\* and after, no figure exceeds what the rows say now, because "reached at
\* least this far" is never taken back.
NeverOverstated ==
  \A f \in Figures \ unread : figures[f] <= Cardinality(Reached(f))

-----------------------------------------------------------------------------
(* The inductive invariant *)

\* Only the submission and the training screens hold a module; every step
\* but the latter's has its send.
CallInv ==
  \A c \in Calls :
    /\ pc[c] \in {"assignRead", "assignCreate", "manualCreate"} => chosen[c] # None
    /\ pc[c] \notin {"idle", "manualCreate"} => target[c] # None
    /\ pc[c] \in {"idle", "manualCreate"} => target[c] = None

EngagementInv == TypeOK /\ CallInv /\ FunnelNested /\ OnePerSend
=============================================================================
