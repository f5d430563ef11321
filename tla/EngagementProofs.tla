-------------------------- MODULE EngagementProofs --------------------------
(***************************************************************************)
(* Proofs about Engagement for any number of sends, calls and modules.     *)
(***************************************************************************)
EXTENDS Engagement, FiniteSetTheorems, TLAPS

\* The first step of each tracking endpoint.
FirstSteps == {"open", "clickMark", "momentMark", "reportRead",
               "forwardRecord", "submitCreate"}

\* The steps of a call, whichever operation it belongs to.
LEMMA CallCases ==
  ASSUME NEW c \in Calls, Call(c)
  PROVE
    \/ \E s \in Sends, op \in Operations, step \in FirstSteps : Start(c, op, step, s)
    \/ pc[c] \in {"open", "clickOpen", "momentOpen", "reportOpen"} /\ MarkOpened(c)
    \/ pc[c] = "clickMark" /\ MarkClicked(c, "clickOpen")
    \/ pc[c] = "momentMark" /\ MarkClicked(c, "momentOpen")
    \/ pc[c] = "submitClick" /\ MarkClicked(c, "submitOpen")
    \/ ReportRead(c) \/ ReportMark(c) \/ ForwardRecord(c) \/ ForwardCredit(c)
    \/ SubmitCreate(c) \/ SubmitFlag(c) \/ SubmitOpen(c)
    \/ RuleRead(c) \/ AssignRead(c) \/ AssignCreate(c)
    \/ (\E m \in Modules, op \in Operations : Choose(c, op, m))
    \/ ManualCreate(c)
<1>1. CASE Open(c)
  <2>1. CASE \E s \in Sends : Start(c, "open", "open", s)
    BY <2>1 DEF Start, FirstSteps
  <2> QED
    BY <1>1, <2>1 DEF Open
<1>2. CASE Click(c)
  <2>1. CASE \E s \in Sends : Start(c, "click", "clickMark", s)
    BY <2>1 DEF Start, FirstSteps
  <2> QED
    BY <1>2, <2>1 DEF Click
<1>3. CASE Moment(c)
  <2>1. CASE \E s \in Sends : Start(c, "moment", "momentMark", s)
    BY <2>1 DEF Start, FirstSteps
  <2> QED
    BY <1>3, <2>1 DEF Moment
<1>4. CASE Report(c)
  <2>1. CASE \E s \in Sends : Start(c, "report", "reportRead", s)
    BY <2>1 DEF Start, FirstSteps
  <2> QED
    BY <1>4, <2>1 DEF Report
<1>5. CASE Forward(c)
  <2>1. CASE \E s \in Sends : Start(c, "forward", "forwardRecord", s)
    BY <2>1 DEF Start, FirstSteps
  <2> QED
    BY <1>5, <2>1 DEF Forward
<1>6. CASE Submit(c)
  <2>1. CASE \E s \in Sends : Start(c, "submit", "submitCreate", s)
    BY <2>1 DEF Start, FirstSteps
  <2> QED
    BY <1>6, <2>1 DEF Submit
<1>7. CASE Manual(c)
  <2>1. CASE \E m \in Modules : ManualRead(c, m)
    BY <2>1 DEF ManualRead, Choose
  <2>2. CASE \E m \in Modules : EnrolRead(c, m)
    BY <2>2 DEF EnrolRead, Choose
  <2> QED
    BY <1>7, <2>1, <2>2 DEF Manual
<1> QED
  BY <1>1, <1>2, <1>3, <1>4, <1>5, <1>6, <1>7 DEF Call

\* updateMany where the field is null leaves a time in each row.
LEMMA FirstType ==
  ASSUME now \in 1 .. MaxTime, NEW at \in [Sends -> Times], NEW s \in Sends
  PROVE  First(at, s) \in [Sends -> Times]
<1>1. now \in Times
  BY EngagementAssumption DEF Times
<1>2. (IF at[s] = 0 THEN now ELSE at[s]) \in Times
  BY <1>1
<1> QED
  BY <1>2 DEF First

\* A table of assignments with one entry changed.
Put(t, m, x, v) == [t EXCEPT ![m][x] = v]

\* An entry that is a number leaves a table of numbers.
LEMMA PutType ==
  ASSUME NEW t \in [Modules -> [Sources -> Nat]], NEW m \in Modules,
         NEW x \in Sources, NEW v \in Nat
  PROVE  Put(t, m, x, v) \in [Modules -> [Sources -> Nat]]
<1>1. t[m] \in [Sources -> Nat]
  OBVIOUS
<1> DEFINE row == [t[m] EXCEPT ![x] = v]
<1>2. row \in [Sources -> Nat]
  BY <1>1
<1> HIDE DEF row
<1>3. [t EXCEPT ![m] = row] \in [Modules -> [Sources -> Nat]]
  BY <1>2
<1> QED
  BY <1>3 DEF Put, row

\* The assignment tables move by one entry.
LEMMA InsertPuts ==
  ASSUME TypeOK, NEW m \in Modules, NEW x \in Sources, Insert(m, x)
  PROVE  open' = Put(open, m, x, open[m][x] + 1) /\ open[m][x] + 1 \in Nat
BY DEF TypeOK, Insert, Put

\* A completion moves an assignment from one table to the other.
LEMMA CompletePuts ==
  ASSUME TypeOK, NEW m \in Modules, NEW x \in Sources, Complete(m, x)
  PROVE  /\ open' = Put(open, m, x, open[m][x] - 1) /\ open[m][x] - 1 \in Nat
         /\ done' = Put(done, m, x, done[m][x] + 1) /\ done[m][x] + 1 \in Nat
<1>1. open[m][x] \in Nat /\ done[m][x] \in Nat
  BY DEF TypeOK
<1> QED
  BY <1>1 DEF Complete, Put

\* Every step keeps the types.
LEMMA TypeStep == ASSUME TypeOK, CallInv, [Next]_vars PROVE TypeOK'
<1> USE EngagementAssumption DEF TypeOK, CallInv, Steps, Times, Sources
<1>1. ASSUME NEW c \in Calls, NEW s \in Sends, NEW op \in Operations,
            NEW step \in FirstSteps,
            Start(c, op, step, s)
       PROVE  TypeOK'
  BY <1>1 DEF Start, FirstSteps, marks, evidence, training, callVars,
       reportVars, faultVars
<1>2. ASSUME NEW c \in Calls, pc[c] \in {"open", "clickOpen", "momentOpen",
            "reportOpen"},
            MarkOpened(c)
       PROVE  TypeOK'
  <2>1. target[c] \in Sends
    BY <1>2 DEF MarkOpened
  <2>2. openedAt' \in [Sends -> Times]
    BY <1>2, <2>1, FirstType DEF MarkOpened
  <2> QED
    BY <1>2, <2>2 DEF MarkOpened, Goto, Finish, marks, evidence, training,
         callVars, reportVars, faultVars
<1>3. ASSUME NEW c \in Calls, pc[c] = "clickMark", MarkClicked(c, "clickOpen")
       PROVE  TypeOK'
  <2>1. target[c] \in Sends
    BY <1>3 DEF MarkClicked
  <2>2. clickedAt' \in [Sends -> Times]
    BY <1>3, <2>1, FirstType DEF MarkClicked
  <2> QED
    BY <1>3, <2>2 DEF MarkClicked, Goto, Finish, marks, evidence, training,
         callVars, reportVars, faultVars
<1>4. ASSUME NEW c \in Calls, pc[c] = "momentMark", MarkClicked(c, "momentOpen")
       PROVE  TypeOK'
  <2>1. target[c] \in Sends
    BY <1>4 DEF MarkClicked
  <2>2. clickedAt' \in [Sends -> Times]
    BY <1>4, <2>1, FirstType DEF MarkClicked
  <2> QED
    BY <1>4, <2>2 DEF MarkClicked, Goto, Finish, marks, evidence, training,
         callVars, reportVars, faultVars
<1>5. ASSUME NEW c \in Calls, pc[c] = "submitClick", MarkClicked(c, "submitOpen")
       PROVE  TypeOK'
  <2>1. target[c] \in Sends
    BY <1>5 DEF MarkClicked
  <2>2. clickedAt' \in [Sends -> Times]
    BY <1>5, <2>1, FirstType DEF MarkClicked
  <2> QED
    BY <1>5, <2>2 DEF MarkClicked, Goto, Finish, marks, evidence, training,
         callVars, reportVars, faultVars
<1>6. ASSUME NEW c \in Calls, ReportRead(c)
       PROVE  TypeOK'
  BY <1>6, ZenonT(60) DEF ReportRead, Goto, Finish, marks, evidence, training, callVars,
       reportVars, faultVars
<1>7. ASSUME NEW c \in Calls, ReportMark(c)
       PROVE  TypeOK'
  <2>1. target[c] \in Sends
    BY <1>7 DEF ReportMark
  <2>2. reportedAt' \in [Sends -> Times]
    BY <1>7, <2>1, FirstType DEF ReportMark
  <2> QED
    BY <1>7, <2>2 DEF ReportMark, Goto, Finish, marks, evidence, training,
         callVars, reportVars, faultVars
<1>8. ASSUME NEW c \in Calls, ForwardRecord(c)
       PROVE  TypeOK'
  BY <1>8, ZenonT(60) DEF ForwardRecord, Goto, Finish, marks, evidence, training,
       callVars, reportVars, faultVars
<1>9. ASSUME NEW c \in Calls, ForwardCredit(c)
       PROVE  TypeOK'
  <2>1. target[c] \in Sends
    BY <1>9 DEF ForwardCredit
  <2>2. reportedAt' \in [Sends -> Times]
    BY <1>9, <2>1, FirstType DEF ForwardCredit
  <2> QED
    BY <1>9, <2>2 DEF ForwardCredit, Goto, Finish, marks, evidence,
         training, callVars, reportVars, faultVars
<1>10. ASSUME NEW c \in Calls, SubmitCreate(c)
       PROVE  TypeOK'
  BY <1>10 DEF SubmitCreate, Goto, marks, evidence, training, callVars,
       reportVars, faultVars
<1>11. ASSUME NEW c \in Calls, SubmitFlag(c)
       PROVE  TypeOK'
  BY <1>11 DEF SubmitFlag, Goto, marks, evidence, training, callVars,
       reportVars, faultVars
<1>12. ASSUME NEW c \in Calls, SubmitOpen(c)
       PROVE  TypeOK'
  <2>1. target[c] \in Sends
    BY <1>12 DEF SubmitOpen
  <2>2. openedAt' \in [Sends -> Times]
    BY <1>12, <2>1, FirstType DEF SubmitOpen
  <2> QED
    BY <1>12, <2>2 DEF SubmitOpen, Goto, Finish, marks, evidence, training,
         callVars, reportVars, faultVars
<1>13. ASSUME NEW c \in Calls, RuleRead(c)
       PROVE  TypeOK'
  <2>1. CASE rule = None
    BY <1>13, <2>1, ZenonT(60) DEF RuleRead, Finish, marks, evidence, training,
         callVars, reportVars, faultVars
  <2>2. CASE rule # None
    <3>1. pc' \in [Calls -> Steps] /\ chosen' \in [Calls -> Modules \cup {None}]
      BY <1>13, <2>2, SMTT(60) DEF RuleRead
    <3> QED
      BY <1>13, <2>2, <3>1, ZenonT(60) DEF RuleRead, marks, evidence, training,
           reportVars, faultVars
  <2> QED
    BY <1>13, <2>1, <2>2 DEF RuleRead
<1>14. ASSUME NEW c \in Calls, AssignRead(c)
       PROVE  TypeOK'
  BY <1>14, ZenonT(60) DEF AssignRead, Goto, Finish, marks, evidence, training,
       callVars, reportVars, faultVars
<1>15. ASSUME NEW c \in Calls, AssignCreate(c)
       PROVE  TypeOK'
  <2>1. chosen[c] \in Modules /\ target[c] \in Sources
    BY <1>15 DEF AssignCreate
  <2>2. open' \in [Modules -> [Sources -> Nat]]
    <3>1. CASE Insert(chosen[c], target[c])
      <4>1. /\ open' = Put(open, chosen[c], target[c], open[chosen[c]][target[c]] + 1)
            /\ open[chosen[c]][target[c]] + 1 \in Nat
        BY <2>1, <3>1, InsertPuts
      <4>2. open \in [Modules -> [Sources -> Nat]]
        OBVIOUS
      <4> QED
        BY <2>1, <4>1, <4>2, PutType
    <3>2. CASE UNCHANGED open
      BY <3>2
    <3> QED
      BY <1>15, <3>1, <3>2 DEF AssignCreate
  <2> QED
    BY <1>15, <2>2 DEF AssignCreate, Finish, marks, evidence, training,
         callVars, reportVars, faultVars
<1>16. ASSUME NEW c \in Calls, NEW m \in Modules, NEW op \in Operations, Choose(c, op,
            m)
       PROVE  TypeOK'
  BY <1>16 DEF Choose, marks, evidence, training, callVars, reportVars,
       faultVars
<1>17. ASSUME NEW c \in Calls, ManualCreate(c)
       PROVE  TypeOK'
  <2>1. chosen[c] \in Modules /\ None \in Sources
    BY <1>17 DEF ManualCreate
  <2>2. open' \in [Modules -> [Sources -> Nat]]
    <3>1. CASE Insert(chosen[c], None)
      <4>1. /\ open' = Put(open, chosen[c], None, open[chosen[c]][None] + 1)
            /\ open[chosen[c]][None] + 1 \in Nat
        BY <2>1, <3>1, InsertPuts
      <4>2. open \in [Modules -> [Sources -> Nat]]
        OBVIOUS
      <4> QED
        BY <2>1, <4>1, <4>2, PutType
    <3>2. CASE UNCHANGED open
      BY <3>2
    <3> QED
      BY <1>17, <3>1, <3>2 DEF ManualCreate
  <2> QED
    BY <1>17, <2>2 DEF ManualCreate, Finish, marks, evidence, training,
         callVars, reportVars, faultVars
<1>18. ASSUME NEW c \in Calls, CallDies(c)
       PROVE  TypeOK'
  <2>1. dropped' \subseteq Sources
    BY <1>18 DEF CallDies
  <2>2. faults' \in Nat
    BY <1>18 DEF CallDies
  <2> QED
    BY <1>18, <2>1, <2>2 DEF CallDies, Finish, marks, evidence, training, reportVars
<1>19. ASSUME NEW m \in Modules, NEW x \in Sources, Complete(m, x)
       PROVE  TypeOK'
  <2>1. /\ open' = Put(open, m, x, open[m][x] - 1) /\ open[m][x] - 1 \in Nat
        /\ done' = Put(done, m, x, done[m][x] + 1) /\ done[m][x] + 1 \in Nat
    BY <1>19, CompletePuts
  <2>2. {open, done} \subseteq [Modules -> [Sources -> Nat]]
    OBVIOUS
  <2>3. open' \in [Modules -> [Sources -> Nat]]
    BY <1>19, <2>1, <2>2, PutType
  <2>4. done' \in [Modules -> [Sources -> Nat]]
    BY <1>19, <2>1, <2>2, PutType
  <2> QED
    BY <1>19, <2>3, <2>4 DEF Complete, marks, evidence, callVars,
         reportVars, faultVars
<1>20. ASSUME NEW m \in Modules \cup {None}, Route(m)
       PROVE  TypeOK'
  BY <1>20 DEF Route, marks, evidence, training, callVars, reportVars,
       faultVars
<1>21. ASSUME NEW f \in Figures, ReadFigure(f)
       PROVE  TypeOK'
  <2>1. IsFiniteSet(Reached(f))
    BY FS_Subset DEF Reached
  <2>2. Cardinality(Reached(f)) \in Nat
    BY <2>1, FS_CardinalityType
  <2> QED
    BY <1>21, <2>2 DEF ReadFigure, marks, evidence, training, callVars,
         reportVars, faultVars
<1>22. ASSUME NewReport
       PROVE  TypeOK'
  BY <1>22 DEF NewReport, marks, evidence, training, callVars, reportVars,
       faultVars
<1>23. ASSUME NEW s \in Sends, Stamp(s)
       PROVE  TypeOK'
  BY <1>23 DEF Stamp, marks, evidence, training, callVars, reportVars,
       faultVars
<1>24. ASSUME Tick
       PROVE  TypeOK'
  <2>1. now' \in 1 .. MaxTime
    BY <1>24 DEF Tick
  <2> QED
    BY <1>24, <2>1 DEF Tick, marks, evidence, training, callVars,
         reportVars, faultVars
<1>25. ASSUME UNCHANGED vars
       PROVE  TypeOK'
  BY <1>25 DEF vars, marks, evidence, training, callVars, reportVars,
       faultVars
<1>26. ASSUME NEW c \in Calls, Call(c) PROVE TypeOK'
  BY <1>26, CallCases, <1>1, <1>2, <1>3, <1>4, <1>5, <1>6, <1>7, <1>8, <1>9,
       <1>10, <1>11, <1>12, <1>13, <1>14, <1>15, <1>16, <1>17
<1> QED
  BY <1>26, <1>18, <1>19, <1>20, <1>21, <1>22, <1>23, <1>24, <1>25 DEF Next

\* A call keeps its send and its module as long as it needs them.
LEMMA CallInvStep == ASSUME TypeOK, CallInv, [Next]_vars PROVE CallInv'
<1> USE EngagementAssumption DEF TypeOK, CallInv, Sources
<1>1. ASSUME NEW c \in Calls, NEW s \in Sends, NEW op \in Operations,
            NEW step \in FirstSteps,
            Start(c, op, step, s)
       PROVE  CallInv'
  BY <1>1 DEF Start, FirstSteps, marks, evidence, training, callVars,
       reportVars, faultVars
<1>2. ASSUME NEW c \in Calls, pc[c] \in {"open", "clickOpen", "momentOpen",
            "reportOpen"},
            MarkOpened(c)
       PROVE  CallInv'
  BY <1>2 DEF MarkOpened, First, Finish, marks, evidence, training,
       callVars, reportVars, faultVars
<1>3. ASSUME NEW c \in Calls, pc[c] = "clickMark", MarkClicked(c, "clickOpen")
       PROVE  CallInv'
  BY <1>3 DEF MarkClicked, First, Goto, marks, evidence, training, callVars,
       reportVars, faultVars
<1>4. ASSUME NEW c \in Calls, pc[c] = "momentMark", MarkClicked(c, "momentOpen")
       PROVE  CallInv'
  BY <1>4 DEF MarkClicked, First, Goto, marks, evidence, training, callVars,
       reportVars, faultVars
<1>5. ASSUME NEW c \in Calls, pc[c] = "submitClick", MarkClicked(c, "submitOpen")
       PROVE  CallInv'
  BY <1>5 DEF MarkClicked, First, Goto, marks, evidence, training, callVars,
       reportVars, faultVars
<1>6. ASSUME NEW c \in Calls, ReportRead(c)
       PROVE  CallInv'
  BY <1>6 DEF ReportRead, Goto, Finish, marks, evidence, training, callVars,
       reportVars, faultVars
<1>7. ASSUME NEW c \in Calls, ReportMark(c)
       PROVE  CallInv'
  BY <1>7 DEF ReportMark, First, Goto, marks, evidence, training, callVars,
       reportVars, faultVars
<1>8. ASSUME NEW c \in Calls, ForwardRecord(c)
       PROVE  CallInv'
  BY <1>8 DEF ForwardRecord, Goto, Finish, marks, evidence, training,
       callVars, reportVars, faultVars
<1>9. ASSUME NEW c \in Calls, ForwardCredit(c)
       PROVE  CallInv'
  BY <1>9 DEF ForwardCredit, First, Finish, marks, evidence, training,
       callVars, reportVars, faultVars
<1>10. ASSUME NEW c \in Calls, SubmitCreate(c)
       PROVE  CallInv'
  BY <1>10 DEF SubmitCreate, Goto, marks, evidence, training, callVars,
       reportVars, faultVars
<1>11. ASSUME NEW c \in Calls, SubmitFlag(c)
       PROVE  CallInv'
  BY <1>11 DEF SubmitFlag, Goto, marks, evidence, training, callVars,
       reportVars, faultVars
<1>12. ASSUME NEW c \in Calls, SubmitOpen(c)
       PROVE  CallInv'
  BY <1>12 DEF SubmitOpen, First, Goto, marks, evidence, training, callVars,
       reportVars, faultVars
<1>13. ASSUME NEW c \in Calls, RuleRead(c)
       PROVE  CallInv'
  BY <1>13 DEF RuleRead, Finish, marks, evidence, training, callVars,
       reportVars, faultVars
<1>14. ASSUME NEW c \in Calls, AssignRead(c)
       PROVE  CallInv'
  BY <1>14 DEF AssignRead, Goto, Finish, marks, evidence, training,
       callVars, reportVars, faultVars
<1>15. ASSUME NEW c \in Calls, AssignCreate(c)
       PROVE  CallInv'
  BY <1>15 DEF AssignCreate, Insert, Finish, marks, evidence, training,
       callVars, reportVars, faultVars
<1>16. ASSUME NEW c \in Calls, NEW m \in Modules, NEW op \in Operations, Choose(c, op,
            m)
       PROVE  CallInv'
  BY <1>16 DEF Choose, marks, evidence, training, callVars, reportVars,
       faultVars
<1>17. ASSUME NEW c \in Calls, ManualCreate(c)
       PROVE  CallInv'
  BY <1>17 DEF ManualCreate, Insert, Finish, marks, evidence, training,
       callVars, reportVars, faultVars
<1>18. ASSUME NEW c \in Calls, CallDies(c)
       PROVE  CallInv'
  BY <1>18 DEF CallDies, Finish, marks, evidence, training, callVars,
       reportVars, faultVars
<1>19. ASSUME NEW m \in Modules, NEW x \in Sources, Complete(m, x)
       PROVE  CallInv'
  BY <1>19 DEF Complete, marks, evidence, training, callVars, reportVars,
       faultVars
<1>20. ASSUME NEW m \in Modules \cup {None}, Route(m)
       PROVE  CallInv'
  BY <1>20 DEF Route, marks, evidence, training, callVars, reportVars,
       faultVars
<1>21. ASSUME NEW f \in Figures, ReadFigure(f)
       PROVE  CallInv'
  BY <1>21 DEF ReadFigure, marks, evidence, training, callVars, reportVars,
       faultVars
<1>22. ASSUME NewReport
       PROVE  CallInv'
  BY <1>22 DEF NewReport, marks, evidence, training, callVars, reportVars,
       faultVars
<1>23. ASSUME NEW s \in Sends, Stamp(s)
       PROVE  CallInv'
  BY <1>23 DEF Stamp, marks, evidence, training, callVars, reportVars,
       faultVars
<1>24. ASSUME Tick
       PROVE  CallInv'
  BY <1>24 DEF Tick, marks, evidence, training, callVars, reportVars,
       faultVars
<1>25. ASSUME UNCHANGED vars
       PROVE  CallInv'
  BY <1>25 DEF vars, marks, evidence, training, callVars, reportVars,
       faultVars
<1>26. ASSUME NEW c \in Calls, Call(c) PROVE CallInv'
  BY <1>26, CallCases, <1>1, <1>2, <1>3, <1>4, <1>5, <1>6, <1>7, <1>8, <1>9,
       <1>10, <1>11, <1>12, <1>13, <1>14, <1>15, <1>16, <1>17
<1> QED
  BY <1>26, <1>18, <1>19, <1>20, <1>21, <1>22, <1>23, <1>24, <1>25 DEF Next

\* The funnel of a row stays nested around the calls that backfill it.
LEMMA FunnelStep == ASSUME TypeOK, CallInv, FunnelNested, [Next]_vars
  PROVE  FunnelNested'
<1> USE EngagementAssumption DEF TypeOK, CallInv, FunnelNested, Busy, Sources, Times
<1>1. ASSUME NEW c \in Calls, NEW s \in Sends, NEW op \in Operations,
            NEW step \in FirstSteps,
            Start(c, op, step, s)
       PROVE  FunnelNested'
  BY <1>1 DEF Start, FirstSteps, marks, evidence, training, callVars,
       reportVars, faultVars
<1>2. ASSUME NEW c \in Calls, pc[c] \in {"open", "clickOpen", "momentOpen",
            "reportOpen"},
            MarkOpened(c)
       PROVE  FunnelNested'
  BY <1>2 DEF MarkOpened, First, Finish, marks, evidence, training,
       callVars, reportVars, faultVars
<1>3. ASSUME NEW c \in Calls, pc[c] = "clickMark", MarkClicked(c, "clickOpen")
       PROVE  FunnelNested'
  BY <1>3 DEF MarkClicked, First, Goto, marks, evidence, training, callVars,
       reportVars, faultVars
<1>4. ASSUME NEW c \in Calls, pc[c] = "momentMark", MarkClicked(c, "momentOpen")
       PROVE  FunnelNested'
  BY <1>4 DEF MarkClicked, First, Goto, marks, evidence, training, callVars,
       reportVars, faultVars
<1>5. ASSUME NEW c \in Calls, pc[c] = "submitClick", MarkClicked(c, "submitOpen")
       PROVE  FunnelNested'
  BY <1>5 DEF MarkClicked, First, Goto, marks, evidence, training, callVars,
       reportVars, faultVars
<1>6. ASSUME NEW c \in Calls, ReportRead(c)
       PROVE  FunnelNested'
  BY <1>6, SMTT(60) DEF ReportRead, Goto, Finish, marks, evidence, training, callVars,
       reportVars, faultVars
<1>7. ASSUME NEW c \in Calls, ReportMark(c)
       PROVE  FunnelNested'
  BY <1>7 DEF ReportMark, First, Goto, marks, evidence, training, callVars,
       reportVars, faultVars
<1>8. ASSUME NEW c \in Calls, ForwardRecord(c)
       PROVE  FunnelNested'
  BY <1>8, SMTT(60) DEF ForwardRecord, Goto, Finish, marks, evidence, training,
       callVars, reportVars, faultVars
<1>9. ASSUME NEW c \in Calls, ForwardCredit(c)
       PROVE  FunnelNested'
  BY <1>9, SMTT(60) DEF ForwardCredit, First, Finish, marks, evidence, training,
       callVars, reportVars, faultVars
<1>10. ASSUME NEW c \in Calls, SubmitCreate(c)
       PROVE  FunnelNested'
  <2>1. pc'[c] = "submitFlag" /\ target'[c] = target[c]
    BY <1>10 DEF SubmitCreate, Goto
  <2>2. \A d \in Calls : d # c => target'[d] = target[d] /\ pc'[d] = pc[d]
    BY <1>10 DEF SubmitCreate, Goto
  <2>3. \A s \in submissions' : s \in submissions \/ s = target[c]
    BY <1>10 DEF SubmitCreate
  <2>4. UNCHANGED <<marks, dropped>>
    BY <1>10 DEF SubmitCreate, faultVars
  <2>5. pc[c] = "submitCreate"
    BY <1>10 DEF SubmitCreate
  <2> SUFFICES ASSUME NEW s \in Sends \ dropped
               PROVE  /\ s \in submissions' => credentials[s] \/ Busy(s, {"submitFlag"})'
                      /\ credentials[s] => clickedAt[s] # 0 \/ Busy(s, {"submitClick"})'
                      /\ clickedAt[s] # 0 => openedAt[s] # 0 \/
                           Busy(s, {"clickOpen", "momentOpen", "submitOpen"})'
    BY <2>4 DEF marks
  <2>6. Busy(s, {"submitFlag"}) \/ s = target[c] => Busy(s, {"submitFlag"})'
    BY <2>1, <2>2, <2>5
  <2>7. Busy(s, {"submitClick"}) => Busy(s, {"submitClick"})'
    BY <2>1, <2>2, <2>5, SMTT(60)
  <2>8. Busy(s, {"clickOpen", "momentOpen", "submitOpen"}) =>
          Busy(s, {"clickOpen", "momentOpen", "submitOpen"})'
    BY <2>1, <2>2, <2>5, SMTT(60)
  <2> HIDE DEF Busy
  <2> QED
    BY <2>3, <2>6, <2>7, <2>8
<1>11. ASSUME NEW c \in Calls, SubmitFlag(c)
       PROVE  FunnelNested'
  BY <1>11 DEF SubmitFlag, Goto, marks, evidence, training, callVars,
       reportVars, faultVars
<1>12. ASSUME NEW c \in Calls, SubmitOpen(c)
       PROVE  FunnelNested'
  BY <1>12 DEF SubmitOpen, First, Goto, marks, evidence, training, callVars,
       reportVars, faultVars
<1>13. ASSUME NEW c \in Calls, RuleRead(c)
       PROVE  FunnelNested'
  <2>1. \A d \in Calls : d # c => target'[d] = target[d] /\ pc'[d] = pc[d]
    BY <1>13 DEF RuleRead, Finish
  <2>2. UNCHANGED <<marks, submissions, dropped>>
    BY <1>13 DEF RuleRead, faultVars, evidence
  <2>3. pc[c] = "ruleRead"
    BY <1>13 DEF RuleRead
  <2> SUFFICES ASSUME NEW s \in Sends \ dropped
               PROVE  /\ s \in submissions => credentials[s] \/ Busy(s, {"submitFlag"})'
                      /\ credentials[s] => clickedAt[s] # 0 \/ Busy(s, {"submitClick"})'
                      /\ clickedAt[s] # 0 => openedAt[s] # 0 \/
                           Busy(s, {"clickOpen", "momentOpen", "submitOpen"})'
    BY <2>2 DEF marks
  <2>4. Busy(s, {"submitFlag"}) => Busy(s, {"submitFlag"})'
    BY <2>1, <2>3
  <2>5. Busy(s, {"submitClick"}) => Busy(s, {"submitClick"})'
    BY <2>1, <2>3
  <2>6. Busy(s, {"clickOpen", "momentOpen", "submitOpen"}) =>
          Busy(s, {"clickOpen", "momentOpen", "submitOpen"})'
    BY <2>1, <2>3, SMTT(60)
  <2> HIDE DEF Busy
  <2> QED
    BY <2>4, <2>5, <2>6
<1>14. ASSUME NEW c \in Calls, AssignRead(c)
       PROVE  FunnelNested'
  <2>1. \A d \in Calls : d # c => target'[d] = target[d] /\ pc'[d] = pc[d]
    BY <1>14 DEF AssignRead, Goto, Finish
  <2>2. UNCHANGED <<marks, submissions, dropped>>
    BY <1>14 DEF AssignRead, faultVars, evidence
  <2>3. pc[c] = "assignRead"
    BY <1>14 DEF AssignRead
  <2> SUFFICES ASSUME NEW s \in Sends \ dropped
               PROVE  /\ s \in submissions => credentials[s] \/ Busy(s, {"submitFlag"})'
                      /\ credentials[s] => clickedAt[s] # 0 \/ Busy(s, {"submitClick"})'
                      /\ clickedAt[s] # 0 => openedAt[s] # 0 \/
                           Busy(s, {"clickOpen", "momentOpen", "submitOpen"})'
    BY <2>2 DEF marks
  <2>4. Busy(s, {"submitFlag"}) => Busy(s, {"submitFlag"})'
    BY <2>1, <2>3, SMTT(60)
  <2>5. Busy(s, {"submitClick"}) => Busy(s, {"submitClick"})'
    BY <2>1, <2>3, SMTT(60)
  <2>6. Busy(s, {"clickOpen", "momentOpen", "submitOpen"}) =>
          Busy(s, {"clickOpen", "momentOpen", "submitOpen"})'
    BY <2>1, <2>3, SMTT(60)
  <2> HIDE DEF Busy
  <2> QED
    BY <2>4, <2>5, <2>6
<1>15. ASSUME NEW c \in Calls, AssignCreate(c)
       PROVE  FunnelNested'
  BY <1>15 DEF AssignCreate, Insert, Finish, marks, evidence, training,
       callVars, reportVars, faultVars
<1>16. ASSUME NEW c \in Calls, NEW m \in Modules, NEW op \in Operations, Choose(c, op,
            m)
       PROVE  FunnelNested'
  BY <1>16 DEF Choose, marks, evidence, training, callVars, reportVars,
       faultVars
<1>17. ASSUME NEW c \in Calls, ManualCreate(c)
       PROVE  FunnelNested'
  BY <1>17 DEF ManualCreate, Insert, Finish, marks, evidence, training,
       callVars, reportVars, faultVars
<1>18. ASSUME NEW c \in Calls, CallDies(c)
       PROVE  FunnelNested'
  BY <1>18 DEF CallDies, Finish, marks, evidence, training, callVars,
       reportVars, faultVars
<1>19. ASSUME NEW m \in Modules, NEW x \in Sources, Complete(m, x)
       PROVE  FunnelNested'
  BY <1>19 DEF Complete, marks, evidence, training, callVars, reportVars,
       faultVars
<1>20. ASSUME NEW m \in Modules \cup {None}, Route(m)
       PROVE  FunnelNested'
  BY <1>20 DEF Route, marks, evidence, training, callVars, reportVars,
       faultVars
<1>21. ASSUME NEW f \in Figures, ReadFigure(f)
       PROVE  FunnelNested'
  BY <1>21 DEF ReadFigure, marks, evidence, training, callVars, reportVars,
       faultVars
<1>22. ASSUME NewReport
       PROVE  FunnelNested'
  BY <1>22 DEF NewReport, marks, evidence, training, callVars, reportVars,
       faultVars
<1>23. ASSUME NEW s \in Sends, Stamp(s)
       PROVE  FunnelNested'
  BY <1>23 DEF Stamp, marks, evidence, training, callVars, reportVars,
       faultVars
<1>24. ASSUME Tick
       PROVE  FunnelNested'
  BY <1>24 DEF Tick, marks, evidence, training, callVars, reportVars,
       faultVars
<1>25. ASSUME UNCHANGED vars
       PROVE  FunnelNested'
  BY <1>25 DEF vars, marks, evidence, training, callVars, reportVars,
       faultVars
<1>26. ASSUME NEW c \in Calls, Call(c) PROVE FunnelNested'
  BY <1>26, CallCases, <1>1, <1>2, <1>3, <1>4, <1>5, <1>6, <1>7, <1>8, <1>9,
       <1>10, <1>11, <1>12, <1>13, <1>14, <1>15, <1>16, <1>17
<1> QED
  BY <1>26, <1>18, <1>19, <1>20, <1>21, <1>22, <1>23, <1>24, <1>25 DEF Next

\* The unique key holds.
LEMMA OnePerSendStep == ASSUME TypeOK, CallInv, OnePerSend, [Next]_vars
  PROVE  OnePerSend'
<1> USE EngagementAssumption DEF TypeOK, CallInv, OnePerSend, Rows, Sources
<1>1. ASSUME NEW c \in Calls, NEW s \in Sends, NEW op \in Operations,
            NEW step \in FirstSteps,
            Start(c, op, step, s)
       PROVE  OnePerSend'
  BY <1>1 DEF Start, FirstSteps, marks, evidence, training, callVars,
       reportVars, faultVars
<1>2. ASSUME NEW c \in Calls, pc[c] \in {"open", "clickOpen", "momentOpen",
            "reportOpen"},
            MarkOpened(c)
       PROVE  OnePerSend'
  BY <1>2 DEF MarkOpened, First, Finish, marks, evidence, training,
       callVars, reportVars, faultVars
<1>3. ASSUME NEW c \in Calls, pc[c] = "clickMark", MarkClicked(c, "clickOpen")
       PROVE  OnePerSend'
  BY <1>3 DEF MarkClicked, First, Goto, marks, evidence, training, callVars,
       reportVars, faultVars
<1>4. ASSUME NEW c \in Calls, pc[c] = "momentMark", MarkClicked(c, "momentOpen")
       PROVE  OnePerSend'
  BY <1>4 DEF MarkClicked, First, Goto, marks, evidence, training, callVars,
       reportVars, faultVars
<1>5. ASSUME NEW c \in Calls, pc[c] = "submitClick", MarkClicked(c, "submitOpen")
       PROVE  OnePerSend'
  BY <1>5 DEF MarkClicked, First, Goto, marks, evidence, training, callVars,
       reportVars, faultVars
<1>6. ASSUME NEW c \in Calls, ReportRead(c)
       PROVE  OnePerSend'
  BY <1>6 DEF ReportRead, Goto, Finish, marks, evidence, training, callVars,
       reportVars, faultVars
<1>7. ASSUME NEW c \in Calls, ReportMark(c)
       PROVE  OnePerSend'
  BY <1>7 DEF ReportMark, First, Goto, marks, evidence, training, callVars,
       reportVars, faultVars
<1>8. ASSUME NEW c \in Calls, ForwardRecord(c)
       PROVE  OnePerSend'
  BY <1>8 DEF ForwardRecord, Goto, Finish, marks, evidence, training,
       callVars, reportVars, faultVars
<1>9. ASSUME NEW c \in Calls, ForwardCredit(c)
       PROVE  OnePerSend'
  BY <1>9 DEF ForwardCredit, First, Finish, marks, evidence, training,
       callVars, reportVars, faultVars
<1>10. ASSUME NEW c \in Calls, SubmitCreate(c)
       PROVE  OnePerSend'
  BY <1>10 DEF SubmitCreate, Goto, marks, evidence, training, callVars,
       reportVars, faultVars
<1>11. ASSUME NEW c \in Calls, SubmitFlag(c)
       PROVE  OnePerSend'
  BY <1>11 DEF SubmitFlag, Goto, marks, evidence, training, callVars,
       reportVars, faultVars
<1>12. ASSUME NEW c \in Calls, SubmitOpen(c)
       PROVE  OnePerSend'
  BY <1>12 DEF SubmitOpen, First, Goto, marks, evidence, training, callVars,
       reportVars, faultVars
<1>13. ASSUME NEW c \in Calls, RuleRead(c)
       PROVE  OnePerSend'
  BY <1>13 DEF RuleRead, Finish, marks, evidence, training, callVars,
       reportVars, faultVars
<1>14. ASSUME NEW c \in Calls, AssignRead(c)
       PROVE  OnePerSend'
  BY <1>14 DEF AssignRead, Goto, Finish, marks, evidence, training,
       callVars, reportVars, faultVars
<1>15. ASSUME NEW c \in Calls, AssignCreate(c)
       PROVE  OnePerSend'
  <2>1. CASE Rows(chosen[c], target[c]) # 0 /\ UNCHANGED open
    BY <1>15, <2>1 DEF AssignCreate
  <2>2. CASE Rows(chosen[c], target[c]) = 0 /\ Insert(chosen[c], target[c])
    <3>1. chosen[c] \in Modules /\ target[c] \in Sends /\ target[c] \in Sources
      BY <1>15 DEF AssignCreate
    <3>2. open' = Put(open, chosen[c], target[c], open[chosen[c]][target[c]] + 1)
      BY <2>2, <3>1, InsertPuts
    <3>3. open \in [Modules -> [Sources -> Nat]] /\ done' = done
      BY <1>15 DEF AssignCreate
    <3> SUFFICES ASSUME NEW n \in Modules, NEW y \in Sends
                 PROVE  open'[n][y] + done'[n][y] <= 1
      OBVIOUS
    <3>4. open'[n][y] = IF n = chosen[c] /\ y = target[c]
                        THEN open[chosen[c]][target[c]] + 1 ELSE open[n][y]
      BY <3>1, <3>2, <3>3 DEF Put
    <3>5. open[n][y] \in Nat /\ done[n][y] \in Nat /\ open[n][y] + done[n][y] <= 1
      OBVIOUS
    <3> QED
      BY <2>2, <3>3, <3>4, <3>5
  <2> QED
    BY <1>15, <2>1, <2>2 DEF AssignCreate
<1>16. ASSUME NEW c \in Calls, NEW m \in Modules, NEW op \in Operations, Choose(c, op,
            m)
       PROVE  OnePerSend'
  BY <1>16 DEF Choose, marks, evidence, training, callVars, reportVars,
       faultVars
<1>17. ASSUME NEW c \in Calls, ManualCreate(c)
       PROVE  OnePerSend'
  <2>1. chosen[c] \in Modules
    BY <1>17 DEF ManualCreate
  <2>2. open' = Put(open, chosen[c], None, open[chosen[c]][None] + 1)
    BY <1>17, <2>1, InsertPuts DEF ManualCreate
  <2>3. open \in [Modules -> [Sources -> Nat]] /\ done' = done
    BY <1>17 DEF ManualCreate
  <2> SUFFICES ASSUME NEW n \in Modules, NEW y \in Sends
               PROVE  open'[n][y] + done'[n][y] <= 1
    OBVIOUS
  <2>4. open'[n][y] = open[n][y]
    BY <2>1, <2>2, <2>3 DEF Put
  <2> QED
    BY <2>3, <2>4
<1>18. ASSUME NEW c \in Calls, CallDies(c)
       PROVE  OnePerSend'
  BY <1>18 DEF CallDies, Finish, marks, evidence, training, callVars,
       reportVars, faultVars
<1>19. ASSUME NEW m \in Modules, NEW x \in Sources, Complete(m, x)
       PROVE  OnePerSend'
  <2>1. /\ open' = Put(open, m, x, open[m][x] - 1)
        /\ done' = Put(done, m, x, done[m][x] + 1)
    BY <1>19, CompletePuts
  <2>2. {open, done} \subseteq [Modules -> [Sources -> Nat]]
    OBVIOUS
  <2> SUFFICES ASSUME NEW n \in Modules, NEW y \in Sends
               PROVE  open'[n][y] + done'[n][y] <= 1
    OBVIOUS
  <2>3. open'[n][y] = IF n = m /\ y = x THEN open[m][x] - 1 ELSE open[n][y]
    BY <1>19, <2>1, <2>2 DEF Put
  <2>4. done'[n][y] = IF n = m /\ y = x THEN done[m][x] + 1 ELSE done[n][y]
    BY <1>19, <2>1, <2>2 DEF Put
  <2>5. open[n][y] \in Nat /\ done[n][y] \in Nat /\ open[n][y] + done[n][y] <= 1
    OBVIOUS
  <2> QED
    BY <2>3, <2>4, <2>5
<1>20. ASSUME NEW m \in Modules \cup {None}, Route(m)
       PROVE  OnePerSend'
  BY <1>20 DEF Route, marks, evidence, training, callVars, reportVars,
       faultVars
<1>21. ASSUME NEW f \in Figures, ReadFigure(f)
       PROVE  OnePerSend'
  BY <1>21 DEF ReadFigure, marks, evidence, training, callVars, reportVars,
       faultVars
<1>22. ASSUME NewReport
       PROVE  OnePerSend'
  BY <1>22 DEF NewReport, marks, evidence, training, callVars, reportVars,
       faultVars
<1>23. ASSUME NEW s \in Sends, Stamp(s)
       PROVE  OnePerSend'
  BY <1>23 DEF Stamp, marks, evidence, training, callVars, reportVars,
       faultVars
<1>24. ASSUME Tick
       PROVE  OnePerSend'
  BY <1>24 DEF Tick, marks, evidence, training, callVars, reportVars,
       faultVars
<1>25. ASSUME UNCHANGED vars
       PROVE  OnePerSend'
  BY <1>25 DEF vars, marks, evidence, training, callVars, reportVars,
       faultVars
<1>26. ASSUME NEW c \in Calls, Call(c) PROVE OnePerSend'
  BY <1>26, CallCases, <1>1, <1>2, <1>3, <1>4, <1>5, <1>6, <1>7, <1>8, <1>9,
       <1>10, <1>11, <1>12, <1>13, <1>14, <1>15, <1>16, <1>17
<1> QED
  BY <1>26, <1>18, <1>19, <1>20, <1>21, <1>22, <1>23, <1>24, <1>25 DEF Next

\* The inductive invariant of the rows of Engagement: the types, what a
\* call holds, the nested funnel and the unique key.
THEOREM EngagementInvariant == Spec => []EngagementInv
<1> USE EngagementAssumption
<1>1. Init => EngagementInv
  BY DEF Init, EngagementInv, TypeOK, CallInv, FunnelNested, OnePerSend, Busy,
     Rows, Steps, Times, Sources
<1>2. EngagementInv /\ [Next]_vars => EngagementInv'
  BY TypeStep, CallInvStep, FunnelStep, OnePerSendStep DEF EngagementInv
<1> QED
  BY <1>1, <1>2, PTL DEF Spec

\* Type correctness of the model of the send row and its callers.
THEOREM EngagementTypeCorrect == Spec => []TypeOK
<1>1. EngagementInv => TypeOK
  BY DEF EngagementInv
<1> QED
  BY <1>1, EngagementInvariant, PTL

\* recordCredentialSubmission and recordClick (tracking.service.ts) keep the
\* funnel of each row hierarchical, however many calls overlap.
THEOREM FunnelNestedCorrect == Spec => []FunnelNested
<1>1. EngagementInv => FunnelNested
  BY DEF EngagementInv
<1> QED
  BY <1>1, EngagementInvariant, PTL

\* assignFromClick (training.service.ts) never assigns a module twice for
\* one send.
THEOREM OnePerSendCorrect == Spec => []OnePerSend
<1>1. EngagementInv => OnePerSend
  BY DEF EngagementInv
<1> QED
  BY <1>1, EngagementInvariant, PTL

\* A credit, once settled, stays settled at the time it has.
CreditSettledStep ==
  \A s \in Sends : CreditSettled(s) =>
    CreditSettled(s)' /\ reportedAt'[s] = reportedAt[s]

\* A settled credit is not touched by any step.
LEMMA CreditStep == ASSUME TypeOK, CallInv, [Next]_vars PROVE CreditSettledStep
<1> USE EngagementAssumption DEF TypeOK, CallInv, Busy, CreditSettled,
       CreditSettledStep, Sources, Times
<1>1. ASSUME NEW c \in Calls, NEW s \in Sends, NEW op \in Operations,
            NEW step \in FirstSteps,
            Start(c, op, step, s)
       PROVE  CreditSettledStep
  BY <1>1 DEF Start, FirstSteps, marks, evidence, training, callVars,
       reportVars, faultVars
<1>2. ASSUME NEW c \in Calls, pc[c] \in {"open", "clickOpen", "momentOpen",
            "reportOpen"},
            MarkOpened(c)
       PROVE  CreditSettledStep
  BY <1>2 DEF MarkOpened, First, Finish, marks, evidence, training,
       callVars, reportVars, faultVars
<1>3. ASSUME NEW c \in Calls, pc[c] = "clickMark", MarkClicked(c, "clickOpen")
       PROVE  CreditSettledStep
  BY <1>3 DEF MarkClicked, First, Goto, marks, evidence, training, callVars,
       reportVars, faultVars
<1>4. ASSUME NEW c \in Calls, pc[c] = "momentMark", MarkClicked(c, "momentOpen")
       PROVE  CreditSettledStep
  BY <1>4 DEF MarkClicked, First, Goto, marks, evidence, training, callVars,
       reportVars, faultVars
<1>5. ASSUME NEW c \in Calls, pc[c] = "submitClick", MarkClicked(c, "submitOpen")
       PROVE  CreditSettledStep
  BY <1>5 DEF MarkClicked, First, Goto, marks, evidence, training, callVars,
       reportVars, faultVars
<1>6. ASSUME NEW c \in Calls, ReportRead(c)
       PROVE  CreditSettledStep
  BY <1>6 DEF ReportRead, Goto, Finish, marks, evidence, training, callVars,
       reportVars, faultVars
<1>7. ASSUME NEW c \in Calls, ReportMark(c)
       PROVE  CreditSettledStep
  BY <1>7 DEF ReportMark, First, Goto, marks, evidence, training, callVars,
       reportVars, faultVars
<1>8. ASSUME NEW c \in Calls, ForwardRecord(c)
       PROVE  CreditSettledStep
  BY <1>8 DEF ForwardRecord, Goto, Finish, marks, evidence, training,
       callVars, reportVars, faultVars
<1>9. ASSUME NEW c \in Calls, ForwardCredit(c)
       PROVE  CreditSettledStep
  BY <1>9 DEF ForwardCredit, First, Finish, marks, evidence, training,
       callVars, reportVars, faultVars
<1>10. ASSUME NEW c \in Calls, SubmitCreate(c)
       PROVE  CreditSettledStep
  BY <1>10 DEF SubmitCreate, Goto, marks, evidence, training, callVars,
       reportVars, faultVars
<1>11. ASSUME NEW c \in Calls, SubmitFlag(c)
       PROVE  CreditSettledStep
  BY <1>11 DEF SubmitFlag, Goto, marks, evidence, training, callVars,
       reportVars, faultVars
<1>12. ASSUME NEW c \in Calls, SubmitOpen(c)
       PROVE  CreditSettledStep
  BY <1>12 DEF SubmitOpen, First, Goto, marks, evidence, training, callVars,
       reportVars, faultVars
<1>13. ASSUME NEW c \in Calls, RuleRead(c)
       PROVE  CreditSettledStep
  BY <1>13 DEF RuleRead, Finish, marks, evidence, training, callVars,
       reportVars, faultVars
<1>14. ASSUME NEW c \in Calls, AssignRead(c)
       PROVE  CreditSettledStep
  BY <1>14 DEF AssignRead, Goto, Finish, marks, evidence, training,
       callVars, reportVars, faultVars
<1>15. ASSUME NEW c \in Calls, AssignCreate(c)
       PROVE  CreditSettledStep
  BY <1>15 DEF AssignCreate, Insert, Finish, marks, evidence, training,
       callVars, reportVars, faultVars
<1>16. ASSUME NEW c \in Calls, NEW m \in Modules, NEW op \in Operations, Choose(c, op,
            m)
       PROVE  CreditSettledStep
  BY <1>16 DEF Choose, marks, evidence, training, callVars, reportVars,
       faultVars
<1>17. ASSUME NEW c \in Calls, ManualCreate(c)
       PROVE  CreditSettledStep
  BY <1>17 DEF ManualCreate, Insert, Finish, marks, evidence, training,
       callVars, reportVars, faultVars
<1>18. ASSUME NEW c \in Calls, CallDies(c)
       PROVE  CreditSettledStep
  BY <1>18 DEF CallDies, Finish, marks, evidence, training, callVars,
       reportVars, faultVars
<1>19. ASSUME NEW m \in Modules, NEW x \in Sources, Complete(m, x)
       PROVE  CreditSettledStep
  BY <1>19 DEF Complete, marks, evidence, training, callVars, reportVars,
       faultVars
<1>20. ASSUME NEW m \in Modules \cup {None}, Route(m)
       PROVE  CreditSettledStep
  BY <1>20 DEF Route, marks, evidence, training, callVars, reportVars,
       faultVars
<1>21. ASSUME NEW f \in Figures, ReadFigure(f)
       PROVE  CreditSettledStep
  BY <1>21 DEF ReadFigure, marks, evidence, training, callVars, reportVars,
       faultVars
<1>22. ASSUME NewReport
       PROVE  CreditSettledStep
  BY <1>22 DEF NewReport, marks, evidence, training, callVars, reportVars,
       faultVars
<1>23. ASSUME NEW s \in Sends, Stamp(s)
       PROVE  CreditSettledStep
  BY <1>23 DEF Stamp, marks, evidence, training, callVars, reportVars,
       faultVars
<1>24. ASSUME Tick
       PROVE  CreditSettledStep
  BY <1>24 DEF Tick, marks, evidence, training, callVars, reportVars,
       faultVars
<1>25. ASSUME UNCHANGED vars
       PROVE  CreditSettledStep
  BY <1>25 DEF vars, marks, evidence, training, callVars, reportVars,
       faultVars
<1>26. ASSUME NEW c \in Calls, Call(c) PROVE CreditSettledStep
  BY <1>26, CallCases, <1>1, <1>2, <1>3, <1>4, <1>5, <1>6, <1>7, <1>8, <1>9,
       <1>10, <1>11, <1>12, <1>13, <1>14, <1>15, <1>16, <1>17
<1> QED
  BY <1>26, <1>18, <1>19, <1>20, <1>21, <1>22, <1>23, <1>24, <1>25 DEF Next

\* A mark, once set, keeps its time.
FirstKept == Kept(openedAt) /\ Kept(clickedAt) /\ Kept(reportedAt)

\* No step moves a time that is set.
LEMMA FirstStep == ASSUME TypeOK, CallInv, [Next]_vars PROVE FirstKept
<1> USE EngagementAssumption DEF TypeOK, CallInv, Kept, FirstKept, Sources
<1>1. ASSUME NEW c \in Calls, NEW s \in Sends, NEW op \in Operations,
            NEW step \in FirstSteps,
            Start(c, op, step, s)
       PROVE  FirstKept
  BY <1>1 DEF Start, FirstSteps, marks, evidence, training, callVars,
       reportVars, faultVars
<1>2. ASSUME NEW c \in Calls, pc[c] \in {"open", "clickOpen", "momentOpen",
            "reportOpen"},
            MarkOpened(c)
       PROVE  FirstKept
  BY <1>2 DEF MarkOpened, First, Finish, marks, evidence, training,
       callVars, reportVars, faultVars
<1>3. ASSUME NEW c \in Calls, pc[c] = "clickMark", MarkClicked(c, "clickOpen")
       PROVE  FirstKept
  BY <1>3 DEF MarkClicked, First, Goto, marks, evidence, training, callVars,
       reportVars, faultVars
<1>4. ASSUME NEW c \in Calls, pc[c] = "momentMark", MarkClicked(c, "momentOpen")
       PROVE  FirstKept
  BY <1>4 DEF MarkClicked, First, Goto, marks, evidence, training, callVars,
       reportVars, faultVars
<1>5. ASSUME NEW c \in Calls, pc[c] = "submitClick", MarkClicked(c, "submitOpen")
       PROVE  FirstKept
  BY <1>5 DEF MarkClicked, First, Goto, marks, evidence, training, callVars,
       reportVars, faultVars
<1>6. ASSUME NEW c \in Calls, ReportRead(c)
       PROVE  FirstKept
  BY <1>6 DEF ReportRead, Goto, Finish, marks, evidence, training, callVars,
       reportVars, faultVars
<1>7. ASSUME NEW c \in Calls, ReportMark(c)
       PROVE  FirstKept
  BY <1>7 DEF ReportMark, First, Goto, marks, evidence, training, callVars,
       reportVars, faultVars
<1>8. ASSUME NEW c \in Calls, ForwardRecord(c)
       PROVE  FirstKept
  BY <1>8 DEF ForwardRecord, Goto, Finish, marks, evidence, training,
       callVars, reportVars, faultVars
<1>9. ASSUME NEW c \in Calls, ForwardCredit(c)
       PROVE  FirstKept
  BY <1>9 DEF ForwardCredit, First, Finish, marks, evidence, training,
       callVars, reportVars, faultVars
<1>10. ASSUME NEW c \in Calls, SubmitCreate(c)
       PROVE  FirstKept
  BY <1>10 DEF SubmitCreate, Goto, marks, evidence, training, callVars,
       reportVars, faultVars
<1>11. ASSUME NEW c \in Calls, SubmitFlag(c)
       PROVE  FirstKept
  BY <1>11 DEF SubmitFlag, Goto, marks, evidence, training, callVars,
       reportVars, faultVars
<1>12. ASSUME NEW c \in Calls, SubmitOpen(c)
       PROVE  FirstKept
  BY <1>12 DEF SubmitOpen, First, Goto, marks, evidence, training, callVars,
       reportVars, faultVars
<1>13. ASSUME NEW c \in Calls, RuleRead(c)
       PROVE  FirstKept
  BY <1>13 DEF RuleRead, Finish, marks, evidence, training, callVars,
       reportVars, faultVars
<1>14. ASSUME NEW c \in Calls, AssignRead(c)
       PROVE  FirstKept
  BY <1>14 DEF AssignRead, Goto, Finish, marks, evidence, training,
       callVars, reportVars, faultVars
<1>15. ASSUME NEW c \in Calls, AssignCreate(c)
       PROVE  FirstKept
  BY <1>15 DEF AssignCreate, Insert, Finish, marks, evidence, training,
       callVars, reportVars, faultVars
<1>16. ASSUME NEW c \in Calls, NEW m \in Modules, NEW op \in Operations, Choose(c, op,
            m)
       PROVE  FirstKept
  BY <1>16 DEF Choose, marks, evidence, training, callVars, reportVars,
       faultVars
<1>17. ASSUME NEW c \in Calls, ManualCreate(c)
       PROVE  FirstKept
  BY <1>17 DEF ManualCreate, Insert, Finish, marks, evidence, training,
       callVars, reportVars, faultVars
<1>18. ASSUME NEW c \in Calls, CallDies(c)
       PROVE  FirstKept
  BY <1>18 DEF CallDies, Finish, marks, evidence, training, callVars,
       reportVars, faultVars
<1>19. ASSUME NEW m \in Modules, NEW x \in Sources, Complete(m, x)
       PROVE  FirstKept
  BY <1>19 DEF Complete, marks, evidence, training, callVars, reportVars,
       faultVars
<1>20. ASSUME NEW m \in Modules \cup {None}, Route(m)
       PROVE  FirstKept
  BY <1>20 DEF Route, marks, evidence, training, callVars, reportVars,
       faultVars
<1>21. ASSUME NEW f \in Figures, ReadFigure(f)
       PROVE  FirstKept
  BY <1>21 DEF ReadFigure, marks, evidence, training, callVars, reportVars,
       faultVars
<1>22. ASSUME NewReport
       PROVE  FirstKept
  BY <1>22 DEF NewReport, marks, evidence, training, callVars, reportVars,
       faultVars
<1>23. ASSUME NEW s \in Sends, Stamp(s)
       PROVE  FirstKept
  BY <1>23 DEF Stamp, marks, evidence, training, callVars, reportVars,
       faultVars
<1>24. ASSUME Tick
       PROVE  FirstKept
  BY <1>24 DEF Tick, marks, evidence, training, callVars, reportVars,
       faultVars
<1>25. ASSUME UNCHANGED vars
       PROVE  FirstKept
  BY <1>25 DEF vars, marks, evidence, training, callVars, reportVars,
       faultVars
<1>26. ASSUME NEW c \in Calls, Call(c) PROVE FirstKept
  BY <1>26, CallCases, <1>1, <1>2, <1>3, <1>4, <1>5, <1>6, <1>7, <1>8, <1>9,
       <1>10, <1>11, <1>12, <1>13, <1>14, <1>15, <1>16, <1>17
<1> QED
  BY <1>26, <1>18, <1>19, <1>20, <1>21, <1>22, <1>23, <1>24, <1>25 DEF Next

\* A send that was delivered stays so, and so does a submission.
FlagsKept == \A s \in Sends : (sent[s] => sent'[s]) /\ (credentials[s] => credentials'[s])

\* Only the processor's stamp and a submission touch them, and both set them.
LEMMA FlagsStep == ASSUME TypeOK, [Next]_vars PROVE FlagsKept
<1>1. CASE UNCHANGED <<sent, credentials>>
  BY <1>1 DEF FlagsKept
<1>2. ASSUME NEW s \in Sends, Stamp(s) PROVE FlagsKept
  BY <1>2 DEF Stamp, marks, FlagsKept, TypeOK
<1>3. ASSUME NEW c \in Calls, SubmitFlag(c) PROVE FlagsKept
  BY <1>3 DEF SubmitFlag, evidence, FlagsKept, TypeOK
<1>4. ASSUME NEW c \in Calls, Call(c) PROVE UNCHANGED <<sent, credentials>> \/ SubmitFlag(c)
  BY <1>4, CallCases DEF Start, MarkOpened, MarkClicked, ReportRead, ReportMark, ForwardRecord,
       ForwardCredit, SubmitCreate, SubmitOpen, RuleRead, AssignRead, AssignCreate, Choose,
       ManualCreate, marks, evidence
<1>5. ASSUME NEW c \in Calls, CallDies(c) PROVE UNCHANGED <<sent, credentials>>
  BY <1>5 DEF CallDies, marks, evidence
<1>6. CASE \/ \E m \in Modules, x \in Sources : Complete(m, x)
           \/ \E m \in Modules \cup {None} : Route(m)
           \/ \E f \in Figures : ReadFigure(f)
           \/ NewReport \/ Tick \/ UNCHANGED vars
  BY <1>1, <1>6 DEF Complete, Route, ReadFigure, NewReport, Tick, vars, marks, evidence
<1> QED BY <1>1, <1>2, <1>3, <1>4, <1>5, <1>6 DEF Next

\* What a send has reached is never taken back.
LEMMA ReachedGrows ==
  ASSUME TypeOK, CallInv, [Next]_vars, NEW f \in Figures
  PROVE  /\ Reached(f) \subseteq Reached(f)'
         /\ Cardinality(Reached(f)) \in Nat /\ Cardinality(Reached(f)') \in Nat
         /\ Cardinality(Reached(f)) <= Cardinality(Reached(f)')
<1>1. Reached(f) \subseteq Reached(f)'
  <2>1. FlagsKept /\ FirstKept
    BY FlagsStep, FirstStep
  <2>2. \A s \in Sends : /\ openedAt[s] # 0 => openedAt'[s] # 0
                         /\ clickedAt[s] # 0 => clickedAt'[s] # 0
                         /\ reportedAt[s] # 0 => reportedAt'[s] # 0
    BY <2>1 DEF FirstKept, Kept
  <2>3. CASE f = "sent"
    BY <2>1, <2>3 DEF Reached, FlagsKept
  <2>4. CASE f = "opened"
    BY <2>1, <2>2, <2>4 DEF Reached, FlagsKept
  <2>5. CASE f = "clicked"
    BY <2>1, <2>2, <2>5 DEF Reached, FlagsKept
  <2>6. CASE f = "submitted"
    BY <2>1, <2>6 DEF Reached, FlagsKept
  <2> QED BY <2>3, <2>4, <2>5, <2>6 DEF Figures
<1>2. IsFiniteSet(Reached(f)) /\ IsFiniteSet(Reached(f)')
  <2>1. Reached(f) \subseteq Sends /\ Reached(f)' \subseteq Sends
    BY DEF Reached
  <2> QED BY <2>1, EngagementAssumption, FS_Subset
<1> QED BY <1>1, <1>2, FS_Subset, FS_CardinalityType

\* A figure that is read is what the rows say then; every other step adds to what they say.
LEMMA FiguresStep ==
  ASSUME TypeOK, CallInv, NeverOverstated, [Next]_vars
  PROVE  NeverOverstated'
<1> SUFFICES ASSUME NEW f \in Figures, f \notin unread'
             PROVE  figures'[f] <= Cardinality(Reached(f)')
  BY DEF NeverOverstated
<1>0. /\ Cardinality(Reached(f)) \in Nat /\ Cardinality(Reached(f)') \in Nat
      /\ Cardinality(Reached(f)) <= Cardinality(Reached(f)') /\ figures[f] \in Nat
  BY ReachedGrows DEF TypeOK
<1>1. ASSUME NEW g \in Figures, ReadFigure(g) PROVE figures'[f] <= Cardinality(Reached(f)')
  <2>1. f = g => figures'[f] = Cardinality(Reached(f))
    BY <1>1 DEF ReadFigure, TypeOK
  <2>2. f # g => figures'[f] = figures[f] /\ f \notin unread
    BY <1>1 DEF ReadFigure, TypeOK
  <2>3. f # g => figures[f] <= Cardinality(Reached(f))
    BY <2>2 DEF NeverOverstated
  <2> QED BY <1>0, <2>1, <2>2, <2>3
<1>2. CASE NewReport
  BY <1>2 DEF NewReport
<1>3. CASE UNCHANGED reportVars
  <2>1. figures[f] <= Cardinality(Reached(f)) /\ figures' = figures
    BY <1>3 DEF NeverOverstated, reportVars
  <2> QED BY <1>0, <2>1
<1>4. ASSUME NEW c \in Calls, Call(c) \/ CallDies(c) PROVE UNCHANGED reportVars
  BY <1>4, CallCases DEF Start, MarkOpened, MarkClicked, ReportRead, ReportMark, ForwardRecord,
       ForwardCredit, SubmitCreate, SubmitFlag, SubmitOpen, RuleRead, AssignRead, AssignCreate,
       Choose, ManualCreate, CallDies
<1>5. CASE \/ \E m \in Modules, x \in Sources : Complete(m, x)
           \/ \E m \in Modules \cup {None} : Route(m)
           \/ (\E s \in Sends : Stamp(s)) \/ Tick \/ UNCHANGED vars
  BY <1>3, <1>5 DEF Complete, Route, Stamp, Tick, vars, reportVars
<1> QED BY <1>1, <1>2, <1>3, <1>4, <1>5 DEF Next

\* recordReport and the intake's credit (tracking.service.ts,
\* intake.service.ts): a click settles the credit of its send once the
\* reports that were checked before it have ended.
THEOREM CreditSettlesCorrect == Spec => CreditSettles
<1>1. EngagementInv /\ [Next]_vars => [CreditSettledStep]_vars
  BY CreditStep DEF EngagementInv
<1>2. [CreditSettledStep]_vars =>
        [\A s \in Sends : CreditSettled(s) =>
           CreditSettled(s)' /\ reportedAt'[s] = reportedAt[s]]_vars
  BY DEF CreditSettledStep
<1> QED
  BY <1>1, <1>2, EngagementInvariant, PTL DEF Spec, CreditSettles

\* The guarded updates of the tracking endpoints: first times are kept.
THEOREM FirstWinsCorrect == Spec => FirstWins
<1>1. EngagementInv /\ [Next]_vars => [FirstKept]_vars
  BY FirstStep DEF EngagementInv
<1>2. [FirstKept]_vars =>
        [Kept(openedAt) /\ Kept(clickedAt) /\ Kept(reportedAt)]_vars
  BY DEF FirstKept
<1> QED
  BY <1>1, <1>2, EngagementInvariant, PTL DEF Spec, FirstWins

\* "Reached at least this far" (metrics, reports.service.ts:58): figures that are counted
\* one after another, while sends are opened and clicked, never exceed what the rows say.
THEOREM NeverOverstatedCorrect == Spec => []NeverOverstated
<1>1. Init => NeverOverstated
  BY DEF Init, NeverOverstated
<1>2. EngagementInv /\ NeverOverstated /\ [Next]_vars => NeverOverstated'
  BY FiguresStep DEF EngagementInv
<1> QED
  BY <1>1, <1>2, EngagementInvariant, PTL DEF Spec
-----------------------------------------------------------------------------
(* Courses: who submits gets one, and nobody many *)

\* A step of one call leaves the others where they are.
LEMMA OthersStay ==
  ASSUME TypeOK, NEW c \in Calls, Call(c) \/ CallDies(c), NEW d \in Calls, d # c
  PROVE  pc'[d] = pc[d] /\ target'[d] = target[d] /\ chosen'[d] = chosen[d]
<1> USE DEF TypeOK, callVars, Finish, Goto
<1>1. CASE CallDies(c)
  BY <1>1 DEF CallDies
<1>2. CASE Call(c)
  BY <1>2, CallCases DEF Start, MarkOpened, MarkClicked, ReportRead, ReportMark, ForwardRecord,
       ForwardCredit, SubmitCreate, SubmitFlag, SubmitOpen, RuleRead, AssignRead, AssignCreate,
       Choose, ManualCreate
<1> QED BY <1>1, <1>2

\* The tables of assignments change where a call inserts and where a course is completed.
LEMMA RowsMove ==
  ASSUME [Next]_vars
  PROVE  \/ UNCHANGED <<open, done>>
         \/ \E c \in Calls : AssignCreate(c) \/ ManualCreate(c)
         \/ \E m \in Modules, x \in Sources : Complete(m, x)
<1>1. ASSUME NEW c \in Calls, Call(c)
      PROVE  UNCHANGED <<open, done>> \/ AssignCreate(c) \/ ManualCreate(c)
  BY <1>1, CallCases DEF Start, MarkOpened, MarkClicked, ReportRead, ReportMark, ForwardRecord,
       ForwardCredit, SubmitCreate, SubmitFlag, SubmitOpen, RuleRead, AssignRead, Choose, training
<1>2. ASSUME NEW c \in Calls, CallDies(c) PROVE UNCHANGED <<open, done>>
  BY <1>2 DEF CallDies, training
<1>3. CASE \/ \E m \in Modules \cup {None} : Route(m)
           \/ \E f \in Figures : ReadFigure(f)
           \/ NewReport \/ (\E s \in Sends : Stamp(s)) \/ Tick \/ UNCHANGED vars
  BY <1>3 DEF Route, ReadFigure, NewReport, Stamp, Tick, vars, training
<1> QED BY <1>1, <1>2, <1>3 DEF Next

\* No row is ever taken back, and a completed one still counts.
LEMMA RowsStay ==
  ASSUME TypeOK, CallInv, [Next]_vars, NEW m \in Modules, NEW x \in Sources
  PROVE  Rows(m, x) # 0 => Rows(m, x)' # 0
<1>0. /\ open[m][x] \in Nat /\ done[m][x] \in Nat
      /\ open \in [Modules -> [Sources -> Nat]] /\ done \in [Modules -> [Sources -> Nat]]
  BY DEF TypeOK
<1>1. CASE UNCHANGED <<open, done>>
  BY <1>1 DEF Rows
<1>2. ASSUME NEW n \in Modules, NEW y \in Sources, Insert(n, y), done' = done
      PROVE  Rows(m, x) # 0 => Rows(m, x)' # 0
  <2>1. open' = Put(open, n, y, open[n][y] + 1)
    BY <1>2, InsertPuts
  <2>2. open'[m][x] = IF m = n /\ x = y THEN open[n][y] + 1 ELSE open[m][x]
    BY <1>0, <2>1 DEF Put
  <2> QED BY <1>0, <1>2, <2>2 DEF Rows
<1>3. ASSUME NEW c \in Calls, AssignCreate(c) PROVE Rows(m, x) # 0 => Rows(m, x)' # 0
  <2>1. chosen[c] \in Modules /\ target[c] \in Sources /\ done' = done
    BY <1>3 DEF AssignCreate, TypeOK, CallInv
  <2> QED BY <1>1, <1>2, <1>3, <2>1 DEF AssignCreate
<1>4. ASSUME NEW c \in Calls, ManualCreate(c) PROVE Rows(m, x) # 0 => Rows(m, x)' # 0
  <2>1. chosen[c] \in Modules /\ None \in Sources /\ done' = done
    BY <1>4 DEF ManualCreate, TypeOK, CallInv, Sources
  <2> QED BY <1>2, <1>4, <2>1 DEF ManualCreate
<1>5. ASSUME NEW n \in Modules, NEW y \in Sources, Complete(n, y)
      PROVE  Rows(m, x) # 0 => Rows(m, x)' # 0
  <2>1. /\ open' = Put(open, n, y, open[n][y] - 1)
        /\ done' = Put(done, n, y, done[n][y] + 1)
    BY <1>5, CompletePuts
  <2>2. open'[m][x] = IF m = n /\ x = y THEN open[n][y] - 1 ELSE open[m][x]
    BY <1>0, <2>1 DEF Put
  <2>3. done'[m][x] = IF m = n /\ x = y THEN done[n][y] + 1 ELSE done[m][x]
    BY <1>0, <2>1 DEF Put
  <2> QED BY <1>0, <2>2, <2>3 DEF Rows
<1> QED BY RowsMove, <1>1, <1>3, <1>4, <1>5

\* As long as the rule stands, what a submission assigns is the routed module, and
\* whoever submitted has it or is about to.
RoutedChosen ==
  "rule" \notin Operations =>
    \A c \in Calls : pc[c] \in {"assignRead", "assignCreate"} => chosen[c] = rule
Assigning == {"submitFlag", "submitClick", "submitOpen", "ruleRead", "assignRead", "assignCreate"}
SubmittersAssigned ==
  "rule" \notin Operations /\ rule # None =>
    \A s \in Sends \ dropped : s \in submissions => Rows(rule, s) # 0 \/ Busy(s, Assigning)

\* The rule stands.
LEMMA RuleStands ==
  ASSUME [Next]_vars, "rule" \notin Operations
  PROVE  rule' = rule
<1>1. ASSUME NEW c \in Calls, Call(c) \/ CallDies(c) PROVE rule' = rule
  BY <1>1, CallCases DEF Start, MarkOpened, MarkClicked, ReportRead, ReportMark, ForwardRecord,
       ForwardCredit, SubmitCreate, SubmitFlag, SubmitOpen, RuleRead, AssignRead, AssignCreate,
       Choose, ManualCreate, CallDies, training
<1>2. CASE \/ \E m \in Modules, x \in Sources : Complete(m, x)
           \/ \E f \in Figures : ReadFigure(f)
           \/ NewReport \/ (\E s \in Sends : Stamp(s)) \/ Tick \/ UNCHANGED vars
  BY <1>2 DEF Complete, ReadFigure, NewReport, Stamp, Tick, vars, training
<1> QED BY <1>1, <1>2 DEF Next, Route

\* What is not the step of a call leaves the calls, the submissions and the deaths.
LEMMA CallsOrQuiet ==
  ASSUME [Next]_vars
  PROVE  \/ \E c \in Calls : Call(c) \/ CallDies(c)
         \/ UNCHANGED <<pc, target, chosen, submissions, dropped>>
<1>1. CASE \/ \E m \in Modules, x \in Sources : Complete(m, x)
           \/ \E m \in Modules \cup {None} : Route(m)
           \/ \E f \in Figures : ReadFigure(f)
           \/ NewReport \/ (\E s \in Sends : Stamp(s)) \/ Tick \/ UNCHANGED vars
  BY <1>1 DEF Complete, Route, ReadFigure, NewReport, Stamp, Tick, vars, callVars, evidence,
       faultVars
<1> QED BY <1>1 DEF Next

\* Every step keeps the module of a submission the one that was routed when it was read.
LEMMA RoutedStep ==
  ASSUME TypeOK, CallInv, RoutedChosen, [Next]_vars
  PROVE  RoutedChosen'
<1> SUFFICES ASSUME "rule" \notin Operations, NEW d \in Calls,
                    pc'[d] \in {"assignRead", "assignCreate"}
             PROVE  chosen'[d] = rule
  BY RuleStands DEF RoutedChosen
<1>1. CASE UNCHANGED <<pc, target, chosen, submissions, dropped>>
  BY <1>1 DEF RoutedChosen
<1>2. ASSUME NEW c \in Calls, Call(c) \/ CallDies(c), c # d PROVE chosen'[d] = rule
  BY <1>2, OthersStay DEF RoutedChosen
<1>3. CASE CallDies(d)
  BY <1>3 DEF CallDies, Finish, TypeOK
<1>4. CASE Call(d)
  BY <1>4, CallCases DEF Start, FirstSteps, MarkOpened, MarkClicked, ReportRead, ReportMark,
       ForwardRecord, ForwardCredit, SubmitCreate, SubmitFlag, SubmitOpen, RuleRead, AssignRead,
       AssignCreate, Choose, ManualCreate, Finish, Goto, TypeOK, RoutedChosen
<1> QED BY CallsOrQuiet, <1>1, <1>2, <1>3, <1>4

\* A submission that is under way goes on, assigns, or dies.
LEMMA SubmissionGoesOn ==
  ASSUME TypeOK, CallInv, RoutedChosen, "rule" \notin Operations, rule # None,
         NEW c \in Calls, Call(c) \/ CallDies(c), pc[c] \in Assigning,
         NEW s \in Sends, target[c] = s, [Next]_vars
  PROVE  \/ pc'[c] \in Assigning /\ target'[c] = s
         \/ Rows(rule, s)' # 0
         \/ s \in dropped'
<1> USE DEF TypeOK, Goto
<1>0. rule \in Modules /\ s \in Sources /\ rule' = rule
  BY RuleStands DEF Sources
<1>1. CASE CallDies(c)
  BY <1>1 DEF CallDies
<1>2. CASE AssignRead(c)
  <2>1. CASE Rows(chosen[c], s) = 0
    BY <1>2, <2>1 DEF AssignRead, Assigning
  <2>2. CASE Rows(chosen[c], s) # 0
    <3>1. chosen[c] = rule /\ UNCHANGED <<open, done>>
      BY <1>2 DEF AssignRead, RoutedChosen, training
    <3> QED BY <1>0, <2>2, <3>1 DEF Rows
  <2> QED BY <2>1, <2>2
<1>3. CASE AssignCreate(c)
  <2>1. chosen[c] = rule /\ done' = done
    BY <1>3 DEF AssignCreate, RoutedChosen
  <2>2. CASE Rows(chosen[c], s) # 0 /\ UNCHANGED open
    BY <1>0, <2>1, <2>2 DEF Rows
  <2>3. CASE Insert(chosen[c], s)
    <3>1. open' = Put(open, rule, s, open[rule][s] + 1)
      BY <1>0, <2>1, <2>3, InsertPuts
    <3>2. open'[rule][s] = open[rule][s] + 1
      BY <1>0, <3>1 DEF Put
    <3>3. open[rule][s] \in Nat /\ done[rule][s] \in Nat
      BY <1>0
    <3> QED BY <1>0, <2>1, <3>2, <3>3 DEF Rows
  <2> QED BY <1>3, <2>2, <2>3 DEF AssignCreate
<1>4. CASE RuleRead(c) \/ SubmitFlag(c) \/ SubmitOpen(c) \/ MarkClicked(c, "submitOpen")
  BY <1>4 DEF RuleRead, SubmitFlag, SubmitOpen, MarkClicked, Assigning
<1>5. CASE Call(c)
  <2>1. AssignRead(c) \/ AssignCreate(c) \/ RuleRead(c) \/ SubmitFlag(c) \/ SubmitOpen(c)
          \/ MarkClicked(c, "submitOpen")
    BY <1>5, CallCases DEF Start, ReportRead, ReportMark, ForwardRecord, ForwardCredit,
         SubmitCreate, Choose, ManualCreate, Assigning
  <2> QED BY <1>2, <1>3, <1>4, <2>1
<1> QED BY <1>1, <1>5

\* Every step keeps a submission on its way to its course.
LEMMA SubmittersStep ==
  ASSUME TypeOK, CallInv, RoutedChosen, SubmittersAssigned, [Next]_vars
  PROVE  SubmittersAssigned'
<1> SUFFICES ASSUME "rule" \notin Operations, rule' # None, NEW s \in Sends, s \notin dropped',
                    s \in submissions'
             PROVE  Rows(rule, s)' # 0 \/ Busy(s, Assigning)'
  BY DEF SubmittersAssigned
<1>0. rule' = rule /\ rule \in Modules /\ s \in Sources /\ s \notin dropped
  <2>1. dropped \subseteq dropped'
    <3>1. ASSUME NEW c \in Calls, Call(c) PROVE UNCHANGED dropped
      BY <3>1, CallCases DEF Start, MarkOpened, MarkClicked, ReportRead, ReportMark, ForwardRecord,
           ForwardCredit, SubmitCreate, SubmitFlag, SubmitOpen, RuleRead, AssignRead, AssignCreate,
           Choose, ManualCreate, faultVars
    <3> QED BY <3>1, CallsOrQuiet DEF CallDies
  <2> QED BY <2>1, RuleStands DEF TypeOK, Sources
<1>1. CASE s \notin submissions
  <2>1. PICK c \in Calls : SubmitCreate(c)
    <3>1. ASSUME NEW c \in Calls, Call(c) \/ CallDies(c)
          PROVE  UNCHANGED submissions \/ SubmitCreate(c)
      BY <3>1, CallCases DEF Start, MarkOpened, MarkClicked, ReportRead, ReportMark, ForwardRecord,
           ForwardCredit, SubmitFlag, SubmitOpen, RuleRead, AssignRead, AssignCreate, Choose,
           ManualCreate, CallDies, evidence
    <3> QED BY <1>1, <3>1, CallsOrQuiet
  <2> QED BY <1>1, <2>1 DEF SubmitCreate, Goto, Busy, Assigning, TypeOK
<1>2. CASE s \in submissions /\ Rows(rule, s) # 0
  BY <1>0, <1>2, RowsStay DEF Rows
<1>3. ASSUME NEW d \in Calls, target[d] = s, pc[d] \in Assigning
      PROVE  Rows(rule, s)' # 0 \/ Busy(s, Assigning)'
  <2>1. CASE UNCHANGED <<pc, target, chosen, submissions, dropped>>
    BY <1>3, <2>1 DEF Busy
  <2>2. ASSUME NEW c \in Calls, Call(c) \/ CallDies(c), c # d PROVE Busy(s, Assigning)'
    BY <1>3, <2>2, OthersStay DEF Busy
  <2>3. CASE Call(d) \/ CallDies(d)
    BY <1>0, <1>3, <2>3, SubmissionGoesOn DEF Busy
  <2> QED BY CallsOrQuiet, <2>1, <2>2, <2>3
<1> QED BY <1>0, <1>1, <1>2, <1>3 DEF SubmittersAssigned, Busy
\* Courses without a source: those outstanding and those being created are no more than
\* the calls, for a call looks before it creates.
ManualBounded ==
  \A m \in Modules : open[m][None] + Cardinality(Creating(m)) <= Cardinality(Calls)

\* Every step keeps the assignments without a source within the calls.
LEMMA ManualStep ==
  ASSUME TypeOK, CallInv, ManualBounded, [Next]_vars
  PROVE  ManualBounded'
<1> SUFFICES ASSUME NEW m \in Modules
             PROVE  open'[m][None] + Cardinality(Creating(m)') <= Cardinality(Calls)
  BY DEF ManualBounded
<1>0. /\ IsFiniteSet(Creating(m)) /\ IsFiniteSet(Creating(m)') /\ None \in Sources
      /\ Cardinality(Creating(m)) \in Nat /\ Cardinality(Creating(m)') \in Nat
      /\ Cardinality(Creating(m)') <= Cardinality(Calls) /\ Cardinality(Calls) \in Nat
      /\ open[m][None] \in Nat /\ open \in [Modules -> [Sources -> Nat]]
      /\ open[m][None] + Cardinality(Creating(m)) <= Cardinality(Calls)
  <2>1. Creating(m) \subseteq Calls /\ Creating(m)' \subseteq Calls
    BY DEF Creating
  <2>2. None \in Sources
    BY DEF Sources
  <2> QED BY <2>1, <2>2, EngagementAssumption, FS_Subset, FS_CardinalityType
       DEF TypeOK, ManualBounded
<1>1. ASSUME Creating(m)' \subseteq Creating(m), open'[m][None] \in Nat,
             open'[m][None] <= open[m][None]
      PROVE  open'[m][None] + Cardinality(Creating(m)') <= Cardinality(Calls)
  <2>1. Cardinality(Creating(m)') <= Cardinality(Creating(m))
    BY <1>0, <1>1, FS_Subset
  <2> QED BY <1>0, <1>1, <2>1
<1>2. ASSUME NEW c \in Calls, ManualCreate(c)
      PROVE  open'[m][None] + Cardinality(Creating(m)') <= Cardinality(Calls)
  <2>1. /\ chosen[c] \in Modules /\ open' = Put(open, chosen[c], None, open[chosen[c]][None] + 1)
        /\ pc[c] = "manualCreate"
    BY <1>0, <1>2, InsertPuts DEF ManualCreate, TypeOK, CallInv
  <2>2. open'[m][None] = IF m = chosen[c] THEN open[m][None] + 1 ELSE open[m][None]
    BY <1>0, <2>1 DEF Put
  <2>3. Creating(m)' = Creating(m) \ {c}
    BY <1>2 DEF ManualCreate, Finish, Creating, TypeOK
  <2>4. CASE m = chosen[c]
    <3>1. c \in Creating(m)
      BY <2>1, <2>4 DEF Creating
    <3>2. Cardinality(Creating(m)') = Cardinality(Creating(m)) - 1
      BY <1>0, <2>3, <3>1, FS_RemoveElement
    <3> QED BY <1>0, <2>2, <2>4, <3>2
  <2> QED BY <1>0, <1>1, <2>2, <2>3, <2>4
<1>3. ASSUME NEW c \in Calls, NEW n \in Modules, ManualRead(c, n) \/ EnrolRead(c, n)
      PROVE  open'[m][None] + Cardinality(Creating(m)') <= Cardinality(Calls)
  <2>1. open' = open
    BY <1>3 DEF ManualRead, EnrolRead, Choose, training
  <2>2. CASE m = n
    <3>1. open[m][None] = 0
      BY <1>0, <1>3, <2>2 DEF ManualRead, EnrolRead, Outstanding, Rows, TypeOK
    <3> QED BY <1>0, <2>1, <3>1
  <2>3. CASE m # n
    BY <1>0, <1>1, <1>3, <2>1, <2>3 DEF ManualRead, EnrolRead, Choose, Creating, TypeOK
  <2> QED BY <2>2, <2>3
<1>4. ASSUME NEW c \in Calls, AssignCreate(c)
      PROVE  open'[m][None] + Cardinality(Creating(m)') <= Cardinality(Calls)
  <2>1. chosen[c] \in Modules /\ target[c] \in Sends /\ target[c] \in Sources /\ target[c] # None
    BY <1>4 DEF AssignCreate, TypeOK, CallInv, Sources
  <2>2. open'[m][None] = open[m][None]
    <3>1. CASE Insert(chosen[c], target[c])
      BY <1>0, <2>1, <3>1, InsertPuts DEF Put
    <3> QED BY <1>4, <3>1 DEF AssignCreate
  <2>3. Creating(m)' \subseteq Creating(m)
    BY <1>4 DEF AssignCreate, Finish, Creating, TypeOK
  <2> QED BY <1>0, <1>1, <2>2, <2>3
<1>5. ASSUME NEW n \in Modules, NEW x \in Sources, Complete(n, x)
      PROVE  open'[m][None] + Cardinality(Creating(m)') <= Cardinality(Calls)
  <2>1. /\ open' = Put(open, n, x, open[n][x] - 1) /\ open[n][x] - 1 \in Nat
    BY <1>5, CompletePuts
  <2>2. open'[m][None] = IF m = n /\ None = x THEN open[m][None] - 1 ELSE open[m][None]
    BY <1>0, <2>1 DEF Put
  <2>3. open'[m][None] \in Nat /\ open'[m][None] <= open[m][None]
    BY <1>0, <2>1, <2>2
  <2>4. Creating(m)' = Creating(m)
    BY <1>5 DEF Complete, callVars, Creating
  <2> QED BY <1>1, <2>3, <2>4
<1>6. ASSUME NEW c \in Calls, Call(c) \/ CallDies(c), ~ManualCreate(c), ~AssignCreate(c),
             ~\E n \in Modules : ManualRead(c, n) \/ EnrolRead(c, n)
      PROVE  open'[m][None] + Cardinality(Creating(m)') <= Cardinality(Calls)
  <2>1. pc'[c] # "manualCreate"
    <3> USE DEF TypeOK, Start, Goto, Finish
    <3>1. CASE CallDies(c)
      BY <3>1 DEF CallDies
    <3>2. CASE Open(c) \/ Click(c) \/ Moment(c)
      BY <3>2 DEF Open, Click, Moment, MarkOpened, MarkClicked
    <3>3. CASE Report(c) \/ Forward(c)
      BY <3>3 DEF Report, ReportRead, ReportMark, MarkOpened, Forward, ForwardRecord, ForwardCredit
    <3>4. CASE Submit(c)
      BY <1>6, <3>4 DEF Submit, SubmitCreate, SubmitFlag, MarkClicked, SubmitOpen, RuleRead, AssignRead
    <3> QED BY <1>6, <3>1, <3>2, <3>3, <3>4 DEF Call, Manual
  <2>2. open' = open
    BY <1>6, CallCases DEF Call, Open, Click, Moment, Report, Forward, Submit, Manual, Start,
         MarkOpened, MarkClicked, ReportRead, ReportMark, ForwardRecord, ForwardCredit,
         SubmitCreate, SubmitFlag, SubmitOpen, RuleRead, AssignRead, CallDies, training
  <2>3. Creating(m)' \subseteq Creating(m)
    <3> SUFFICES ASSUME NEW d \in Calls, pc'[d] = "manualCreate", chosen'[d] = m
                 PROVE  pc[d] = "manualCreate" /\ chosen[d] = m
      BY DEF Creating
    <3> QED BY <1>6, <2>1, OthersStay
  <2> QED BY <1>0, <1>1, <2>2, <2>3
<1>7. CASE \/ \E n \in Modules \cup {None} : Route(n)
           \/ \E f \in Figures : ReadFigure(f)
           \/ NewReport \/ (\E s \in Sends : Stamp(s)) \/ Tick \/ UNCHANGED vars
  <2>1. UNCHANGED <<open, pc, chosen>>
    BY <1>7 DEF Route, ReadFigure, NewReport, Stamp, Tick, vars, training, callVars
  <2> QED BY <1>0, <1>1, <2>1 DEF Creating
<1> QED BY <1>2, <1>3, <1>4, <1>5, <1>6, <1>7 DEF Next

\* What the courses need to be inductive: types, what calls hold, the unique key, the path
\* of a submission, and the calls that create without a source.
CoursesIInv ==
  TypeOK /\ CallInv /\ OnePerSend /\ RoutedChosen /\ SubmittersAssigned /\ ManualBounded

\* The invariant of the courses holds initially.
LEMMA CoursesBegin == Init => CoursesIInv
<1> SUFFICES ASSUME Init PROVE CoursesIInv
  OBVIOUS
<1>1. TypeOK /\ CallInv /\ OnePerSend /\ RoutedChosen /\ SubmittersAssigned
  BY EngagementAssumption DEF Init, TypeOK, CallInv, OnePerSend, RoutedChosen, SubmittersAssigned,
     Rows, Steps, Times, Sources
<1>2. ManualBounded
  <2> SUFFICES ASSUME NEW m \in Modules
               PROVE  open[m][None] + Cardinality(Creating(m)) <= Cardinality(Calls)
    BY DEF ManualBounded
  <2>1. Creating(m) = {} /\ open[m][None] = 0
    BY DEF Init, Creating, Sources
  <2> QED BY <2>1, EngagementAssumption, FS_EmptySet, FS_CardinalityType
<1> QED BY <1>1, <1>2 DEF CoursesIInv

\* Every step keeps it.
LEMMA CoursesStep == CoursesIInv /\ [Next]_vars => CoursesIInv'
BY TypeStep, CallInvStep, OnePerSendStep, RoutedStep, SubmittersStep, ManualStep DEF CoursesIInv

\* A submission is assigned the routed module once, and hand-made assignments of a module
\* are no more than the calls.
LEMMA CoursesKeep == CoursesIInv => OnePerSend /\ SubmitAssigns /\ DuplicatesBounded
<1> SUFFICES ASSUME CoursesIInv PROVE OnePerSend /\ SubmitAssigns /\ DuplicatesBounded
  OBVIOUS
<1>1. OnePerSend
  BY DEF CoursesIInv
<1>2. SubmitAssigns
  <2>1. \A m \in Modules, s \in Sends : Rows(m, s) \in Nat /\ Rows(m, s) <= 1
    BY DEF CoursesIInv, TypeOK, Rows, OnePerSend, Sources
  <2>2. rule # None => \A s \in Sends : Rows(rule, s) # 0 => Rows(rule, s) = 1
    <3>1. rule \in Modules \cup {None}
      BY DEF CoursesIInv, TypeOK
    <3> QED BY <2>1, <3>1
  <2> QED BY <2>2 DEF CoursesIInv, SubmittersAssigned, SubmitAssigns, Assigning
<1>3. DuplicatesBounded
  <2> SUFFICES ASSUME NEW m \in Modules PROVE open[m][None] <= Cardinality(Calls)
    BY DEF DuplicatesBounded
  <2>1. Creating(m) \subseteq Calls /\ None \in Sources
    BY DEF Creating, Sources
  <2>2. Cardinality(Creating(m)) \in Nat /\ Cardinality(Calls) \in Nat /\ open[m][None] \in Nat
    BY <2>1, EngagementAssumption, FS_Subset, FS_CardinalityType DEF CoursesIInv, TypeOK
  <2> QED BY <2>2 DEF CoursesIInv, ManualBounded
<1> QED BY <1>1, <1>2, <1>3
=============================================================================
