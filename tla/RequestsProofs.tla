---------------------------- MODULE RequestsProofs ----------------------------
(***************************************************************************)
(* What the guards and the scope let through, for any number of clients    *)
(* and accounts, over all routes that the controllers declare; what the    *)
(* screens of the console call, of all of them; and what lessons, quizzes  *)
(* and certificates agree on, for any number of calls.                     *)
(***************************************************************************)
EXTENDS Requests, FiniteSetTheorems, TLAPS

(* What holds of every declaration of a route, and what the proofs use of it. *)

Declared(k) ==
  /\ "viewer" \in k.roles => k.does \in {"read", "own"}
  /\ k.does = "govern" => k.roles \subseteq Staff
  /\ "unenrolled" \in k.guards => k.does \in {"read", "own"}
  /\ k.does = "send" => Cleared \subseteq k.guards /\ k.path = "word"
  /\ k.roles = Nobody => k.path = "none"
  /\ k.does = "redeem" => k.roles # Nobody /\ k.path = "tenant"
  /\ k.path \in {"tenant", "word", "other", "none"}
  /\ k.path = "other" =>
       \/ k.roles \subseteq Staff
       \/ \E r \in SharedQuizRoutes : r.name = "sharedQuiz" /\ Kind(r) = k

\* A route's declaration, by group of routes.
LEMMA RoutesDeclare ==
  \A k \in Kinds : Declared(k)
<1> SUFFICES ASSUME NEW r \in AllRoutes PROVE Declared(Kind(r))
  BY DEF Kinds
<1> USE DEF Declared, Kind, Routes, Everyone, Editors, Staff, Nobody, Cleared, Writable, Limited,
    Free
<1>1. CASE r \in AuthRoutes
  BY <1>1 DEF AuthRoutes
<1>2. CASE r \in InviteRoutes
  BY <1>2 DEF InviteRoutes
<1>3. CASE r \in SignupRoutes
  BY <1>3 DEF SignupRoutes
<1>4. CASE r \in PlatformRoutes
  BY <1>4 DEF PlatformRoutes
<1>5. CASE r \in AuditRoutes
  BY <1>5 DEF AuditRoutes
<1>6. CASE r \in HealthRoutes
  BY <1>6 DEF HealthRoutes
<1>7. CASE r \in SharedModuleRoutes
  BY <1>7 DEF SharedModuleRoutes
<1>8. CASE r \in SharedQuizRoutes
  BY <1>8 DEF SharedQuizRoutes
<1>9. CASE r \in TenantRoutes
  BY <1>9 DEF TenantRoutes
<1>10. CASE r \in LicenseRoutes
  BY <1>10 DEF LicenseRoutes
<1>11. CASE r \in DomainRoutes
  BY <1>11 DEF DomainRoutes
<1>12. CASE r \in SendingDomainRoutes
  BY <1>12 DEF SendingDomainRoutes
<1>13. CASE r \in ReportChannelRoutes
  BY <1>13 DEF ReportChannelRoutes
<1>14. CASE r \in EmployeeRoutes
  BY <1>14 DEF EmployeeRoutes
<1>15. CASE r \in GroupRoutes
  BY <1>15 DEF GroupRoutes
<1>16. CASE r \in CampaignRoutes
  BY <1>16 DEF CampaignRoutes
<1>17. CASE r \in ReportRoutes
  BY <1>17 DEF ReportRoutes
<1>18. CASE r \in CertificateRoutes
  BY <1>18 DEF CertificateRoutes
<1>19. CASE r \in ScenarioRoutes
  BY <1>19 DEF ScenarioRoutes
<1>20. CASE r \in TemplateRoutes
  BY <1>20 DEF TemplateRoutes
<1>21. CASE r \in LandingRoutes
  BY <1>21 DEF LandingRoutes
<1>22. CASE r \in QuizRoutes
  BY <1>22 DEF QuizRoutes
<1>23. CASE r \in TrainingModuleRoutes
  BY <1>23 DEF TrainingModuleRoutes
<1>24. CASE r \in TrainingRoutes
  BY <1>24 DEF TrainingRoutes
<1>25. CASE r \in TrackingRoutes
  BY <1>25 DEF TrackingRoutes
<1>26. CASE r \in LearnRoutes
  BY <1>26 DEF LearnRoutes
<1>27. CASE r \in PortalRoutes
  BY <1>27 DEF PortalRoutes
<1>28. CASE r \in IntakeRoutes
  BY <1>28 DEF IntakeRoutes
<1>29. CASE r \in PostmarkRoutes
  BY <1>29 DEF PostmarkRoutes
<1> HIDE DEF Declared, Kind, Routes
<1> QED BY <1>1, <1>2, <1>3, <1>4, <1>5, <1>6, <1>7, <1>8, <1>9, <1>10, <1>11, <1>12, <1>13, <1>14,
    <1>15, <1>16, <1>17, <1>18, <1>19, <1>20, <1>21, <1>22, <1>23, <1>24, <1>25, <1>26, <1>27,
    <1>28, <1>29, SMTT(60) DEF AllRoutes

-----------------------------------------------------------------------------
(* A request that nothing it read has changed since (~stale) is past a guard  *)
(* only with what that guard asks for, and what it reads of its account's     *)
(* role and client never changes.  What has been handled was in that state    *)
(* when it left the last guard.                                               *)

Past(steps) == request.step \in steps

\* Staff, and only they, belong to no client.
Placed == \A a \in Accounts : (Home(a) = None) = (Role(a) = "staff")

\* Who a request is by, what its path names, and that nothing was done for it before
\* its handler, nor if it was refused, but to look up a key.
WellSent ==
  /\ (request.by = None) = (request.kind.roles = Nobody)
  /\ request.by = None => request.step = "scope" /\ request.refused = None
  /\ request.kind.path \in {"tenant", "word"} => request.addressed # None
  /\ request.kind.path = "other" => request.addressed \in {Entity, Malformed}
  /\ request.kind.path = "none" => request.addressed = None
  /\ request.step # "refused" => request.refused = None
  /\ request.refused # "key" => handled = NoHandler

\* What its account has shown.
AccountShown ==
  /\ Past({"approved", "consent", "writable", "scope"}) => Role(request.by) \in request.kind.roles
  /\ ~stale /\ Past({"enrolment", "approved", "consent", "writable", "scope"}) =>
       account[request.by].there /\ account[request.by].active
  /\ ~stale /\ Past({"approved", "consent", "writable", "scope"}) =>
       "unenrolled" \in request.kind.guards \/ account[request.by].enrolled

\* What its client has shown: that it is one, whatever has changed.
ClientShown ==
  /\ Past({"consent", "writable", "scope"}) /\ "approved" \in request.kind.guards => Known
  /\ ~stale /\ Past({"consent", "writable", "scope"}) /\ "approved" \in request.kind.guards =>
       client[GuardedTenant].level = "full"
  /\ ~stale /\ Past({"writable", "scope"}) /\ "consent" \in request.kind.guards =>
       client[GuardedTenant].signed

RequestInv ==
  request # NoRequest =>
    WellSent /\ (request.by # None => AccountShown /\ ClientShown)

AccessIInv == Placed /\ RequestInv /\ HandledIsAllowed /\ ScopesHold

-----------------------------------------------------------------------------
(* Accounts and clients change.  What was handled is then past, and the      *)
(* request in progress counts as stale if it is by that account.             *)

Row == [role : Everyone, home : Tenants \cup {None}, there : BOOLEAN, active : BOOLEAN,
  enrolled : BOOLEAN]

\* After a change nobody has just been handled.
LEMMA NothingHandled ==
  ASSUME AccessAssumption, handled' = NoHandler
  PROVE  /\ HandledIsAllowed' /\ OwnRowsOnly' /\ StaffAreScoped'
         /\ handled' = NoHandler
BY DEF NoHandler, HandledIsAllowed, WithdrawnStopped, UnenrolledOnlyEnrols, RolesHold,
       SendsAreCleared, OwnRowsOnly, StaffAreScoped, By, Does, IsClient, Role, Home

LEMMA AccountChanges ==
  ASSUME AccessAssumption, AccessIInv, NEW a \in Accounts, NEW row \in Row,
         row.role = Role(a), row.home = Home(a), SetAccount(a, row)
  PROVE  AccessIInv'
<1>1. /\ account' = [account EXCEPT ![a] = row] /\ stale' = (stale \/ (request.by = a /\ request.step # "session"))
      /\ handled' = NoHandler /\ UNCHANGED <<client, request>>
  BY DEF SetAccount
<1>2. TypeOK
  BY DEF AccessIInv, ScopesHold
<1>3. \A b \in Accounts : Role(b)' = Role(b) /\ Home(b)' = Home(b)
  BY <1>1, <1>2 DEF TypeOK, Role, Home
<1>4. \A b \in Accounts : b # a => account'[b] = account[b]
  BY <1>1, <1>2 DEF TypeOK
<1>5. TypeOK'
  <2>1. account' \in [Accounts -> Row] /\ client' = client /\ request' = request /\
          handled' = NoHandler
    BY <1>1, <1>2 DEF TypeOK, Row
  <2>2. stale' \in BOOLEAN
    BY <1>1, <1>2, Zenon DEF TypeOK
  <2> QED BY <2>1, <2>2, <1>2 DEF TypeOK, Row
<1>6. Placed'
  BY <1>3 DEF AccessIInv, Placed
<1>7. RequestInv'
  <2> SUFFICES ASSUME request # NoRequest
               PROVE  WellSent' /\ (request.by # None => AccountShown' /\ ClientShown')
    BY <1>1 DEF RequestInv
  <2>1. WellSent /\ (request.by # None => AccountShown /\ ClientShown)
    BY DEF AccessIInv, RequestInv
  <2>2. WellSent'
    BY <2>1, <1>1 DEF WellSent
  <2> SUFFICES ASSUME request.by # None PROVE AccountShown' /\ ClientShown'
    BY <2>2
  <2>3. request.by \in Accounts
    BY <1>2 DEF TypeOK
  <2>4. ~stale' => ~stale /\ (request.by # a \/ request.step = "session")
    BY <1>1, Zenon
  <2>5. AccountShown'
    BY <2>1, <2>3, <2>4, <1>1, <1>3, <1>4 DEF AccountShown, Past
  <2>6. GuardedTenant' = GuardedTenant
    BY <2>3, <1>1, <1>3 DEF GuardedTenant
  <2>7. ClientShown'
    BY <2>1, <2>4, <2>6, <1>1 DEF ClientShown, Past, Known
  <2> QED BY <2>5, <2>7
<1>8. StrangersOnly'
  <2> SUFFICES ASSUME request.refused = "mismatch" PROVE StrangersOnly'
    BY <1>1 DEF StrangersOnly
  <2>1. request.by \in Accounts
    BY <1>2 DEF AccessIInv, RequestInv, WellSent, TypeOK, NoRequest, AccessAssumption
  <2> QED BY <1>1, <1>3, <2>1 DEF AccessIInv, ScopesHold, StrangersOnly
<1> QED BY <1>1, <1>5, <1>6, <1>7, <1>8, NothingHandled DEF AccessIInv, ScopesHold

LEMMA ClientChanges ==
  ASSUME AccessAssumption, AccessIInv, NEW t \in Tenants,
         NEW row \in [signed : BOOLEAN, level : Levels], SetClient(t, row)
  PROVE  AccessIInv'
<1>1. /\ client' = [client EXCEPT ![t] = row] /\ stale' = (stale \/ request.step \in {"consent", "writable", "scope"})
      /\ handled' = NoHandler /\ UNCHANGED <<account, request>>
  BY DEF SetClient
<1>2. TypeOK
  BY DEF AccessIInv, ScopesHold
<1>3. TypeOK'
  <2>1. client' \in [Tenants -> [signed : BOOLEAN, level : Levels]]
        /\ account' = account /\ request' = request /\ handled' = NoHandler
    BY <1>1, <1>2 DEF TypeOK
  <2>2. stale' \in BOOLEAN
    BY <1>1, <1>2, Zenon DEF TypeOK
  <2> QED BY <2>1, <2>2, <1>2 DEF TypeOK
<1>4. Placed'
  BY <1>1 DEF AccessIInv, Placed, Role, Home
<1>5. RequestInv'
  <2> SUFFICES ASSUME request # NoRequest
               PROVE  WellSent' /\ (request.by # None => AccountShown' /\ ClientShown')
    BY <1>1 DEF RequestInv
  <2>1. WellSent /\ (request.by # None => AccountShown /\ ClientShown)
    BY DEF AccessIInv, RequestInv
  <2>2. ~stale' => ~stale /\ request.step \notin {"consent", "writable", "scope"}
    BY <1>1, Zenon
  <2>3. WellSent' /\ GuardedTenant' = GuardedTenant
    BY <2>1, <1>1 DEF WellSent, GuardedTenant, Role, Home
  <2>4. request.by # None => AccountShown'
    BY <2>1, <2>2, <1>1 DEF AccountShown, Past, Role
  <2>5. request.by # None => ClientShown'
    BY <2>1, <2>2, <2>3, <1>1 DEF ClientShown, Past, Known
  <2> QED BY <2>3, <2>4, <2>5
<1>6. StrangersOnly'
  BY <1>1 DEF AccessIInv, ScopesHold, StrangersOnly, Home
<1> QED BY <1>1, <1>3, <1>4, <1>5, <1>6, NothingHandled DEF AccessIInv, ScopesHold

-----------------------------------------------------------------------------
(* The request goes through the guards. *)

LEMMA RequestSent ==
  ASSUME AccessAssumption, AccessIInv, NEW a \in Accounts \cup {None}, NEW k \in Kinds,
         NEW addressed \in Names, Send(a, k, addressed)
  PROVE  AccessIInv'
<1> DEFINE sent == [step |-> IF a = None THEN "scope" ELSE "session", by |-> a,
                    addressed |-> addressed, kind |-> k, refused |-> None]
<1>1. /\ (a = None) = (k.roles = Nobody)
      /\ k.path \in {"tenant", "word"} => addressed # None
      /\ k.path = "other" => addressed \in {Entity, Malformed}
      /\ k.path = "none" => addressed = None
      /\ request' = sent /\ stale' = FALSE /\ handled' = NoHandler
      /\ UNCHANGED <<account, client>>
  BY DEF Send, Names
<1>2. TypeOK
  BY DEF AccessIInv, ScopesHold
<1>3. TypeOK'
  <2>1. request' \in [step : Steps, by : Accounts \cup {None}, addressed : Names,
                      kind : Kinds, refused : Reasons \cup {None}]
    BY <1>1 DEF Steps
  <2> QED BY <2>1, <1>1, <1>2 DEF TypeOK
<1>4. Placed'
  BY <1>1 DEF AccessIInv, Placed, Role, Home
<1>5. RequestInv'
  <2>1. WellSent'
    BY <1>1 DEF WellSent
  <2>2. a # None => AccountShown' /\ ClientShown'
    BY <1>1 DEF AccountShown, ClientShown, Past
  <2> QED BY <1>1, <2>1, <2>2 DEF RequestInv
<1>6. StrangersOnly'
  BY <1>1 DEF StrangersOnly, AccessAssumption
<1> QED BY <1>1, <1>3, <1>4, <1>5, <1>6, NothingHandled DEF AccessIInv, ScopesHold

\* A guard that refuses.
LEMMA Refusals ==
  ASSUME AccessAssumption, AccessIInv, request # NoRequest, request.by # None,
         request.step # "refused", NEW reason \in Reasons \ {"key"}, Refuse(reason),
         reason = "mismatch" => At("scope") /\ Mismatch
  PROVE  AccessIInv'
<1>1. /\ request' = [request EXCEPT !.step = "refused", !.refused = reason]
      /\ UNCHANGED <<account, client, stale, handled>>
  BY DEF Refuse
<1>2. TypeOK
  BY DEF AccessIInv, ScopesHold
<1>3. request' = [step |-> "refused", by |-> request.by, addressed |-> request.addressed,
                  kind |-> request.kind, refused |-> reason]
  BY <1>1, <1>2 DEF TypeOK
<1>4. /\ request.by \in Accounts /\ request.addressed \in Names
      /\ request.kind \in Kinds
  BY <1>2 DEF TypeOK
<1>5. TypeOK'
  <2>1. request' \in [step : Steps, by : Accounts \cup {None}, addressed : Names,
                      kind : Kinds, refused : Reasons \cup {None}]
    BY <1>3, <1>4 DEF Steps
  <2> QED BY <2>1, <1>1, <1>2 DEF TypeOK
<1>6. Placed'
  BY <1>1 DEF AccessIInv, Placed, Role, Home
<1>7. WellSent /\ AccountShown
  BY DEF AccessIInv, RequestInv
<1>8. handled = NoHandler
  BY <1>7 DEF WellSent, AccessAssumption
<1>9. RequestInv'
  BY <1>1, <1>3, <1>7, <1>8 DEF RequestInv, WellSent, AccountShown, ClientShown, Past
<1>10. StrangersOnly'
  <2> SUFFICES ASSUME reason = "mismatch" PROVE StrangersOnly'
    BY <1>3 DEF StrangersOnly
  <2>1. /\ Role(request.by) # "staff"
        /\ request.addressed \in (Tenants \cup {Entity}) \ {Home(request.by)}
    BY <1>4 DEF Mismatch, Named, Names
  <2>2. CASE request.kind.path \in {"tenant", "word"}
    BY <2>1, <2>2, <1>1, <1>3 DEF StrangersOnly, Home
  <2>3. CASE request.kind.path = "other"
    <3>1. ~(request.kind.roles \subseteq Staff)
      BY <2>1, <1>7 DEF At, AccountShown, Past, Staff
    <3>2. \E r \in SharedQuizRoutes : r.name = "sharedQuiz" /\ Kind(r) = request.kind
      BY <2>3, <3>1, <1>4, RoutesDeclare DEF Declared
    <3> QED BY <3>2, <1>3 DEF StrangersOnly
  <2>4. request.kind.path # "none"
    BY <2>1, <1>7 DEF WellSent, AccessAssumption, Entity
  <2> QED BY <2>2, <2>3, <2>4, <1>4, RoutesDeclare DEF Declared
<1>11. HandledIsAllowed' /\ OwnRowsOnly' /\ StaffAreScoped'
  BY <1>1, <1>8, NothingHandled
<1> QED BY <1>5, <1>6, <1>9, <1>10, <1>11 DEF AccessIInv, ScopesHold

\* A guard that lets the request go on, once it has shown what the next one takes for
\* granted.
LEMMA GoingOn ==
  ASSUME AccessAssumption, AccessIInv, request # NoRequest, request.by # None,
         request.step # "refused", NEW step \in Steps \ {"refused"}, Go(step),
         AccountShown', ClientShown'
  PROVE  AccessIInv'
<1>1. /\ request' = [request EXCEPT !.step = step]
      /\ UNCHANGED <<account, client, stale, handled>>
  BY DEF Go
<1>2. TypeOK
  BY DEF AccessIInv, ScopesHold
<1>3. request' = [step |-> step, by |-> request.by, addressed |-> request.addressed,
                  kind |-> request.kind, refused |-> request.refused]
  BY <1>1, <1>2 DEF TypeOK
<1>4. TypeOK'
  <2>1. request' \in [step : Steps, by : Accounts \cup {None}, addressed : Names,
                      kind : Kinds, refused : Reasons \cup {None}]
    BY <1>2, <1>3 DEF TypeOK
  <2> QED BY <2>1, <1>1, <1>2 DEF TypeOK
<1>5. Placed'
  BY <1>1 DEF AccessIInv, Placed, Role, Home
<1>6. RequestInv'
  BY <1>1, <1>3 DEF AccessIInv, RequestInv, WellSent
<1>7. StrangersOnly'
  BY <1>1, <1>3 DEF AccessIInv, ScopesHold, StrangersOnly, Home
<1>8. HandledIsAllowed' /\ OwnRowsOnly' /\ StaffAreScoped'
  BY <1>1, NothingHandled DEF AccessIInv, RequestInv, WellSent, AccessAssumption
<1> QED BY <1>4, <1>5, <1>6, <1>7, <1>8 DEF AccessIInv, ScopesHold

-----------------------------------------------------------------------------
(* Each guard, and the handler behind them. *)

\* Whoever is at a guard signed in, and the guard's facts are those of their request.
LEMMA AtGuard ==
  ASSUME AccessAssumption, AccessIInv, request.step \in Steps \ {"scope", "refused"}
  PROVE  request # NoRequest /\ request.by # None /\ WellSent /\ AccountShown /\ ClientShown
BY DEF AccessIInv, RequestInv, WellSent, NoRequest, Steps

LEMMA Guards ==
  ASSUME AccessAssumption, AccessIInv,
         \/ Session \/ Enrolment \/ Approved \/ Consent \/ WritableGuard
         \/ RefuseMismatch \/ RefuseMalformed
  PROVE  AccessIInv'
<1> USE DEF At, Check, Past, Steps, Reasons
<1>1. TypeOK
  BY DEF AccessIInv, ScopesHold
<1>2. ASSUME NEW step \in Steps, request # NoRequest, Go(step)
      PROVE  /\ request'.step = step /\ request'.by = request.by /\ request'.kind = request.kind
             /\ UNCHANGED <<account, client, stale>>
             /\ GuardedTenant' = GuardedTenant /\ Known' = Known
             /\ Role(request.by)' = Role(request.by)
  BY <1>1, <1>2 DEF Go, TypeOK, GuardedTenant, Known, Role, Home
<1>3. CASE Session
  <2>1. CASE Refuse("session")
    BY <1>3, <2>1, AtGuard, Refusals DEF Session
  <2>2. CASE Go("enrolment") /\ account[request.by].there /\ account[request.by].active
    <3>1. AccountShown' /\ ClientShown'
      BY <1>3, <2>2, <1>2, AtGuard DEF Session, AccountShown, ClientShown
    <3> QED BY <1>3, <2>2, <3>1, AtGuard, GoingOn DEF Session
  <2> QED BY <1>3, <2>1, <2>2 DEF Session
<1>4. CASE Enrolment
  <2>1. CASE Refuse("role") \/ Refuse("enrolment")
    BY <1>4, <2>1, AtGuard, Refusals DEF Enrolment
  <2>2. CASE /\ Go("approved") /\ AllowedRole
             /\ \/ "unenrolled" \in request.kind.guards
                \/ ~account[request.by].there \/ account[request.by].enrolled
    <3>1. AccountShown' /\ ClientShown'
      BY <1>4, <2>2, <1>2, AtGuard DEF Enrolment, AllowedRole, AccountShown, ClientShown
    <3> QED BY <1>4, <2>2, <3>1, AtGuard, GoingOn DEF Enrolment
  <2> QED BY <1>4, <2>1, <2>2 DEF Enrolment
<1>5. CASE Approved
  <2>1. CASE Refuse("approved")
    BY <1>5, <2>1, AtGuard, Refusals DEF Approved
  <2>2. CASE Go("consent") /\
               ("approved" \in request.kind.guards => Known /\ client[GuardedTenant].level = "full")
    <3>1. AccountShown' /\ ClientShown'
      BY <1>5, <2>2, <1>2, AtGuard DEF Approved, AccountShown, ClientShown
    <3> QED BY <1>5, <2>2, <3>1, AtGuard, GoingOn DEF Approved
  <2> QED BY <1>5, <2>1, <2>2 DEF Approved
<1>6. CASE Consent
  <2>1. CASE Refuse("consent")
    BY <1>6, <2>1, AtGuard, Refusals DEF Consent
  <2>2. CASE Go("writable") /\ ("consent" \in request.kind.guards => client[GuardedTenant].signed)
    <3>1. AccountShown' /\ ClientShown'
      BY <1>6, <2>2, <1>2, AtGuard DEF Consent, AccountShown, ClientShown
    <3> QED BY <1>6, <2>2, <3>1, AtGuard, GoingOn DEF Consent
  <2> QED BY <1>6, <2>1, <2>2 DEF Consent
<1>7. CASE WritableGuard
  <2>1. CASE Refuse("writable")
    BY <1>7, <2>1, AtGuard, Refusals DEF WritableGuard
  <2>2. CASE Go("scope")
    <3>1. AccountShown' /\ ClientShown'
      BY <1>7, <2>2, <1>2, AtGuard DEF WritableGuard, AccountShown, ClientShown
    <3> QED BY <1>7, <2>2, <3>1, AtGuard, GoingOn DEF WritableGuard
  <2> QED BY <1>7, <2>1, <2>2 DEF WritableGuard
<1>8. CASE RefuseMismatch
  BY <1>8, Refusals DEF RefuseMismatch, Mismatch, NoRequest
<1>9. CASE RefuseMalformed
  <2>1. request # NoRequest /\ request.by # None
    <3>1. request # NoRequest /\ request.kind \in Kinds /\ WellSent /\ request.addressed = Malformed
      BY <1>1, <1>9 DEF RefuseMalformed, Parses, TypeOK, NoRequest, AccessIInv, RequestInv
    <3> QED BY <3>1, RoutesDeclare DEF WellSent, Declared, Malformed, AccessAssumption
  <2> QED BY <1>9, <2>1, Refusals DEF RefuseMalformed
<1> QED BY <1>3, <1>4, <1>5, <1>6, <1>7, <1>8, <1>9

\* The rows that a handler may touch: a client's account its own; staff those of the
\* client in the path, or all of them where no pipe parsed it.
AtHome(rows) ==
  /\ request.by # None /\ Role(request.by) # "staff" => rows \subseteq {Home(request.by)}
  /\ request.by # None /\ Role(request.by) = "staff" /\ request.kind.path \in {"tenant", "word"} =>
       \/ Scope \in Tenants \cup {Entity} /\ rows \subseteq {Scope}
       \/ Scope = System /\ request.kind.path = "word"

\* The scope at the handler.
LEMMA HandlerScope ==
  ASSUME AccessAssumption, AccessIInv, AtHandler
  PROVE  /\ request # NoRequest /\ WellSent
         /\ request.by # None => AccountShown /\ ClientShown
         /\ request.by \in Accounts \cup {None} /\ request.kind \in Kinds
         /\ Scope \in Scopes
         /\ request.by # None /\ Role(request.by) # "staff" =>
              /\ Scope = Home(request.by) /\ Home(request.by) \in Tenants
              /\ request.kind.path = "tenant" => request.addressed = Home(request.by)
         /\ request.by # None /\ Role(request.by) = "staff" /\ request.kind.path = "tenant" =>
              Scope = request.addressed /\ Scope \in Tenants \cup {Entity}
         /\ request.by # None /\ Role(request.by) = "staff" /\ request.kind.path = "word" =>
              /\ Scope \in Tenants \cup {Entity, System}
              /\ request.addressed \in Tenants => Scope = request.addressed
<1>1. TypeOK
  BY DEF AccessIInv, ScopesHold
<1>2. /\ request # NoRequest /\ request.by \in Accounts \cup {None} /\ request.kind \in Kinds
      /\ request.addressed \in Names
  BY <1>1 DEF AtHandler, At, TypeOK, NoRequest
<1>3. WellSent /\ (request.by # None => AccountShown /\ ClientShown)
  BY <1>2 DEF AccessIInv, RequestInv
<1>4. \A a \in Accounts : Home(a) \in Tenants \cup {None} /\ (Home(a) = None) = (Role(a) = "staff")
  BY <1>1 DEF TypeOK, Home, AccessIInv, Placed
<1>5. ASSUME request.by # None, Role(request.by) # "staff"
      PROVE  /\ Scope = Home(request.by) /\ Home(request.by) \in Tenants
             /\ request.kind.path = "tenant" => request.addressed = Home(request.by)
  <2>1. Scope = Home(request.by) /\ Home(request.by) \in Tenants
    BY <1>2, <1>4, <1>5 DEF Scope
  <2>2. request.kind.path = "tenant" => request.addressed = Home(request.by)
    BY <1>3, <1>5 DEF AtHandler, Mismatch, Named, Parses, WellSent
  <2> QED BY <2>1, <2>2
<1>6. ASSUME request.by # None, Role(request.by) = "staff", request.kind.path \in {"tenant", "word"}
      PROVE  /\ Scope \in Tenants \cup {Entity, System}
             /\ request.addressed # Malformed =>
                  Scope = request.addressed /\ Scope \in Tenants \cup {Entity}
  BY <1>2, <1>3, <1>6 DEF Scope, Named, Names, WellSent
<1>7. request.kind.path = "tenant" => request.addressed # Malformed
  BY DEF AtHandler, Parses
<1>8. Scope \in Scopes
  BY <1>2, <1>4 DEF Scope, Scopes, Named, Names
<1>9. Malformed \notin Tenants
  BY DEF AccessAssumption, Malformed
<1> QED BY <1>2, <1>3, <1>5, <1>6, <1>7, <1>8, <1>9

\* What the guards asked for holds of a handler that keeps to its rows.
LEMMA Answered ==
  ASSUME AccessAssumption, AccessIInv, AtHandler, NEW rows, NEW made, NEW keys,
         Answer(rows, made, keys), AtHome(rows \cup made)
  PROVE  HandledIsAllowed' /\ StaffAreScoped' /\ Placed'
<1>1. /\ handled' = [by |-> request.by, kind |-> request.kind, scope |-> Scope,
                     rows |-> rows, made |-> made, keys |-> keys]
      /\ UNCHANGED <<account, client, stale>>
  BY DEF Answer
<1>2. request.step = "scope" /\ request.kind \in Kinds /\ WellSent
  BY HandlerScope DEF AtHandler, At
<1>3. \A a \in Accounts : By(a)' => request.by = a /\ a # None /\ AccountShown /\ ClientShown
  BY <1>1, HandlerScope DEF By
<1>4. WithdrawnStopped' /\ UnenrolledOnlyEnrols'
  <2>1. "unenrolled" \in request.kind.guards => request.kind.does \in {"own", "read"}
    BY <1>2, RoutesDeclare DEF Declared
  <2> QED BY <2>1, <1>1, <1>2, <1>3 DEF WithdrawnStopped, UnenrolledOnlyEnrols, Does, AccountShown,
      Past
<1>5. RolesHold'
  BY <1>1, <1>2, <1>3, RoutesDeclare DEF RolesHold, Does, Role, AccountShown, Past, Declared, Staff
<1>6. ASSUME NEW a \in Accounts, request.by = a, a # None, request.kind.does = "send"
      PROVE  /\ {"approved", "consent"} \subseteq request.kind.guards /\ request.kind.path = "word"
             /\ GuardedTenant = Scope /\ Scope \in Tenants
  <2>1. {"approved", "consent"} \subseteq request.kind.guards /\ request.kind.path = "word"
    BY <1>2, <1>6, RoutesDeclare DEF Declared, Cleared
  <2>2. GuardedTenant \in Tenants
    BY <1>2, <1>6, <2>1, HandlerScope DEF ClientShown, Past, Known
  <2>3. GuardedTenant = Scope
    BY <1>6, <2>1, <2>2, HandlerScope DEF GuardedTenant
  <2> QED BY <2>1, <2>2, <2>3
<1>7. SendsAreCleared'
  <2> SUFFICES ASSUME NEW a \in Accounts, request.by = a, a # None, ~stale,
                      request.kind.does = "send", NEW t \in Tenants, t = Scope
               PROVE  client[t].signed /\ client[t].level = "full"
    BY <1>1, <1>3 DEF SendsAreCleared, Does
  <2> QED BY <1>2, <1>6, HandlerScope DEF ClientShown, Past
<1>8. StaffAreScoped'
  <2> SUFFICES ASSUME NEW a \in Accounts, request.by = a, a # None, Role(a) = "staff",
                      request.kind.path \in {"tenant", "word"}
               PROVE  \/ Scope \in Tenants \cup {Entity} /\ rows \cup made \subseteq {Scope}
                      \/ Scope = System /\ request.kind.path = "word" /\ request.kind.does # "send"
    BY <1>1, <1>3 DEF StaffAreScoped, IsClient, Role, Does
  <2>1. request.kind.does = "send" => Scope # System
    BY <1>6 DEF AccessAssumption, System
  <2> QED BY <2>1 DEF AtHome
<1>9. Placed'
  BY <1>1 DEF AccessIInv, Placed, Role, Home
<1> QED BY <1>4, <1>5, <1>7, <1>8, <1>9 DEF HandledIsAllowed

\* The request is over once it is answered.
LEMMA Finished ==
  ASSUME AccessAssumption, AccessIInv, AtHandler,
         NEW rows \in SUBSET Tenants, NEW made \in SUBSET Tenants, NEW keys \in SUBSET Tenants,
         Answer(rows, made, keys), AtHome(rows \cup made \cup keys), request' = NoRequest
  PROVE  AccessIInv'
<1>1. /\ handled' = [by |-> request.by, kind |-> request.kind, scope |-> Scope,
                     rows |-> rows, made |-> made, keys |-> keys]
      /\ UNCHANGED <<account, client, stale>>
  BY DEF Answer
<1>2. AtHome(rows \cup made)
  BY DEF AtHome
<1>3. TypeOK'
  BY <1>1, HandlerScope DEF TypeOK, AccessIInv, ScopesHold
<1>4. OwnRowsOnly'
  BY <1>1 DEF OwnRowsOnly, By, IsClient, Role, Home, AtHome
<1>5. RequestInv' /\ StrangersOnly'
  BY DEF RequestInv, StrangersOnly, NoRequest, AccessAssumption
<1> QED BY <1>2, <1>3, <1>4, <1>5, Answered DEF AccessIInv, ScopesHold

\* A request that went through is handled in its scope.
LEMMA Handles ==
  ASSUME AccessAssumption, AccessIInv, NEW supplied \in Tenants \cup {None}, Handle(supplied)
  PROVE  AccessIInv'
<1>1. AtHandler
  BY DEF Handle
<1>2. ASSUME NEW rows \in SUBSET Tenants, NEW written \in Tenants \cup {None},
             rows \subseteq ScopedWhere(Scope, supplied) \cup ScopedCreate(Scope, supplied)
                              \cup Moved(Scope, written)
      PROVE  AtHome(rows)
  BY <1>1, <1>2, HandlerScope
     DEF AtHome, ScopedWhere, ScopedCreate, Moved, System, Entity, AccessAssumption
<1>3. /\ ScopedWhere(Scope, supplied) \in SUBSET Tenants
      /\ ScopedCreate(Scope, supplied) \in SUBSET Tenants
      /\ \A written : Moved(Scope, written) \in SUBSET Tenants
  BY DEF ScopedWhere, ScopedCreate, Moved
<1>4. CASE Answer(ScopedWhere(Scope, supplied), {}, {}) /\ request' = NoRequest
  BY <1>1, <1>2, <1>3, <1>4, Finished
<1>5. CASE Answer({}, ScopedCreate(Scope, supplied), {}) /\ request' = NoRequest
  BY <1>1, <1>2, <1>3, <1>5, Finished
<1>6. ASSUME NEW written \in Tenants \cup {None},
             IF Reassigns(Scope, written)
             THEN Refuse("reassigned")
             ELSE /\ Answer(ScopedWhere(Scope, supplied), Moved(Scope, written), {})
                  /\ request' = NoRequest
      PROVE  AccessIInv'
  <2>1. CASE Reassigns(Scope, written)
    <3>1. request # NoRequest /\ request.by # None /\ request.step = "scope"
      BY <1>1, <2>1, HandlerScope DEF Reassigns, Scope, AtHandler, At
    <3> QED BY <1>6, <2>1, <3>1, Refusals DEF Reasons
  <2>2. CASE ~Reassigns(Scope, written)
    <3>1. AtHome(ScopedWhere(Scope, supplied) \cup Moved(Scope, written))
      BY <1>2, <1>3
    <3> QED BY <1>1, <1>3, <1>6, <2>2, <3>1, Finished
  <2> QED BY <2>1, <2>2
<1> QED BY <1>4, <1>5, <1>6 DEF Handle

\* Or outside of it, for the client of its path.
LEMMA HandlesOutside ==
  ASSUME AccessAssumption, AccessIInv, HandleOutside
  PROVE  AccessIInv'
<1>1. AtHandler /\ request.by # None /\ Answer(Outside, Outside, {}) /\ request' = NoRequest
  BY DEF HandleOutside
<1>2. Outside \in SUBSET Tenants
  BY DEF Outside
<1>3. AtHome(Outside)
  BY <1>1, HandlerScope DEF AtHome, Outside, System, Entity, AccessAssumption
<1> QED BY <1>1, <1>2, <1>3, Finished

\* A key is looked up, and honoured only for the client it was issued to.
LEMMA Redeems ==
  ASSUME AccessAssumption, AccessIInv, NEW owner \in Tenants, Redeem(owner)
  PROVE  AccessIInv'
<1>1. AtHandler /\ request.kind.does = "redeem"
  BY DEF Redeem
<1>2. CASE owner = request.addressed /\ Answer({owner}, {owner}, {owner}) /\ request' = NoRequest
  <2>1. request.kind.path = "tenant"
    BY <1>1, HandlerScope, RoutesDeclare DEF Declared
  <2>2. AtHome({owner})
    BY <1>1, <1>2, <2>1, HandlerScope DEF AtHome
  <2> QED BY <1>1, <1>2, <2>2, Finished
<1>3. CASE /\ Answer({}, {}, {owner})
           /\ request' = [request EXCEPT !.step = "refused", !.refused = "key"]
  <2>1. /\ handled' = [by |-> request.by, kind |-> request.kind, scope |-> Scope,
                       rows |-> {}, made |-> {}, keys |-> {owner}]
        /\ UNCHANGED <<account, client, stale>>
    BY <1>3 DEF Answer
  <2>2. TypeOK
    BY DEF AccessIInv, ScopesHold
  <2>3. request' = [step |-> "refused", by |-> request.by, addressed |-> request.addressed,
                    kind |-> request.kind, refused |-> "key"]
    BY <1>1, <1>3, <2>2, HandlerScope DEF TypeOK
  <2>4. request.addressed \in Names
    BY <1>1, <2>2, HandlerScope DEF TypeOK
  <2>5. TypeOK'
    <3>1. request' \in [step : Steps, by : Accounts \cup {None}, addressed : Names,
                        kind : Kinds, refused : Reasons \cup {None}]
      BY <1>1, <2>3, <2>4, HandlerScope DEF Steps, Reasons
    <3>2. handled' \in [by : Accounts \cup {None}, kind : Kinds, scope : Scopes,
                        rows : SUBSET Tenants, made : SUBSET Tenants, keys : SUBSET Tenants]
      BY <1>1, <2>1, HandlerScope
    <3> QED BY <2>1, <2>2, <3>1, <3>2 DEF TypeOK
  <2>6. RequestInv'
    <3>1. request.by # None
      BY <1>1, HandlerScope, RoutesDeclare DEF WellSent, Declared
    <3>2. WellSent'
      BY <1>1, <2>3, <3>1, HandlerScope DEF WellSent
    <3>3. AccountShown' /\ ClientShown'
      BY <2>3 DEF AccountShown, ClientShown, Past
    <3> QED BY <3>2, <3>3 DEF RequestInv
  <2>7. OwnRowsOnly' /\ StrangersOnly'
    BY <2>1, <2>3 DEF OwnRowsOnly, StrangersOnly
  <2>8. AtHome({})
    BY <1>1, HandlerScope DEF AtHome
  <2> QED BY <1>1, <1>3, <2>5, <2>6, <2>7, <2>8, Answered DEF AccessIInv, ScopesHold
<1> QED BY <1>2, <1>3 DEF Redeem

LEMMA Returns ==
  ASSUME AccessAssumption, AccessIInv, Return
  PROVE  AccessIInv'
<1>1. request' = NoRequest /\ handled' = NoHandler /\ UNCHANGED <<account, client, stale>>
  BY DEF Return
<1>2. TypeOK' /\ Placed' /\ RequestInv' /\ StrangersOnly'
  BY <1>1 DEF AccessIInv, ScopesHold, TypeOK, Placed, RequestInv, StrangersOnly, NoRequest, Role,
     Home, AccessAssumption
<1> QED BY <1>1, <1>2, NothingHandled DEF AccessIInv, ScopesHold

-----------------------------------------------------------------------------
\* What the guards have asked for still holds of a request whose account and client
\* have not changed since.
THEOREM AccessInductive ==
  ASSUME AccessAssumption
  PROVE  Spec => []AccessIInv
<1>1. Init => AccessIInv
  <2> SUFFICES ASSUME Init PROVE AccessIInv
    OBVIOUS
  <2>1. /\ request = NoRequest /\ stale = FALSE /\ handled = NoHandler
        /\ account \in [Accounts -> Row]
    BY DEF Init, Row
  <2>2. client \in [Tenants -> [signed : BOOLEAN, level : Levels]]
    BY DEF Init, AccessAssumption
  <2>3. TypeOK
    BY <2>1, <2>2 DEF TypeOK, Row
  <2>4. Placed /\ RequestInv
    BY <2>1 DEF Init, Placed, RequestInv
  <2>5. HandledIsAllowed /\ OwnRowsOnly /\ StaffAreScoped
    BY <2>1 DEF HandledIsAllowed, WithdrawnStopped, UnenrolledOnlyEnrols, RolesHold,
       SendsAreCleared, 
                OwnRowsOnly, StaffAreScoped, By, NoHandler
  <2>6. StrangersOnly
    BY <2>1 DEF StrangersOnly, NoRequest, AccessAssumption
  <2> QED BY <2>3, <2>4, <2>5, <2>6 DEF AccessIInv, ScopesHold
<1>2. AccessIInv /\ [Next]_vars => AccessIInv'
  <2> SUFFICES ASSUME AccessIInv, [Next]_vars PROVE AccessIInv'
    OBVIOUS
  <2>1. CASE UNCHANGED vars
    BY <2>1 DEF vars, AccessIInv, ScopesHold, HandledIsAllowed, TypeOK, Placed, RequestInv,
       WellSent, 
                AccountShown, ClientShown, Past, GuardedTenant, Known, WithdrawnStopped,
                  UnenrolledOnlyEnrols,
                RolesHold, SendsAreCleared, OwnRowsOnly, StaffAreScoped, StrangersOnly, By, Does,
                IsClient, Role, Home
  <2>2. ASSUME NEW a \in Accounts,
               Deactivate(a) \/ Reactivate(a) \/ Erase(a) \/ Enrol(a) \/ RequireEnrolment(a)
        PROVE  AccessIInv'
    <3>1. account[a] \in Row
      BY DEF AccessIInv, ScopesHold, TypeOK, Row
    <3>2. \E row \in Row : row.role = Role(a) /\ row.home = Home(a) /\ SetAccount(a, row)
      BY <2>2, <3>1 DEF Deactivate, Reactivate, Erase, Enrol, RequireEnrolment, Role, Home, Row
    <3> QED BY <3>2, AccountChanges
  <2>3. ASSUME NEW t \in Tenants, Sign(t) \/ \E level \in Levels : SetLevel(t, level)
        PROVE  AccessIInv'
    <3>1. client[t] \in [signed : BOOLEAN, level : Levels]
      BY DEF AccessIInv, ScopesHold, TypeOK
    <3>2. \E row \in [signed : BOOLEAN, level : Levels] : SetClient(t, row)
      BY <2>3, <3>1 DEF Sign, SetLevel
    <3> QED BY <3>2, ClientChanges
  <2> QED BY <2>1, <2>2, <2>3, RequestSent, Guards, Handles, HandlesOutside, Redeems,
         Returns DEF Next
<1> QED BY <1>1, <1>2, PTL DEF Spec

\* What an old token, a missing second factor, a role and a client that may not send
\* keep from every handler.
THEOREM GuardsKept ==
  ASSUME AccessAssumption
  PROVE  Spec => []HandledIsAllowed
<1>1. AccessIInv => HandledIsAllowed
  BY DEF AccessIInv
<1> QED BY <1>1, AccessInductive, PTL

\* Requests of one client never reach the rows of another, but for a key that they are
\* refused; those of staff keep to the client that the path names with a UUID.
THEOREM ScopesKept ==
  ASSUME AccessAssumption
  PROVE  Spec => []ScopesHold
<1>1. AccessIInv => ScopesHold
  BY DEF AccessIInv
<1> QED BY <1>1, AccessInductive, PTL

\* What is a behaviour of Requests is one of the guards: the others leave them alone.
THEOREM RequestsAccess == RequestsSpec => Spec
<1>1. RequestsInit => Init
  BY DEF RequestsInit
<1>2. [RequestsNext]_allVars => [Next]_vars
  BY DEF RequestsNext, allVars
<1> QED BY <1>1, <1>2, PTL DEF RequestsSpec, Spec

\* So what the guards and scopes keep to holds there.
THEOREM RequestsGuarded == RequestsSpec => [](HandledIsAllowed /\ ScopesHold)
<1>1. Spec => []HandledIsAllowed
  BY AccessAssumption, GuardsKept
<1>2. Spec => []ScopesHold
  BY AccessAssumption, ScopesKept
<1> QED BY <1>1, <1>2, RequestsAccess, PTL

\* A step is one of the component that the behaviour is of, and stays with it.
LEMMA StepsOfOne ==
  ASSUME RequestsNext
  PROVE  /\ focus' = focus
         /\ focus = "screens" => Web!Next
         /\ focus = "lessons" => Lessons!Next
BY DEF RequestsNext

\* So is a stutter, of every component.
LEMMA Focused ==
  ASSUME [RequestsNext]_allVars
  PROVE  /\ focus' = focus
         /\ focus = "screens" => [Web!Next]_(Web!vars)
         /\ focus = "lessons" => [Lessons!Next]_(Lessons!vars)
<1>1. CASE RequestsNext
  BY <1>1, StepsOfOne
<1>2. CASE UNCHANGED allVars
  BY <1>2 DEF allVars, lessonsVars, screensVars,
              Web!vars, Lessons!vars
<1> QED BY <1>1, <1>2

\* A behaviour begins in an initial state of its component.
LEMMA Begun ==
  ASSUME RequestsInit
  PROVE  /\ focus = "screens" => Web!Init
         /\ focus = "lessons" => Lessons!Init
BY DEF RequestsInit

-----------------------------------------------------------------------------
(* What the screens call, and what the controllers declare of it. *)

\* What the screens of administrators call.
AdminCalls ==
  {"setupMfa", "activateMfa", "disableMfa", "changePassword", "sharedModules",
   "sharedQuizzes", "trial", "readiness", "allowlist", "seatUsage", "getSecurity",
   "auditLog", "getBranding", "setSecurity", "unlockUser", "setBranding", "setLogo",
   "deactivateUser", "reactivateUser", "sendAllowlistProbe", "createUser", "resendInvite",
   "redeem", "domains", "addDomain", "verifyDomain", "removeDomain",
   "verifiedSendingDomains", "sendingDomains", "sharedSendingDomains", "addSendingDomain",
   "enableShared", "setSenderName", "refreshSendingDomain", "removeSendingDomain",
   "reportChannel", "employees", "risk", "riskCsv", "riskPdf", "riskAdvice",
   "enrolRepeatClickers", "removeEmployee", "uploadEmployees", "uploadCsv", "groups",
   "group", "createGroup", "updateGroup", "setMembers", "removeGroup", "campaigns",
   "preflight", "recipients", "createCampaign", "launch", "resume", "retryUnsent", "pause",
   "kill", "reportCsv", "report", "generateReport", "certificates", "certificatePdf",
   "scenarios", "generateScenario", "createScenario", "updateScenario", "removeScenario",
   "templates", "categories", "industries", "fromTemplate", "landingPages",
   "previewLanding", "quizzes", "quiz", "quizResults", "createQuiz", "quizFromShared",
   "updateQuiz", "importQuestions", "removeQuiz", "trainingModules", "moduleFromShared",
   "linkModule", "uploadModule", "setModuleQuiz", "removeModule", "routingRules",
   "assignments", "assignTraining", "upsertRule", "assignManually", "deleteRule",
   "markComplete", "phishReports"}

\* What the screens of staff call.
StaffCalls ==
  {"setupMfa", "activateMfa", "listStaff", "getPolicy", "inviteStaff", "updatePolicy",
   "resetStaffPassword", "resetStaffMfa", "deactivateStaff", "reactivateStaff", "auditLogs",
   "sharedModules", "sharedLink", "sharedUpload", "removeSharedModule", "sharedQuizzes",
   "createSharedQuiz", "removeSharedQuiz", "tenants", "overview", "pendingSignups",
   "createTenant", "tenant", "tenantUsers", "approve", "agreement", "setStatus",
   "removeTenant", "setDeliverability", "setDigest", "setLicense", "seatUsage",
   "createUser", "licenseKeys", "issueKey", "revokeKey", "campaigns", "kill", "templates",
   "createTemplate", "updateTemplate", "removeTemplate"}

\* What the screens call that nobody signs in for.
OpenCalls ==
  {"describeInvite", "acceptInvite", "verifyCertificate", "verifyPdf", "reportMail",
   "submit", "branding", "trackedQuiz", "submitTrackedQuiz", "moment", "openLesson",
   "submitQuiz", "completeLesson", "requestLink", "summary"}

EnrolCalls == {"setupMfa", "activateMfa"}

\* A route lets the screens in that call it.
LetsIn(r) ==
  /\ r.name \in AdminCalls => "admin" \in r.roles
  /\ r.name \in StaffCalls => "staff" \in r.roles
  /\ r.name \in OpenCalls => r.roles = Web!Nobody
  /\ r.name \in EnrolCalls => "unenrolled" \in r.guards

\* By group of routes.
LEMMA RoutesLetIn ==
  \A r \in Web!AllRoutes : LetsIn(r)
<1> SUFFICES ASSUME NEW r \in Web!AllRoutes PROVE LetsIn(r)
  OBVIOUS
<1> USE DEF LetsIn, Web!Routes, Web!Everyone, Web!Editors, Web!Staff, Web!Nobody, AdminCalls,
    StaffCalls, 
            OpenCalls, EnrolCalls
<1>1. CASE r \in Web!AuthRoutes
  BY <1>1 DEF Web!AuthRoutes
<1>2. CASE r \in Web!InviteRoutes
  BY <1>2 DEF Web!InviteRoutes
<1>3. CASE r \in Web!SignupRoutes
  BY <1>3 DEF Web!SignupRoutes
<1>4. CASE r \in Web!PlatformRoutes
  BY <1>4 DEF Web!PlatformRoutes
<1>5. CASE r \in Web!AuditRoutes
  BY <1>5 DEF Web!AuditRoutes
<1>6. CASE r \in Web!HealthRoutes
  BY <1>6 DEF Web!HealthRoutes
<1>7. CASE r \in Web!SharedModuleRoutes
  BY <1>7 DEF Web!SharedModuleRoutes
<1>8. CASE r \in Web!SharedQuizRoutes
  BY <1>8 DEF Web!SharedQuizRoutes
<1>9. CASE r \in Web!TenantRoutes
  BY <1>9 DEF Web!TenantRoutes
<1>10. CASE r \in Web!LicenseRoutes
  BY <1>10 DEF Web!LicenseRoutes
<1>11. CASE r \in Web!DomainRoutes
  BY <1>11 DEF Web!DomainRoutes
<1>12. CASE r \in Web!SendingDomainRoutes
  BY <1>12 DEF Web!SendingDomainRoutes
<1>13. CASE r \in Web!ReportChannelRoutes
  BY <1>13 DEF Web!ReportChannelRoutes
<1>14. CASE r \in Web!EmployeeRoutes
  BY <1>14 DEF Web!EmployeeRoutes
<1>15. CASE r \in Web!GroupRoutes
  BY <1>15 DEF Web!GroupRoutes
<1>16. CASE r \in Web!CampaignRoutes
  BY <1>16 DEF Web!CampaignRoutes
<1>17. CASE r \in Web!ReportRoutes
  BY <1>17 DEF Web!ReportRoutes
<1>18. CASE r \in Web!CertificateRoutes
  BY <1>18 DEF Web!CertificateRoutes
<1>19. CASE r \in Web!ScenarioRoutes
  BY <1>19 DEF Web!ScenarioRoutes
<1>20. CASE r \in Web!TemplateRoutes
  BY <1>20 DEF Web!TemplateRoutes
<1>21. CASE r \in Web!LandingRoutes
  BY <1>21 DEF Web!LandingRoutes
<1>22. CASE r \in Web!QuizRoutes
  BY <1>22 DEF Web!QuizRoutes
<1>23. CASE r \in Web!TrainingModuleRoutes
  BY <1>23 DEF Web!TrainingModuleRoutes
<1>24. CASE r \in Web!TrainingRoutes
  BY <1>24 DEF Web!TrainingRoutes
<1>25. CASE r \in Web!TrackingRoutes
  BY <1>25 DEF Web!TrackingRoutes
<1>26. CASE r \in Web!LearnRoutes
  BY <1>26 DEF Web!LearnRoutes
<1>27. CASE r \in Web!PortalRoutes
  BY <1>27 DEF Web!PortalRoutes
<1>28. CASE r \in Web!IntakeRoutes
  BY <1>28 DEF Web!IntakeRoutes
<1>29. CASE r \in Web!PostmarkRoutes
  BY <1>29 DEF Web!PostmarkRoutes
<1> HIDE DEF LetsIn
<1> QED
  BY <1>1, <1>2, <1>3, <1>4, <1>5, <1>6, <1>7, <1>8, <1>9, <1>10, <1>11, <1>12, <1>13, <1>14,
     <1>15, <1>16, <1>17, <1>18, <1>19, <1>20, <1>21, <1>22, <1>23, <1>24, <1>25, <1>26,
     <1>27, <1>28, <1>29,
     SMTT(60) DEF Web!AllRoutes

NamesOf(routes) == {r.name : r \in routes}

\* Declarations declare the names that they list.
LEMMA RoutesNamed ==
  ASSUME NEW names, NEW does, NEW roles, NEW path, NEW guards
  PROVE  NamesOf(Web!Routes(names, does, roles, path, guards)) = names
<1>1. ASSUME NEW n \in names PROVE n \in NamesOf(Web!Routes(names, does, roles, path, guards))
  <2> DEFINE r == [name |-> n, does |-> does, roles |-> roles, path |-> path, guards |-> guards]
  <2>1. r \in Web!Routes(names, does, roles, path, guards) /\ r.name = n
    BY DEF Web!Routes
  <2> QED BY <2>1 DEF NamesOf
<1>2. ASSUME NEW n \in NamesOf(Web!Routes(names, does, roles, path, guards)) PROVE n \in names
  BY <1>2 DEF NamesOf, Web!Routes
<1> QED BY <1>1, <1>2

LEMMA UnionNamed ==
  \A S, T : NamesOf(S \cup T) = NamesOf(S) \cup NamesOf(T)
BY DEF NamesOf

\* Every call is to a route that there is, by group of routes.
LEMMA CallsNamed ==
  AdminCalls \cup StaffCalls \cup OpenCalls \subseteq Web!RouteNames
<1>1. {"setupMfa", "activateMfa", "disableMfa", "changePassword"}
       \subseteq NamesOf(Web!AuthRoutes)
  BY RoutesNamed, UnionNamed DEF Web!AuthRoutes
<1>2. {"describeInvite", "acceptInvite"} \subseteq NamesOf(Web!InviteRoutes)
  BY RoutesNamed, UnionNamed DEF Web!InviteRoutes
<1>3. {"listStaff", "getPolicy", "inviteStaff", "updatePolicy", "resetStaffPassword",
       "resetStaffMfa", "deactivateStaff", "reactivateStaff"}
       \subseteq NamesOf(Web!PlatformRoutes)
  BY RoutesNamed, UnionNamed DEF Web!PlatformRoutes
<1>4. {"auditLogs"} \subseteq NamesOf(Web!AuditRoutes)
  BY RoutesNamed, UnionNamed DEF Web!AuditRoutes
<1>5. {"sharedModules", "sharedLink", "sharedUpload", "removeSharedModule"}
       \subseteq NamesOf(Web!SharedModuleRoutes)
  BY RoutesNamed, UnionNamed DEF Web!SharedModuleRoutes
<1>6. {"sharedQuizzes", "createSharedQuiz", "removeSharedQuiz"}
       \subseteq NamesOf(Web!SharedQuizRoutes)
  BY RoutesNamed, UnionNamed DEF Web!SharedQuizRoutes
<1>7. {"tenants", "overview", "pendingSignups", "createTenant", "tenant", "tenantUsers",
       "approve", "agreement", "setStatus", "removeTenant", "setDeliverability"}
       \subseteq NamesOf(Web!TenantRoutes)
  BY RoutesNamed, UnionNamed, SMTT(60) DEF Web!TenantRoutes
<1>8. {"setDigest", "setLicense", "trial", "readiness", "allowlist", "seatUsage",
       "getSecurity", "auditLog", "getBranding", "setSecurity", "unlockUser"}
       \subseteq NamesOf(Web!TenantRoutes)
  BY RoutesNamed, UnionNamed, SMTT(60) DEF Web!TenantRoutes
<1>9. {"setBranding", "setLogo", "deactivateUser", "reactivateUser", "sendAllowlistProbe",
       "createUser", "resendInvite"}
       \subseteq NamesOf(Web!TenantRoutes)
  BY RoutesNamed, UnionNamed, SMTT(60) DEF Web!TenantRoutes
<1>10. {"licenseKeys", "issueKey", "revokeKey", "redeem"} \subseteq NamesOf(Web!LicenseRoutes)
  BY RoutesNamed, UnionNamed DEF Web!LicenseRoutes
<1>11. {"domains", "addDomain", "verifyDomain", "removeDomain"}
       \subseteq NamesOf(Web!DomainRoutes)
  BY RoutesNamed, UnionNamed DEF Web!DomainRoutes
<1>12. {"verifiedSendingDomains", "sendingDomains", "sharedSendingDomains",
       "addSendingDomain", "enableShared", "setSenderName", "refreshSendingDomain",
       "removeSendingDomain"}
       \subseteq NamesOf(Web!SendingDomainRoutes)
  BY RoutesNamed, UnionNamed DEF Web!SendingDomainRoutes
<1>13. {"reportChannel"} \subseteq NamesOf(Web!ReportChannelRoutes)
  BY RoutesNamed, UnionNamed DEF Web!ReportChannelRoutes
<1>14. {"employees", "risk", "riskCsv", "riskPdf", "riskAdvice", "enrolRepeatClickers",
       "removeEmployee", "uploadEmployees", "uploadCsv"}
       \subseteq NamesOf(Web!EmployeeRoutes)
  BY RoutesNamed, UnionNamed DEF Web!EmployeeRoutes
<1>15. {"groups", "group", "createGroup", "updateGroup", "setMembers", "removeGroup"}
       \subseteq NamesOf(Web!GroupRoutes)
  BY RoutesNamed, UnionNamed DEF Web!GroupRoutes
<1>16. {"campaigns", "preflight", "recipients", "createCampaign", "launch", "resume",
       "retryUnsent", "pause", "kill"}
       \subseteq NamesOf(Web!CampaignRoutes)
  BY RoutesNamed, UnionNamed DEF Web!CampaignRoutes
<1>17. {"reportCsv", "report", "generateReport"} \subseteq NamesOf(Web!ReportRoutes)
  BY RoutesNamed, UnionNamed DEF Web!ReportRoutes
<1>18. {"certificates", "certificatePdf", "verifyCertificate", "verifyPdf"}
       \subseteq NamesOf(Web!CertificateRoutes)
  BY RoutesNamed, UnionNamed DEF Web!CertificateRoutes
<1>19. {"scenarios", "generateScenario", "createScenario", "updateScenario",
       "removeScenario"}
       \subseteq NamesOf(Web!ScenarioRoutes)
  BY RoutesNamed, UnionNamed DEF Web!ScenarioRoutes
<1>20. {"templates", "categories", "industries", "createTemplate", "updateTemplate",
       "removeTemplate", "fromTemplate"}
       \subseteq NamesOf(Web!TemplateRoutes)
  BY RoutesNamed, UnionNamed DEF Web!TemplateRoutes
<1>21. {"landingPages", "previewLanding"} \subseteq NamesOf(Web!LandingRoutes)
  BY RoutesNamed, UnionNamed DEF Web!LandingRoutes
<1>22. {"quizzes", "quiz", "quizResults", "createQuiz", "quizFromShared", "updateQuiz",
       "importQuestions", "removeQuiz"}
       \subseteq NamesOf(Web!QuizRoutes)
  BY RoutesNamed, UnionNamed DEF Web!QuizRoutes
<1>23. {"trainingModules", "moduleFromShared", "linkModule", "uploadModule",
       "setModuleQuiz", "removeModule"}
       \subseteq NamesOf(Web!TrainingModuleRoutes)
  BY RoutesNamed, UnionNamed DEF Web!TrainingModuleRoutes
<1>24. {"routingRules", "assignments", "assignTraining", "upsertRule", "assignManually",
       "deleteRule", "markComplete"}
       \subseteq NamesOf(Web!TrainingRoutes)
  BY RoutesNamed, UnionNamed DEF Web!TrainingRoutes
<1>25. {"reportMail", "submit", "branding", "trackedQuiz", "submitTrackedQuiz", "moment"}
       \subseteq NamesOf(Web!TrackingRoutes)
  BY RoutesNamed, UnionNamed DEF Web!TrackingRoutes
<1>26. {"openLesson", "submitQuiz", "completeLesson"} \subseteq NamesOf(Web!LearnRoutes)
  BY RoutesNamed, UnionNamed DEF Web!LearnRoutes
<1>27. {"requestLink", "summary"} \subseteq NamesOf(Web!PortalRoutes)
  BY RoutesNamed, UnionNamed DEF Web!PortalRoutes
<1>28. {"phishReports"} \subseteq NamesOf(Web!IntakeRoutes)
  BY RoutesNamed, UnionNamed DEF Web!IntakeRoutes
<1> DEFINE groups ==
             {Web!AuthRoutes, Web!InviteRoutes, Web!PlatformRoutes, Web!AuditRoutes,
              Web!SharedModuleRoutes, Web!SharedQuizRoutes, Web!TenantRoutes,
              Web!LicenseRoutes, Web!DomainRoutes, Web!SendingDomainRoutes,
              Web!ReportChannelRoutes, Web!EmployeeRoutes, Web!GroupRoutes,
              Web!CampaignRoutes, Web!ReportRoutes, Web!CertificateRoutes,
              Web!ScenarioRoutes, Web!TemplateRoutes, Web!LandingRoutes, Web!QuizRoutes,
              Web!TrainingModuleRoutes, Web!TrainingRoutes, Web!TrackingRoutes,
              Web!LearnRoutes, Web!PortalRoutes, Web!IntakeRoutes}
<1>29. \A routes \in groups : routes \subseteq Web!AllRoutes
  BY DEF Web!AllRoutes
<1>30. \A routes : routes \subseteq Web!AllRoutes => NamesOf(routes) \subseteq Web!RouteNames
  BY DEF NamesOf, Web!RouteNames
<1>31. \A routes \in groups : NamesOf(routes) \subseteq Web!RouteNames
  BY <1>29, <1>30
<1>32. AdminCalls \subseteq Web!RouteNames
  BY <1>1, <1>5, <1>6, <1>8, <1>9, <1>10, <1>11, <1>12, <1>13, <1>14, <1>15, <1>16, <1>17,
     <1>18, <1>19, <1>20, <1>21, <1>22, <1>23, <1>24, <1>28, <1>31 DEF AdminCalls
<1>33. StaffCalls \subseteq Web!RouteNames
  BY <1>1, <1>3, <1>4, <1>5, <1>6, <1>7, <1>8, <1>9, <1>10, <1>16, <1>20, <1>31
     DEF StaffCalls
<1>34. OpenCalls \subseteq Web!RouteNames
  BY <1>2, <1>18, <1>25, <1>26, <1>27, <1>31 DEF OpenCalls
<1> QED BY <1>32, <1>33, <1>34

\* So the screens may go by the routes' names.
LEMMA RoutesFit ==
  /\ \A n \in AdminCalls : "admin" \in Web!Route[n].roles
  /\ \A n \in StaffCalls : "staff" \in Web!Route[n].roles
  /\ \A n \in OpenCalls : Web!Route[n].roles = Web!Nobody
  /\ \A n \in EnrolCalls : "unenrolled" \in Web!Route[n].guards
<1>1. \A n \in Web!RouteNames : Web!Route[n] \in Web!AllRoutes /\ Web!Route[n].name = n
  BY DEF Web!Route, Web!RouteNames
<1>2. \A n \in Web!RouteNames : LetsIn(Web!Route[n]) /\ Web!Route[n].name = n
  BY <1>1, RoutesLetIn
<1>3. EnrolCalls \subseteq AdminCalls
  BY DEF EnrolCalls, AdminCalls
<1> QED BY <1>2, <1>3, CallsNamed DEF LetsIn

-----------------------------------------------------------------------------
(* The screens.  Each calls what its people may, and the links lead where    *)
(* they may be.                                                              *)

\* Who may open the screen may call all that it calls, but for viewers.
Agrees(screen) ==
  \A role \in screen.allow \ {"viewer"} : \A n \in screen.calls[role] : role \in Web!Route[n].roles

LEMMA ScreenAgrees ==
  ASSUME NEW allow \in SUBSET Web!Everyone, NEW calls,
         "admin" \in allow => calls \subseteq AdminCalls,
         "staff" \in allow => calls \subseteq StaffCalls
  PROVE  /\ Web!Screen(allow, calls).allow = allow
         /\ \A role \in allow : calls \subseteq Web!Screen(allow, calls).calls[role]
         /\ Agrees(Web!Screen(allow, calls))
<1>1. /\ Web!Screen(allow, calls).allow = allow
      /\ \A role \in allow : Web!Screen(allow, calls).calls[role] = calls \cup Web!TrialBanner(role)
  BY DEF Web!Screen
<1>2. Web!TrialBanner("staff") = {} /\ Web!TrialBanner("admin") \subseteq AdminCalls
  BY DEF Web!TrialBanner, AdminCalls
<1>3. ASSUME NEW role \in allow \ {"viewer"}, NEW n \in Web!Screen(allow, calls).calls[role]
      PROVE  role \in Web!Route[n].roles
  <2>1. role \in {"admin", "staff"} /\ n \in calls \cup Web!TrialBanner(role)
    BY <1>1, <1>3 DEF Web!Everyone
  <2> QED BY <1>2, <2>1, RoutesFit
<1> QED BY <1>1, <1>3 DEF Agrees

\* Each screen of staff.
LEMMA StaffScreens ==
  \A screen \in {Web!ClientList, Web!ClientDetail, Web!SharedLibrary, Web!QuizLibrary,
    Web!StaffAudit, Web!StaffScenarios,
                 Web!StaffAccounts, Web!StaffSecurity} :
    screen.allow = Web!Staff /\ Agrees(screen)
<1> USE ScreenAgrees DEF Web!Staff, Web!Everyone, StaffCalls
<1>1. Web!ClientList.allow = Web!Staff /\ Agrees(Web!ClientList)
  BY DEF Web!ClientList
<1>2. Web!ClientDetail.allow = Web!Staff /\ Agrees(Web!ClientDetail)
  BY DEF Web!ClientDetail
<1>3. Web!SharedLibrary.allow = Web!Staff /\ Agrees(Web!SharedLibrary)
  BY DEF Web!SharedLibrary
<1>4. Web!QuizLibrary.allow = Web!Staff /\ Agrees(Web!QuizLibrary)
  BY DEF Web!QuizLibrary
<1>5. Web!StaffAudit.allow = Web!Staff /\ Agrees(Web!StaffAudit)
  BY DEF Web!StaffAudit
<1>6. Web!StaffScenarios.allow = Web!Staff /\ Agrees(Web!StaffScenarios)
  BY DEF Web!StaffScenarios
<1>7. Web!StaffAccounts.allow = Web!Staff /\ Agrees(Web!StaffAccounts)
  BY DEF Web!StaffAccounts
<1>8. Web!StaffSecurity.allow = Web!Staff /\ Agrees(Web!StaffSecurity)
  BY DEF Web!StaffSecurity
<1> QED BY <1>1, <1>2, <1>3, <1>4, <1>5, <1>6, <1>7, <1>8

\* Each screen of administrators.
LEMMA AdminScreens ==
  \A screen \in {Web!Campaigns, Web!CampaignDetail, Web!Scenarios, Web!Templates, Web!Content,
    Web!Quizzes, Web!Routing,
                 Web!Employees, Web!Groups, Web!Domains, Web!SendingDomains, Web!ReportingSetup,
                   Web!Branding, Web!License,
                 Web!Security} :
    screen.allow = Web!Admin /\ Agrees(screen)
<1> USE ScreenAgrees DEF Web!Admin, Web!Everyone, AdminCalls
<1>1. Web!Campaigns.allow = Web!Admin /\ Agrees(Web!Campaigns)
  BY DEF Web!Campaigns, Web!ReadinessChecklist
<1>2. Web!CampaignDetail.allow = Web!Admin /\ Agrees(Web!CampaignDetail)
  BY DEF Web!CampaignDetail, Web!CampaignReport, Web!CreateGroupModal
<1>3. Web!Scenarios.allow = Web!Admin /\ Agrees(Web!Scenarios)
  BY DEF Web!Scenarios
<1>4. Web!Templates.allow = Web!Admin /\ Agrees(Web!Templates)
  BY DEF Web!Templates
<1>5. Web!Content.allow = Web!Admin /\ Agrees(Web!Content)
  BY DEF Web!Content, Web!ContentCalls
<1>6. Web!Quizzes.allow = Web!Admin /\ Agrees(Web!Quizzes)
  BY DEF Web!Quizzes
<1>7. Web!Routing.allow = Web!Admin /\ Agrees(Web!Routing)
  BY DEF Web!Routing
<1>8. Web!Employees.allow = Web!Admin /\ Agrees(Web!Employees)
  BY DEF Web!Employees
<1>9. Web!Groups.allow = Web!Admin /\ Agrees(Web!Groups)
  BY DEF Web!Groups
<1>10. Web!Domains.allow = Web!Admin /\ Agrees(Web!Domains)
  BY DEF Web!Domains
<1>11. Web!SendingDomains.allow = Web!Admin /\ Agrees(Web!SendingDomains)
  BY DEF Web!SendingDomains
<1>12. Web!ReportingSetup.allow = Web!Admin /\ Agrees(Web!ReportingSetup)
  BY DEF Web!ReportingSetup
<1>13. Web!Branding.allow = Web!Admin /\ Agrees(Web!Branding)
  BY DEF Web!Branding
<1>14. Web!License.allow = Web!Admin /\ Agrees(Web!License)
  BY DEF Web!License
<1>15. Web!Security.allow = Web!Admin /\ Agrees(Web!Security)
  BY DEF Web!Security
<1> QED BY <1>1, <1>2, <1>3, <1>4, <1>5, <1>6, <1>7, <1>8, <1>9, <1>10, <1>11, <1>12, <1>13, <1>14,
        <1>15

\* Those that viewers share, or have to themselves.
LEMMA ViewerScreens ==
  /\ Web!Dashboard.allow = {"viewer"} /\ Agrees(Web!Dashboard)
  /\ \A screen \in {Web!Risk, Web!Certificates, Web!Reported} :
       screen.allow = Web!Clients /\ Agrees(screen)
<1> USE ScreenAgrees DEF Web!Everyone
<1>1. Web!Dashboard.allow = {"viewer"} /\ Agrees(Web!Dashboard)
  BY DEF Web!Dashboard
<1>2. Web!Risk.allow = Web!Clients /\ Agrees(Web!Risk)
  <2>1. /\ Web!Risk.allow = Web!Clients /\ "admin" \in Web!Clients
        /\ Web!Clients \ {"viewer"} = {"admin"}
        /\ Web!Risk.calls["admin"] \subseteq AdminCalls
    BY DEF Web!Risk, Web!Clients, Web!TrialBanner, AdminCalls
  <2> QED BY <2>1, RoutesFit DEF Agrees
<1>3. Web!Certificates.allow = Web!Clients /\ Agrees(Web!Certificates)
  BY DEF Web!Certificates, Web!Clients, AdminCalls
<1>4. Web!Reported.allow = Web!Clients /\ Agrees(Web!Reported)
  BY DEF Web!Reported, Web!Clients, AdminCalls
<1> QED BY <1>1, <1>2, <1>3, <1>4

\* Every screen of the console agrees with the controllers.
LEMMA ConsoleAgrees ==
  \A p \in DOMAIN Web!Console :
    Agrees(Web!Console[p]) /\ Web!Console[p].allow \subseteq Web!Everyone
<1>1. \A p \in DOMAIN Web!Console :
        Web!Console[p] \in {Web!ClientList, Web!ClientDetail, Web!SharedLibrary,
          Web!QuizLibrary, Web!StaffAudit,
                        Web!StaffScenarios,
                        Web!StaffAccounts, Web!StaffSecurity}
                  \cup {Web!Campaigns, Web!CampaignDetail, Web!Scenarios, Web!Templates,
                    Web!Content, Web!Quizzes, Web!Routing,
                        Web!Employees, Web!Groups, Web!Domains, Web!SendingDomains,
                          Web!ReportingSetup, Web!Branding,
                        Web!License, Web!Security}
                  \cup {Web!Dashboard, Web!Risk, Web!Certificates, Web!Reported}
  BY DEF Web!Console
<1> QED BY <1>1, StaffScreens, AdminScreens, ViewerScreens DEF Web!Staff, Web!Admin, Web!Clients,
    Web!Everyone

\* Everyone's home is a screen that they may open.
LEMMA HomesOpen ==
  \A role \in Web!Everyone :
    Web!HomeFor(role) \in DOMAIN Web!Console /\ role \in Web!Console[Web!HomeFor(role)].allow
<1>1. /\ {"clientList", "campaigns", "dashboard"} \subseteq DOMAIN Web!Console
      /\ Web!Console["clientList"] = Web!ClientList /\ Web!Console["campaigns"] = Web!Campaigns
      /\ Web!Console["dashboard"] = Web!Dashboard
  BY DEF Web!Console
<1> QED BY <1>1, StaffScreens, AdminScreens, ViewerScreens DEF Web!HomeFor, Web!Everyone, Web!Staff,
    Web!Admin

\* Links lead where those who see them may go.
LEMMA LinksOpen ==
  \A role \in Web!Everyone : \A p \in Web!NavBar[role] :
    p \in DOMAIN Web!Console /\ role \in Web!Console[p].allow
<1>1. \A p \in Web!NavBar["staff"] : p \in DOMAIN Web!Console /\ Web!Console[p].allow = Web!Staff
  BY StaffScreens DEF Web!NavBar, Web!Console
<1>2. \A p \in Web!NavBar["admin"] :
        p \in DOMAIN Web!Console /\ Web!Console[p].allow \in {Web!Admin, Web!Clients}
  BY AdminScreens, ViewerScreens DEF Web!NavBar, Web!Console
<1>3. \A p \in Web!NavBar["viewer"] :
        p \in DOMAIN Web!Console /\ Web!Console[p].allow \in {{"viewer"}, Web!Clients}
  BY ViewerScreens DEF Web!NavBar, Web!Console
<1> QED BY <1>1, <1>2, <1>3 DEF Web!Everyone, Web!Staff, Web!Admin, Web!Clients

\* Administrators and staff can enrol on the screen that the sign-in sends them to.
LEMMA SecurityOpens ==
  \A role \in Web!Editors : /\ Web!SecurityPath(role) \in DOMAIN Web!Console
                            /\ role \in Web!Console[Web!SecurityPath(role)].allow
                            /\ EnrolCalls \subseteq Web!Console[Web!SecurityPath(role)].calls[role]
<1>1. /\ {"staffSecurity", "security"} \subseteq DOMAIN Web!Console
      /\ Web!Console["staffSecurity"] = Web!StaffSecurity /\ Web!Console["security"] = Web!Security
  BY DEF Web!Console
<1>2. EnrolCalls \subseteq Web!StaffSecurity.calls["staff"]
  BY ScreenAgrees DEF Web!StaffSecurity, EnrolCalls, Web!Staff, Web!Everyone, StaffCalls
<1>3. EnrolCalls \subseteq Web!Security.calls["admin"]
  BY ScreenAgrees DEF Web!Security, EnrolCalls, Web!Admin, Web!Everyone, AdminCalls
<1> QED BY <1>1, <1>2, <1>3, StaffScreens, AdminScreens DEF Web!SecurityPath, Web!Editors,
    Web!Staff, Web!Admin

\* Screens with and without a sign-in are different ones.
LEMMA PlacesApart ==
  /\ DOMAIN Web!Console \cup DOMAIN Web!Public \cup {"index", "login", "staffLogin"} = Web!Places
  /\ DOMAIN Web!Console \cap (DOMAIN Web!Public \cup {"index", "login", "staffLogin"}) = {}
  /\ DOMAIN Web!Public \cap {"index", "login", "staffLogin"} = {}
  /\ DOMAIN Web!Accepts = {"login", "staffLogin"}
BY DEF Web!Console, Web!Public, Web!Accepts, Web!Places

\* What a screen without a sign-in calls is open.
LEMMA PublicOpen ==
  \A p \in DOMAIN Web!Public : \A n \in Web!Public[p] : Web!Route[n].roles = Web!Nobody
<1>1. \A p \in DOMAIN Web!Public : Web!Public[p] \subseteq OpenCalls
  BY DEF Web!Public, Web!ReportButton, Web!QuizCalls, Web!MomentCalls, Web!LoginForm,
     Web!LoginPageCalls, 
     Web!CompleteCalls, Web!LessonCalls,
         Web!PortalDashboard, Web!PortalCalls, Web!InviteCalls, Web!VerifyCalls, OpenCalls
<1> QED BY <1>1, RoutesFit

-----------------------------------------------------------------------------
(* The tab *)

\* What the tab shows, and for whom, goes with where it came from.
MountedAllowed ==
  Web!Mounted => screens_tab.at \in DOMAIN Web!Console /\ Web!Role(screens_tab.by) \in Web!Allowed
MountedOwn     == Web!Mounted /\ screens_tab.own => screens_stored.by = screens_tab.by
WaitingAsks    ==
  ~Web!Mounted /\ screens_tab.at \notin DOMAIN Web!Public => screens_tab.answer = "none"
PublicAnswers  == screens_tab.at \in DOMAIN Web!Public => screens_tab.answer \in {"none", "ok"}
IndexFresh     == screens_tab.at = "index" => /\ ~Web!Mounted /\ ~screens_tab.own
                                              /\ ~screens_tab.sent /\ ~screens_tab.led
                                               /\ screens_tab.hops = 0
                                               /\ screens_tab.answer = "none"

\* A tab that was redirected, or led by a link, stays where it is.
SettlesNext == Web!Waiting /\ (screens_tab.hops > 0 \/ screens_tab.led) =>
  Web!Usable /\ Web!Role(screens_stored.by) \in Web!Allowed

\* A tab that the sign-in sent to enrol is on its way there, or there.
SentThere ==
  /\ screens_tab.sent /\ Web!Waiting =>
       /\ screens_stored.by # None
       /\ Web!Role(screens_stored.by) # "viewer" =>
            screens_tab.at = Web!SecurityPath(Web!Role(screens_stored.by))
  /\ Web!SentHere /\ Web!Role(screens_tab.by) # "viewer" =>
       screens_tab.at = Web!SecurityPath(Web!Role(screens_tab.by))

\* An administrator's or staff's own session is refused for want of the role nowhere.
OwnAnswers == Web!Mounted /\ screens_tab.own /\ screens_tab.answer = "role" =>
  Web!Role(screens_tab.by) = "viewer"

ScreensIInv ==
  /\ Web!TypeOK /\ MountedAllowed /\ MountedOwn /\ WaitingAsks /\ PublicAnswers /\ IndexFresh
  /\ SettlesNext /\ Web!RedirectsSettle /\ Web!NavLeadsThere /\ SentThere /\ OwnAnswers

\* The answers of the API are those that the screens tell apart.
LEMMA AnswersFit ==
  \A n : Web!ApiAnswer(n) \in Web!Answers
BY DEF Web!ApiAnswer, Web!Answers

\* Nobody's role changes.
LEMMA RolesStay ==
  ASSUME Web!TypeOK, Web!Next
  PROVE  \A a \in Persons : Web!Role(a)' = Web!Role(a)
<1> USE DEF Web!TypeOK, Web!Role
<1>1. ASSUME UNCHANGED screens_account PROVE \A a \in Persons : Web!Role(a)' = Web!Role(a)
  BY <1>1
<1>2. ASSUME NEW a, NEW e, screens_account' = [screens_account EXCEPT ![a].enrolled = e]
      PROVE  \A b \in Persons : Web!Role(b)' = Web!Role(b)
  BY <1>2
<1>3. ASSUME NEW a, NEW e, screens_account' = [screens_account EXCEPT ![a].active = e]
      PROVE  \A b \in Persons : Web!Role(b)' = Web!Role(b)
  BY <1>3
<1>4. ASSUME NEW n, Web!Call(n) PROVE \A b \in Persons : Web!Role(b)' = Web!Role(b)
  BY <1>4, <1>1, <1>2 DEF Web!Call
<1> HIDE DEF Web!Role
<1> QED BY <1>1, <1>3, <1>4 DEF Web!Next, Web!Index, Web!GuardSignsOut, Web!GuardSendsHome,
    Web!GuardLetsIn, Web!SignOut, 
        Web!Timer, Web!Visible, Web!Expire, Web!SignOutElsewhere, Web!SignInElsewhere,
          Web!StoredElsewhere, Web!Visit, Web!Follow,
        Web!Leave, Web!SignIn, Web!PublicCall, Web!SetActive, Web!SetPolicy

\* Where the console sends somebody is a place of its own.
LEMMA WaysLead ==
  /\ {"index", "login", "staffLogin"} \subseteq Web!Places
  /\ \A allow : Web!LoginPathForAllowed(allow) \in {"login", "staffLogin"}
  /\ \A role : Web!LoginPathFor(role) \in {"login", "staffLogin"}
  /\ \A role \in Web!Everyone : Web!HomeFor(role) \in DOMAIN Web!Console
  /\ \A role \in Web!Everyone : Web!SecurityPath(role) \in DOMAIN Web!Console
  /\ DOMAIN Web!Console \subseteq Web!Places
<1>1. {"staffSecurity", "security"} \subseteq DOMAIN Web!Console
  BY SecurityOpens DEF Web!SecurityPath, Web!Editors
<1> QED BY <1>1, PlacesApart, HomesOpen DEF Web!LoginPathForAllowed, Web!LoginPathFor,
    Web!SecurityPath

\* A screen that was just opened says nothing about anybody.
LEMMA FreshTab ==
  ASSUME NEW p, screens_tab'.at = p, screens_tab'.by = None, ~screens_tab'.own, ~screens_tab'.sent,
           screens_tab'.hops = 0,
         screens_tab'.answer = "none", p = "index" => ~screens_tab'.led,
         screens_tab'.led =>
           p \in DOMAIN Web!Console /\ Web!Usable' /\
             Web!Role(screens_stored.by)' \in Web!Console[p].allow
  PROVE  /\ MountedAllowed' /\ MountedOwn' /\ WaitingAsks' /\ PublicAnswers'
         /\ SettlesNext' /\ Web!RedirectsSettle' /\ Web!NavLeadsThere' /\ SentThere' /\ OwnAnswers'
         /\ IndexFresh'
BY DEF MountedAllowed, MountedOwn, WaitingAsks, PublicAnswers, SettlesNext, Web!RedirectsSettle,
   Web!NavLeadsThere, SentThere, Web!SentHere, OwnAnswers, IndexFresh, Web!Mounted, Web!Waiting,
     Web!Allowed

\* What a tab may be, and stays.
Tabs == [at : Web!Places, by : Persons \cup {None}, own : BOOLEAN, sent : BOOLEAN, led : BOOLEAN,
         hops : 0 .. Web!MaxHops, answer : Web!Answers]

LEMMA TabsMove ==
  ASSUME NEW t \in Tabs, NEW own \in BOOLEAN, NEW sent \in BOOLEAN, NEW led \in BOOLEAN,
         NEW hops \in 0 .. Web!MaxHops
  PROVE  [t EXCEPT !.own = own, !.sent = sent, !.led = led, !.hops = hops] \in Tabs
<1>1. ASSUME NEW u \in Tabs
      PROVE  /\ [u EXCEPT !.own = own] \in Tabs /\ [u EXCEPT !.sent = sent] \in Tabs
             /\ [u EXCEPT !.led = led] \in Tabs /\ [u EXCEPT !.hops = hops] \in Tabs
  BY DEF Tabs
<1> QED BY <1>1, Zenon

\* An opened screen has its type, wherever a link or a redirect came from.
LEMMA OpenedTypes ==
  ASSUME NEW p \in Web!Places, NEW sent \in BOOLEAN, NEW led \in BOOLEAN,
           NEW hops \in 0 .. Web!MaxHops
  PROVE  /\ [Web!Opened(p) EXCEPT !.hops = hops, !.sent = sent, !.led = led] \in Tabs
         /\ [Web!Opened(p) EXCEPT !.led = led] \in Tabs
         /\ [Web!Opened(p) EXCEPT !.sent = sent] \in Tabs
<1>1. Web!Opened(p) \in Tabs
  BY DEF Web!Opened, Web!Answers, Web!MaxHops, Tabs
<1>2. ASSUME NEW t \in Tabs
      PROVE  [t EXCEPT !.hops = hops] \in Tabs /\ [t EXCEPT !.sent = sent] \in Tabs
             /\ [t EXCEPT !.led = led] \in Tabs
  BY DEF Tabs
<1>3. [[[Web!Opened(p) EXCEPT !.hops = hops] EXCEPT !.sent = sent] EXCEPT !.led = led] \in Tabs
  BY <1>1, <1>2, Zenon
<1> QED BY <1>1, <1>2, <1>3

\* A tab opened anew, while the session and the accounts stay in their types.
LEMMA FreshKeeps ==
  ASSUME NEW p \in Web!Places, screens_tab' = Web!Opened(p),
         screens_account' = screens_account, screens_policy' = screens_policy, Web!TypeOK,
         screens_stored' \in [by : Persons \cup {None}, good : BOOLEAN]
  PROVE  ScreensIInv'
<1>1. /\ screens_tab'.at = p /\ screens_tab'.by = None /\ ~screens_tab'.own /\ ~screens_tab'.sent
      /\ ~screens_tab'.led
      /\ screens_tab'.hops = 0 /\ screens_tab'.answer = "none"
  BY DEF Web!Opened
<1>2. Web!TypeOK'
  BY DEF Web!TypeOK, Web!Opened, Web!MaxHops, Web!Answers
<1> QED BY <1>1, <1>2, FreshTab DEF ScreensIInv

\* Visits, the ends of sessions, and links.
LEMMA VisitKeeps ==
  ASSUME ScreensIInv, NEW p \in Web!Places, Web!Visit(p)
  PROVE  ScreensIInv'
BY FreshKeeps DEF ScreensIInv, Web!Visit, Web!TypeOK

LEMMA LeaveKeeps ==
  ASSUME ScreensIInv, NEW p \in Web!Places, Web!Leave(p)
  PROVE  ScreensIInv'
BY FreshKeeps DEF ScreensIInv, Web!Leave, Web!TypeOK, Web!NoSession

LEMMA FollowKeeps ==
  ASSUME ScreensIInv, NEW p \in Web!Places, Web!Follow(p)
  PROVE  ScreensIInv'
<1> DEFINE led == screens_tab.own /\ Web!Usable
<1>1. /\ Web!Mounted /\ p \in Web!NavBar[Web!Role(screens_tab.by)]
      /\ screens_tab' = [Web!Opened(p) EXCEPT !.led = led]
      /\ UNCHANGED <<screens_account, screens_policy, screens_stored>>
  BY DEF Web!Follow
<1>2. led \in BOOLEAN /\ screens_tab.by \in Persons /\ Web!Role(screens_tab.by) \in Web!Everyone
  BY <1>1 DEF ScreensIInv, Web!TypeOK, Web!Usable, Web!Mounted, Web!Role
<1>3. p \in DOMAIN Web!Console /\ Web!Role(screens_tab.by) \in Web!Console[p].allow
  BY <1>1, <1>2, LinksOpen
<1>4. ASSUME led PROVE Web!Usable' /\ Web!Role(screens_stored.by)' \in Web!Console[p].allow
  <2>1. screens_stored.by = screens_tab.by
    BY <1>1, <1>4 DEF ScreensIInv, MountedOwn
  <2> QED BY <1>1, <1>3, <1>4, <2>1 DEF Web!Usable, Web!Role
<1>5. Web!TypeOK'
  <2>1. 0 \in 0 .. Web!MaxHops
    BY DEF Web!MaxHops
  <2>2. [Web!Opened(p) EXCEPT !.led = led] \in Tabs
    BY <1>2, <2>1, OpenedTypes, Zenon
  <2> HIDE DEF led
  <2> QED BY <1>1, <2>2 DEF ScreensIInv, Web!TypeOK, Tabs
<1>6. /\ screens_tab'.at = p /\ screens_tab'.by = None /\ ~screens_tab'.own /\ ~screens_tab'.sent
      /\ screens_tab'.led = led
      /\ screens_tab'.hops = 0 /\ screens_tab'.answer = "none"
  BY <1>1 DEF Web!Opened
<1>7. p # "index"
  BY <1>3, PlacesApart
<1> HIDE DEF led
<1> QED BY <1>2, <1>3, <1>4, <1>5, <1>6, <1>7, FreshTab DEF ScreensIInv

\* A redirect is the first one, and to a screen that stays.
LEMMA RedirectKeeps ==
  ASSUME ScreensIInv, NEW p \in Web!Places, Web!Redirect(p), p # "index", screens_tab.hops = 0,
           ~screens_tab.led,
         screens_account' = screens_account, screens_policy' = screens_policy,
         screens_stored' \in [by : Persons \cup {None}, good : BOOLEAN],
         p \in DOMAIN Web!Console =>
           Web!Usable' /\ Web!Role(screens_stored.by)' \in Web!Console[p].allow,
         p \in DOMAIN Web!Console /\ screens_tab.sent => Web!Role(screens_stored.by)' = "viewer"
  PROVE  ScreensIInv'
<1>1. screens_tab.sent \in BOOLEAN
  BY DEF ScreensIInv, Web!TypeOK
<1>2. screens_tab' = [Web!Opened(p) EXCEPT !.hops = 1, !.sent = screens_tab.sent,
        !.led = screens_tab.led]
  BY DEF Web!Redirect, Web!MaxHops
<1>3. /\ screens_tab'.at = p /\ screens_tab'.by = None /\ ~screens_tab'.own
      /\ screens_tab'.sent = screens_tab.sent /\ ~screens_tab'.led
      /\ screens_tab'.hops = 1 /\ screens_tab'.answer = "none"
  BY <1>2 DEF Web!Opened
<1>4. Web!TypeOK'
  <2>1. 1 \in 0 .. Web!MaxHops /\ screens_tab.led \in BOOLEAN
    BY DEF ScreensIInv, Web!TypeOK, Web!MaxHops
  <2>2. [Web!Opened(p) EXCEPT !.hops = 1, !.sent = screens_tab.sent,
          !.led = screens_tab.led] \in Tabs
    BY <1>1, <2>1, OpenedTypes, Zenon
  <2> QED BY <1>2, <2>2 DEF ScreensIInv, Web!TypeOK, Tabs
<1>5. SettlesNext' /\ SentThere'
  BY <1>3 DEF SettlesNext, SentThere, Web!SentHere, Web!Mounted, Web!Waiting, Web!Allowed,
     Web!Usable
<1>6. /\ MountedAllowed' /\ MountedOwn' /\ WaitingAsks' /\ PublicAnswers' /\ IndexFresh'
      /\ Web!RedirectsSettle' /\ Web!NavLeadsThere' /\ OwnAnswers'
  BY <1>3 DEF MountedAllowed, MountedOwn, WaitingAsks, PublicAnswers, IndexFresh,
     Web!RedirectsSettle, 
     Web!NavLeadsThere, OwnAnswers, Web!Mounted
<1> QED BY <1>4, <1>5, <1>6 DEF ScreensIInv

LEMMA IndexKeeps ==
  ASSUME ScreensIInv, Web!Index
  PROVE  ScreensIInv'
<1>1. screens_tab.hops = 0 /\ ~screens_tab.led /\ ~screens_tab.sent
  BY DEF ScreensIInv, IndexFresh, Web!Index, Web!Opened
<1>2. CASE Web!Usable
  <2>1. screens_stored.by \in Persons /\ Web!Role(screens_stored.by) \in Web!Everyone
    BY <1>2 DEF ScreensIInv, Web!TypeOK, Web!Usable, Web!Role
  <2>2. Web!Redirect(Web!HomeFor(Web!Role(screens_stored.by))) /\
          UNCHANGED <<screens_account, screens_policy, screens_stored>>
    BY <1>2 DEF Web!Index
  <2>3. Web!Usable' /\ Web!Role(screens_stored.by)' = Web!Role(screens_stored.by)
    BY <1>2, <2>2 DEF Web!Usable, Web!Role
  <2>4. Web!HomeFor(Web!Role(screens_stored.by)) \in Web!Places \ {"index"}
    BY <2>1, WaysLead, PlacesApart
  <2> QED BY <1>1, <2>1, <2>2, <2>3, <2>4, HomesOpen, RedirectKeeps DEF ScreensIInv, Web!TypeOK
<1>3. CASE ~Web!Usable
  <2>1. Web!Redirect("login") /\ UNCHANGED <<screens_account, screens_policy>> /\
          screens_stored' = Web!NoSession
    BY <1>3 DEF Web!Index
  <2>2. screens_stored' \in [by : Persons \cup {None}, good : BOOLEAN]
    BY <2>1 DEF Web!NoSession
  <2>3. "login" \in Web!Places /\ "login" \notin DOMAIN Web!Console
    BY PlacesApart
  <2> QED BY <1>1, <2>1, <2>2, <2>3, RedirectKeeps
<1> QED BY <1>2, <1>3

LEMMA GuardSignsOutKeeps ==
  ASSUME ScreensIInv, Web!GuardSignsOut
  PROVE  ScreensIInv'
<1>1. screens_tab.hops = 0 /\ ~screens_tab.led
  BY DEF ScreensIInv, Web!TypeOK, SettlesNext, Web!GuardSignsOut, Web!MaxHops
<1>2. screens_stored' \in [by : Persons \cup {None}, good : BOOLEAN]
  BY DEF Web!GuardSignsOut, Web!NoSession
<1> DEFINE p == Web!LoginPathForAllowed(Web!Allowed)
<1>3. p \in Web!Places /\ p \notin DOMAIN Web!Console /\ p # "index"
  <2>1. p \in {"login", "staffLogin"}
    BY WaysLead
  <2> QED BY <2>1, PlacesApart
<1>4. Web!Redirect(p) /\ UNCHANGED <<screens_account, screens_policy>>
  BY DEF Web!GuardSignsOut
<1> HIDE DEF p
<1> QED BY <1>1, <1>2, <1>3, <1>4, RedirectKeeps

LEMMA GuardSendsHomeKeeps ==
  ASSUME ScreensIInv, Web!GuardSendsHome
  PROVE  ScreensIInv'
<1>1. Web!Waiting /\ Web!Usable /\ Web!Role(screens_stored.by) \notin Web!Allowed /\
        screens_tab.at \in DOMAIN Web!Console
  BY DEF Web!GuardSendsHome, Web!Waiting
<1>2. screens_tab.hops = 0 /\ ~screens_tab.led
  BY <1>1 DEF ScreensIInv, Web!TypeOK, SettlesNext, Web!MaxHops
<1> DEFINE role == Web!Role(screens_stored.by)
<1>3. screens_stored.by \in Persons /\ role \in Web!Everyone
  BY <1>1 DEF ScreensIInv, Web!TypeOK, Web!Usable, Web!Role
<1>4. Web!Redirect(Web!HomeFor(role)) /\
        UNCHANGED <<screens_account, screens_policy, screens_stored>>
  BY DEF Web!GuardSendsHome
<1>5. Web!Usable' /\ Web!Role(screens_stored.by)' = role
  BY <1>1, <1>4 DEF Web!Usable, Web!Role
<1>6. screens_tab.sent => role = "viewer"
  <2>1. ASSUME screens_tab.sent, role # "viewer" PROVE FALSE
    <3>1. screens_tab.at = Web!SecurityPath(role)
      BY <1>1, <2>1 DEF ScreensIInv, SentThere
    <3>2. role \in Web!Editors
      BY <1>3, <2>1 DEF Web!Everyone, Web!Editors
    <3> QED BY <1>1, <3>1, <3>2, SecurityOpens DEF Web!Allowed
  <2> QED BY <2>1
<1>7. Web!HomeFor(role) \in Web!Places \ {"index"}
  BY <1>3, WaysLead, PlacesApart
<1> HIDE DEF role
<1> QED BY <1>2, <1>3, <1>4, <1>5, <1>6, <1>7, HomesOpen, RedirectKeeps DEF ScreensIInv, Web!TypeOK

LEMMA GuardLetsInKeeps ==
  ASSUME ScreensIInv, Web!GuardLetsIn
  PROVE  ScreensIInv'
<1>1. /\ Web!Waiting /\ Web!Usable /\ Web!Role(screens_stored.by) \in Web!Allowed
      /\ screens_tab.at \in DOMAIN Web!Console
      /\ screens_tab' = [screens_tab EXCEPT !.by = screens_stored.by, !.own = TRUE]
      /\ UNCHANGED <<screens_account, screens_policy, screens_stored>>
  BY DEF Web!GuardLetsIn, Web!Waiting
<1>2. /\ screens_tab'.at = screens_tab.at /\ screens_tab'.by = screens_stored.by /\ screens_tab'.own
      /\ screens_tab'.sent = screens_tab.sent
      /\ screens_tab'.led = screens_tab.led /\ screens_tab'.hops = screens_tab.hops
      /\ screens_tab'.answer = screens_tab.answer
  BY <1>1 DEF ScreensIInv, Web!TypeOK
<1>3. Web!TypeOK'
  BY <1>1 DEF ScreensIInv, Web!TypeOK
<1>4. MountedAllowed' /\ MountedOwn' /\ Web!RedirectsSettle' /\ Web!NavLeadsThere'
  BY <1>1, <1>2 DEF ScreensIInv, MountedAllowed, MountedOwn, Web!RedirectsSettle, Web!NavLeadsThere,
     Web!Mounted, Web!Role,
     Web!Allowed
<1>5. screens_tab.answer = "none" /\ screens_tab.at # "index"
  BY <1>1, PlacesApart DEF ScreensIInv, WaitingAsks, Web!Waiting
<1>6. WaitingAsks' /\ PublicAnswers' /\ IndexFresh' /\ OwnAnswers'
  BY <1>2, <1>5 DEF WaitingAsks, PublicAnswers, IndexFresh, OwnAnswers
<1>7. SettlesNext' /\ SentThere'
  BY <1>1, <1>2 DEF ScreensIInv, SettlesNext, SentThere, Web!SentHere, Web!Waiting, Web!Mounted,
     Web!Usable, Web!Role
<1> QED BY <1>3, <1>4, <1>6, <1>7 DEF ScreensIInv

LEMMA SignInKeeps ==
  ASSUME Web!ScreensAssumption, ScreensIInv, NEW a \in Persons, Web!SignIn(a)
  PROVE  ScreensIInv'
<1> DEFINE sent == Web!EnrolmentRequired(a)
           p == IF sent THEN Web!SecurityPath(Web!Role(a)) ELSE Web!HomeFor(Web!Role(a))
<1>1. /\ screens_stored' = [by |-> a, good |-> TRUE]
      /\ UNCHANGED <<screens_account, screens_policy>>
      /\ screens_tab' = [Web!Opened(p) EXCEPT !.sent = sent]
  BY DEF Web!SignIn
<1>2. Web!Role(a) \in Web!Everyone /\ Web!Role(a)' = Web!Role(a)
  BY <1>1 DEF ScreensIInv, Web!TypeOK, Web!Role
<1>3. sent \in BOOLEAN
  BY DEF Web!EnrolmentRequired
<1>4. p \in DOMAIN Web!Console /\ p \in Web!Places /\ p # "index"
  BY <1>2, WaysLead, PlacesApart
<1>5. sent => p = Web!SecurityPath(Web!Role(a))
  OBVIOUS
<1> HIDE DEF sent, p
<1>6. /\ screens_tab'.at = p /\ screens_tab'.by = None /\ ~screens_tab'.own
      /\ screens_tab'.sent = sent /\ ~screens_tab'.led
      /\ screens_tab'.hops = 0 /\ screens_tab'.answer = "none"
  BY <1>1 DEF Web!Opened
<1>7. Web!TypeOK'
  <2>1. 0 \in 0 .. Web!MaxHops
    BY DEF Web!MaxHops
  <2>2. [Web!Opened(p) EXCEPT !.sent = sent] \in Tabs
    BY <1>3, <1>4, <2>1, OpenedTypes, Zenon
  <2> QED BY <1>1, <2>2 DEF ScreensIInv, Web!TypeOK, Tabs
<1>8. screens_stored'.by = a /\ a # None
  BY <1>1 DEF Web!ScreensAssumption
<1>9. SentThere'
  BY <1>2, <1>5, <1>6, <1>8 DEF SentThere, Web!SentHere, Web!Mounted, Web!Role
<1>10. /\ MountedAllowed' /\ MountedOwn' /\ WaitingAsks' /\ PublicAnswers' /\ IndexFresh'
       /\ SettlesNext' /\ Web!RedirectsSettle' /\ Web!NavLeadsThere' /\ OwnAnswers'
  BY <1>4, <1>6 DEF MountedAllowed, MountedOwn, WaitingAsks, PublicAnswers, IndexFresh, SettlesNext,
     Web!RedirectsSettle, Web!NavLeadsThere, OwnAnswers, Web!Mounted
<1> QED BY <1>7, <1>9, <1>10 DEF ScreensIInv

\* Signed out, by the button, the timer or another look: opened anew.
LEMMA SignedOutKeeps ==
  ASSUME ScreensIInv, Web!SignOut \/ Web!Timer \/ Web!Visible
  PROVE  ScreensIInv'
<1>1. PICK p \in {"login", "staffLogin"} : Web!Leave(p)
  BY WaysLead DEF Web!SignOut, Web!Timer, Web!Visible
<1> QED BY <1>1, WaysLead, LeaveKeeps

\* The session is replaced or expires: the screen stays, and counts anew.
LEMMA SessionKeeps ==
  ASSUME ScreensIInv, UNCHANGED <<screens_account, screens_policy>>,
         screens_stored' \in [by : Persons \cup {None}, good : BOOLEAN],
         NEW own \in BOOLEAN, NEW sent \in BOOLEAN,
         screens_tab' = [screens_tab EXCEPT !.own = own, !.sent = sent, !.led = FALSE, !.hops = 0],
         own => screens_tab.own, sent => screens_tab.sent, own \/ sent =>
           screens_stored'.by = screens_stored.by
  PROVE  ScreensIInv'
<1>1. /\ screens_tab'.at = screens_tab.at /\ screens_tab'.by = screens_tab.by
      /\ screens_tab'.own = own /\ screens_tab'.sent = sent /\ ~screens_tab'.led
      /\ screens_tab'.hops = 0 /\ screens_tab'.answer = screens_tab.answer
  BY DEF ScreensIInv, Web!TypeOK
<1>2. Web!TypeOK'
  <2>1. screens_tab \in Tabs /\ FALSE \in BOOLEAN /\ 0 \in 0 .. Web!MaxHops
    BY DEF ScreensIInv, Web!TypeOK, Tabs, Web!MaxHops
  <2>2. screens_tab' \in Tabs
    BY <2>1, TabsMove, Zenon
  <2> QED BY <2>2 DEF ScreensIInv, Web!TypeOK, Tabs
<1>3. \A a : Web!Role(a)' = Web!Role(a)
  BY DEF Web!Role
<1>4. MountedAllowed' /\ MountedOwn' /\ WaitingAsks' /\ PublicAnswers'
  BY <1>1, <1>3 DEF ScreensIInv, MountedAllowed, MountedOwn, WaitingAsks, PublicAnswers,
     Web!Mounted, Web!Allowed
<1>5. IndexFresh'
  BY <1>1 DEF ScreensIInv, IndexFresh, Web!Mounted
<1>6. SettlesNext' /\ Web!RedirectsSettle' /\ Web!NavLeadsThere'
  BY <1>1 DEF SettlesNext, Web!RedirectsSettle, Web!NavLeadsThere
<1>7. SentThere' /\ OwnAnswers'
  BY <1>1, <1>3 DEF ScreensIInv, SentThere, Web!SentHere, OwnAnswers, Web!Mounted, Web!Waiting,
     Web!Allowed
<1> QED BY <1>2, <1>4, <1>5, <1>6, <1>7 DEF ScreensIInv

\* The tab stays, and only what the accounts are besides their role changes.
LEMMA AccountKeeps ==
  ASSUME ScreensIInv, UNCHANGED <<screens_stored, screens_tab>>, Web!TypeOK', \A a \in Persons :
           Web!Role(a)' = Web!Role(a)
  PROVE  ScreensIInv'
<1>1. /\ Web!Mounted => screens_tab.by \in Persons
      /\ screens_stored.by # None => screens_stored.by \in Persons
  BY DEF ScreensIInv, Web!TypeOK, Web!Mounted
<1>2. /\ Web!Mounted' = Web!Mounted /\ Web!Waiting' = Web!Waiting /\ Web!Allowed' = Web!Allowed
      /\ Web!Usable' = Web!Usable
      /\ Web!SentHere' = Web!SentHere
      /\ (Web!Mounted => Web!Role(screens_tab.by)' = Web!Role(screens_tab.by))
      /\ screens_stored.by # None => Web!Role(screens_stored.by)' = Web!Role(screens_stored.by)
  BY <1>1 DEF Web!Mounted, Web!Waiting, Web!Allowed, Web!Usable, Web!SentHere
<1>3. MountedAllowed' /\ MountedOwn' /\ WaitingAsks' /\ PublicAnswers' /\ IndexFresh'
  BY <1>2 DEF ScreensIInv, MountedAllowed, MountedOwn, WaitingAsks, PublicAnswers, IndexFresh
<1>4. SettlesNext'
  BY <1>2 DEF ScreensIInv, SettlesNext, Web!Usable
<1>5. Web!RedirectsSettle' /\ Web!NavLeadsThere' /\ OwnAnswers'
  BY <1>2 DEF ScreensIInv, Web!RedirectsSettle, Web!NavLeadsThere, OwnAnswers
<1>6. SentThere'
  BY <1>2 DEF ScreensIInv, SentThere, Web!SentHere
<1> QED BY <1>3, <1>4, <1>5, <1>6 DEF ScreensIInv

LEMMA SessionsKeep ==
  ASSUME ScreensIInv, Web!Expire \/ Web!SignOutElsewhere \/ \E a \in Persons :
           Web!SignInElsewhere(a)
  PROVE  ScreensIInv'
<1>1. screens_tab \in Tabs /\ FALSE \in BOOLEAN
  BY DEF ScreensIInv, Web!TypeOK, Tabs
<1>2. CASE Web!Expire
  <2>1. /\ UNCHANGED <<screens_account, screens_policy>> /\ screens_stored'.by = screens_stored.by
        /\ screens_stored' \in [by : Persons \cup {None}, good : BOOLEAN]
    BY <1>2 DEF ScreensIInv, Web!TypeOK, Web!Expire
  <2>2. screens_tab' = [screens_tab EXCEPT !.hops = 0, !.led = FALSE]
    BY <1>2 DEF Web!Expire
  <2>3. screens_tab.own \in BOOLEAN /\ screens_tab.sent \in BOOLEAN
    BY <1>1 DEF Tabs
  <2>4. screens_tab' = [screens_tab EXCEPT !.own = screens_tab.own, !.sent = screens_tab.sent,
          !.led = FALSE, !.hops = 0]
    BY <1>1, <2>2 DEF Tabs
  <2> QED BY <2>1, <2>3, <2>4, SessionKeeps
<1>3. ASSUME NEW session \in [by : Persons \cup {None}, good : BOOLEAN],
               Web!StoredElsewhere(session)
      PROVE  ScreensIInv'
  <2>1. /\ UNCHANGED <<screens_account, screens_policy>> /\ screens_stored' = session
        /\ screens_tab' = [screens_tab EXCEPT !.own = FALSE, !.sent = FALSE, !.led = FALSE,
             !.hops = 0]
    BY <1>3 DEF Web!StoredElsewhere
  <2> QED BY <1>1, <2>1, SessionKeeps, Zenon
<1>4. CASE Web!SignOutElsewhere
  <2>1. Web!NoSession \in [by : Persons \cup {None}, good : BOOLEAN]
    BY DEF Web!NoSession
  <2> QED BY <1>3, <1>4, <2>1 DEF Web!SignOutElsewhere
<1>5. ASSUME NEW a \in Persons, Web!SignInElsewhere(a) PROVE ScreensIInv'
  <2>1. [by |-> a, good |-> TRUE] \in [by : Persons \cup {None}, good : BOOLEAN]
    OBVIOUS
  <2> QED BY <1>3, <1>5, <2>1 DEF Web!SignInElsewhere
<1> QED BY <1>2, <1>4, <1>5

\* Accounts keep their types, and their roles.
LEMMA AccountsKeep ==
  ASSUME ScreensIInv, NEW a \in Persons, NEW b \in BOOLEAN,
         \/ screens_account' = [screens_account EXCEPT ![a].active = b]
         \/ screens_account' = [screens_account EXCEPT ![a].enrolled = b]
  PROVE  /\ screens_account' \in [Persons -> [role : Web!Everyone, active : BOOLEAN,
              required : BOOLEAN,
                                       enrolled : BOOLEAN]]
         /\ \A c \in Persons : Web!Role(c)' = Web!Role(c)
<1> USE DEF ScreensIInv, Web!TypeOK, Web!Role
<1>1. CASE screens_account' = [screens_account EXCEPT ![a].active = b]
  BY <1>1
<1>2. CASE screens_account' = [screens_account EXCEPT ![a].enrolled = b]
  BY <1>2
<1> QED BY <1>1, <1>2

LEMMA CallKeeps ==
  ASSUME Web!ScreensAssumption, ScreensIInv, NEW n \in Web!Calls, Web!Call(n)
  PROVE  ScreensIInv'
<1> DEFINE answer == Web!ApiAnswer(n)
<1>1. /\ screens_tab' = [screens_tab EXCEPT !.answer = answer,
           !.own = screens_tab.own /\ answer # "over"]
      /\ screens_stored' = IF answer = "over" THEN Web!NoSession ELSE screens_stored
      /\ screens_account' = IF answer = "ok" /\ n \in {"activateMfa", "disableMfa"}
                    THEN [screens_account EXCEPT ![screens_stored.by].enrolled = (n = "activateMfa")] ELSE screens_account
      /\ screens_policy' = screens_policy
  BY DEF Web!Call
<1>2. Web!Mounted /\ screens_tab.at \in DOMAIN Web!Console /\
        n \in Web!Console[screens_tab.at].calls[Web!Role(screens_tab.by)]
  BY DEF Web!Calls, ScreensIInv, MountedAllowed
<1>3. /\ screens_tab.by \in Persons /\ Web!Role(screens_tab.by) \in Web!Everyone
      /\ Web!Role(screens_tab.by) \in Web!Allowed
      /\ screens_tab.at \notin DOMAIN Web!Public /\ screens_tab.at # "index"
  BY <1>2, PlacesApart DEF ScreensIInv, Web!TypeOK, MountedAllowed, Web!Mounted, Web!Role
<1>4. answer \in Web!Answers
  BY AnswersFit
<1>5. /\ screens_tab'.at = screens_tab.at /\ screens_tab'.by = screens_tab.by
      /\ screens_tab'.own = (screens_tab.own /\ answer # "over")
      /\ screens_tab'.sent = screens_tab.sent /\ screens_tab'.led = screens_tab.led
      /\ screens_tab'.hops = screens_tab.hops /\ screens_tab'.answer = answer
  BY <1>1 DEF ScreensIInv, Web!TypeOK
<1>6. /\ screens_account' \in [Persons -> [role : Web!Everyone, active : BOOLEAN,
           required : BOOLEAN,
                                    enrolled : BOOLEAN]]
      /\ \A c \in Persons : Web!Role(c)' = Web!Role(c)
  <2>1. CASE screens_account' = screens_account
    BY <2>1 DEF ScreensIInv, Web!TypeOK, Web!Role
  <2>2. CASE screens_account' # screens_account
    <3>1. answer = "ok" /\ n \in {"activateMfa", "disableMfa"}
      BY <1>1, <2>2
    <3> DEFINE e == n = "activateMfa"
    <3>2. screens_account' = [screens_account EXCEPT ![screens_stored.by].enrolled = e] /\
            e \in BOOLEAN
      BY <1>1, <3>1
    <3>3. screens_stored.by \in Persons
      BY <2>2, <3>2 DEF ScreensIInv, Web!TypeOK
    <3> HIDE DEF e
    <3> QED BY <3>2, <3>3, AccountsKeep, Zenon
  <2> QED BY <2>1, <2>2
<1>7. Web!TypeOK'
  <2> DEFINE own == screens_tab.own /\ answer # "over"
  <2>1. screens_tab \in Tabs /\ own \in BOOLEAN
    BY DEF ScreensIInv, Web!TypeOK, Tabs
  <2>2. screens_tab' = [screens_tab EXCEPT !.answer = answer, !.own = own]
    BY <1>1
  <2> HIDE DEF own, answer
  <2>3. screens_tab' \in Tabs
    BY <1>4, <2>1, <2>2 DEF Tabs
  <2>4. screens_stored' \in [by : Persons \cup {None}, good : BOOLEAN]
    BY <1>1 DEF ScreensIInv, Web!TypeOK, Web!NoSession
  <2> QED BY <1>1, <1>6, <2>3, <2>4 DEF ScreensIInv, Web!TypeOK, Tabs
<1>8. MountedAllowed' /\ MountedOwn' /\ WaitingAsks' /\ PublicAnswers' /\ IndexFresh' /\
        SettlesNext'
  BY <1>1, <1>2, <1>3, <1>5, <1>6 DEF ScreensIInv, MountedAllowed, MountedOwn, WaitingAsks,
     PublicAnswers,
     IndexFresh, SettlesNext, Web!Mounted, Web!Waiting, Web!Allowed
<1>9. Web!RedirectsSettle' /\ Web!NavLeadsThere' /\ SentThere'
  BY <1>2, <1>3, <1>5, <1>6 DEF ScreensIInv, Web!RedirectsSettle, Web!NavLeadsThere, SentThere,
     Web!SentHere, Web!Mounted,
     Web!Waiting
<1>10. OwnAnswers'
  <2>1. ASSUME screens_tab.own, answer = "role", Web!Role(screens_tab.by) # "viewer" PROVE FALSE
    <3>1. screens_stored.by = screens_tab.by
      BY <1>2, <2>1 DEF ScreensIInv, MountedOwn
    <3>2. Web!Role(screens_tab.by) \in Web!Route[n].roles
      BY <1>2, <1>3, <2>1, ConsoleAgrees DEF Agrees, Web!Allowed
    <3> QED BY <2>1, <3>1, <3>2 DEF Web!ApiAnswer
  <2> QED BY <1>3, <1>5, <1>6, <2>1 DEF OwnAnswers
<1> QED BY <1>7, <1>8, <1>9, <1>10 DEF ScreensIInv

LEMMA PublicCallKeeps ==
  ASSUME ScreensIInv, NEW n \in Web!PublicCalls, Web!PublicCall(n)
  PROVE  ScreensIInv'
<1>1. screens_tab.at \in DOMAIN Web!Public /\ n \in Web!Public[screens_tab.at]
  BY DEF Web!PublicCalls
<1>2. Web!ApiAnswer(n) = "ok"
  BY <1>1, PublicOpen DEF Web!ApiAnswer
<1>3. /\ screens_tab' = [screens_tab EXCEPT !.answer = "ok"]
      /\ UNCHANGED <<screens_account, screens_policy, screens_stored>>
      /\ screens_tab'.at = screens_tab.at /\ screens_tab'.by = screens_tab.by
      /\ screens_tab'.own = screens_tab.own /\ screens_tab'.sent = screens_tab.sent
      /\ screens_tab'.led = screens_tab.led /\ screens_tab'.hops = screens_tab.hops
      /\ screens_tab'.answer = "ok"
  BY <1>2 DEF ScreensIInv, Web!TypeOK, Web!PublicCall
<1>4. screens_tab.at \notin DOMAIN Web!Console /\ screens_tab.at # "index" /\ ~Web!Mounted
  BY <1>1, PlacesApart DEF ScreensIInv, MountedAllowed
<1>5. Web!TypeOK'
  BY <1>3 DEF ScreensIInv, Web!TypeOK, Web!Answers
<1>6. MountedAllowed' /\ MountedOwn' /\ WaitingAsks' /\ PublicAnswers' /\ IndexFresh' /\
        SettlesNext'
  BY <1>1, <1>3, <1>4 DEF MountedAllowed, MountedOwn, WaitingAsks, PublicAnswers, IndexFresh,
     SettlesNext, Web!Mounted, Web!Waiting
<1>7. Web!RedirectsSettle' /\ Web!NavLeadsThere' /\ SentThere' /\ OwnAnswers'
  BY <1>3, <1>4 DEF ScreensIInv, Web!RedirectsSettle, Web!NavLeadsThere, SentThere, Web!SentHere,
     OwnAnswers, 
     Web!Mounted, Web!Waiting
<1> QED BY <1>5, <1>6, <1>7 DEF ScreensIInv

LEMMA ScreensIInvInit ==
  ASSUME Web!Init
  PROVE  ScreensIInv
<1>1. screens_tab = Web!Opened("index") /\ screens_stored = Web!NoSession
  BY DEF Web!Init
<1>2. /\ screens_tab.at = "index" /\ screens_tab.by = None /\ ~screens_tab.own /\ ~screens_tab.sent
      /\ ~screens_tab.led
      /\ screens_tab.hops = 0 /\ screens_tab.answer = "none"
  BY <1>1 DEF Web!Opened
<1>3. Web!TypeOK
  <2>1. screens_tab \in Tabs /\ screens_stored \in [by : Persons \cup {None}, good : BOOLEAN]
    BY <1>1, WaysLead DEF Web!Opened, Web!NoSession, Tabs, Web!Answers, Web!MaxHops
  <2>2. screens_account \in [Persons -> [role : Web!Everyone, active : BOOLEAN, required : BOOLEAN,
                                  enrolled : BOOLEAN]] /\ screens_policy \in BOOLEAN
    BY DEF Web!Init
  <2> QED BY <2>1, <2>2 DEF Web!TypeOK, Tabs
<1>4. MountedAllowed /\ MountedOwn /\ WaitingAsks /\ PublicAnswers /\ IndexFresh /\ SettlesNext
  BY <1>2, PlacesApart DEF MountedAllowed, MountedOwn, WaitingAsks, PublicAnswers, IndexFresh,
     SettlesNext,
     Web!Mounted, Web!Waiting
<1>5. Web!RedirectsSettle /\ Web!NavLeadsThere /\ SentThere /\ OwnAnswers
  BY <1>2 DEF Web!RedirectsSettle, Web!NavLeadsThere, SentThere, Web!SentHere, OwnAnswers,
     Web!Mounted
<1> QED BY <1>3, <1>4, <1>5 DEF ScreensIInv

LEMMA ScreensIInvNext ==
  ASSUME Web!ScreensAssumption, ScreensIInv, [Web!Next]_(Web!vars)
  PROVE  ScreensIInv'
<1>1. CASE Web!Index
  BY <1>1, IndexKeeps
<1>2. CASE Web!GuardSignsOut
  BY <1>2, GuardSignsOutKeeps
<1>3. CASE Web!GuardSendsHome
  BY <1>3, GuardSendsHomeKeeps
<1>4. CASE Web!GuardLetsIn
  BY <1>4, GuardLetsInKeeps
<1>5. CASE Web!SignOut \/ Web!Timer \/ Web!Visible
  BY <1>5, SignedOutKeeps
<1>6. CASE Web!Expire \/ Web!SignOutElsewhere \/ \E a \in Persons : Web!SignInElsewhere(a)
  BY <1>6, SessionsKeep
<1>7. ASSUME NEW p \in Web!Places, Web!Visit(p) \/ Web!Follow(p) PROVE ScreensIInv'
  BY <1>7, VisitKeeps, FollowKeeps
<1>8. ASSUME NEW a \in Persons, Web!SignIn(a) PROVE ScreensIInv'
  BY <1>8, SignInKeeps
<1>9. ASSUME NEW n \in Web!Calls, Web!Call(n) PROVE ScreensIInv'
  BY <1>9, CallKeeps
<1>10. ASSUME NEW n \in Web!PublicCalls, Web!PublicCall(n) PROVE ScreensIInv'
  BY <1>10, PublicCallKeeps
<1>11. ASSUME NEW a \in Persons, NEW active \in BOOLEAN, Web!SetActive(a, active) PROVE ScreensIInv'
  <2>1. /\ screens_account' = [screens_account EXCEPT ![a].active = active]
        /\ UNCHANGED <<screens_policy, screens_stored, screens_tab>>
    BY <1>11 DEF Web!SetActive
  <2>2. /\ screens_account' \in [Persons -> [role : Web!Everyone, active : BOOLEAN,
             required : BOOLEAN,
                                      enrolled : BOOLEAN]]
        /\ \A c \in Persons : Web!Role(c)' = Web!Role(c)
    BY <2>1, AccountsKeep, Zenon
  <2>3. Web!TypeOK'
    BY <2>1, <2>2 DEF ScreensIInv, Web!TypeOK
  <2> QED BY <2>1, <2>2, <2>3, AccountKeeps
<1>12. ASSUME NEW p \in BOOLEAN, Web!SetPolicy(p) PROVE ScreensIInv'
  <2>1. screens_policy' = p /\ UNCHANGED <<screens_account, screens_stored, screens_tab>>
    BY <1>12 DEF Web!SetPolicy
  <2>2. Web!TypeOK' /\ \A a : Web!Role(a)' = Web!Role(a)
    BY <2>1 DEF ScreensIInv, Web!TypeOK, Web!Role
  <2> QED BY <2>1, <2>2, AccountKeeps
<1>13. CASE UNCHANGED Web!vars
  <2>1. UNCHANGED <<screens_account, screens_policy, screens_stored, screens_tab>>
    BY <1>13 DEF Web!vars
  <2>2. Web!TypeOK' /\ \A a : Web!Role(a)' = Web!Role(a)
    BY <2>1 DEF ScreensIInv, Web!TypeOK, Web!Role
  <2> QED BY <2>1, <2>2, AccountKeeps
<1> QED BY <1>1, <1>2, <1>3, <1>4, <1>5, <1>6, <1>7, <1>8, <1>9, <1>10, <1>11, <1>12, <1>13
    DEF Web!Next

\* What the invariant says of the screens and the controllers behind them.
LEMMA ScreensIInvAgrees ==
  ASSUME ScreensIInv
  PROVE  Web!EditorsNeverRefused
BY DEF ScreensIInv, OwnAnswers, PublicAnswers, Web!EditorsNeverRefused

LEMMA ScreensIInvGives ==
  ASSUME ScreensIInv
  PROVE  Web!ScreensInv
<1>1. ASSUME Web!SentHere, Web!Role(screens_tab.by) # "viewer", NEW n \in EnrolCalls
      PROVE  n \in Web!Calls /\ Web!ApiAnswer(n) \in {"ok", "over"}
  <2> DEFINE role == Web!Role(screens_tab.by)
  <2>1. /\ Web!Mounted /\ screens_tab.by \in Persons /\ role \in Web!Editors
        /\ screens_stored.by = screens_tab.by
        /\ screens_tab.at = Web!SecurityPath(role) /\ role \in Web!Console[screens_tab.at].allow
    BY <1>1 DEF ScreensIInv, Web!TypeOK, Web!SentHere, SentThere, MountedOwn, MountedAllowed,
       Web!Mounted, 
       Web!Allowed,
       Web!Role, Web!Everyone, Web!Editors
  <2>2. screens_tab.at \in DOMAIN Web!Console /\ n \in Web!Console[screens_tab.at].calls[role]
    BY <2>1, SecurityOpens
  <2>3. role \in Web!Route[n].roles
    BY <1>1, <2>1, <2>2, ConsoleAgrees DEF Agrees
  <2>4. "unenrolled" \in Web!Route[n].guards
    BY RoutesFit
  <2> QED BY <2>1, <2>2, <2>3, <2>4 DEF Web!ApiAnswer, Web!Calls
<1>2. Web!EditorsCanEnrol
  BY <1>1 DEF Web!EditorsCanEnrol, Web!CanEnrol, EnrolCalls
<1> QED BY <1>2 DEF ScreensIInv, Web!ScreensInv

\* Where the tab comes from, whom its screen was mounted for, and where the next redirect ends.
THEOREM ScreensInductive == RequestsSpec => [](focus = "screens" => ScreensIInv)
<1> DEFINE I == focus = "screens" => ScreensIInv
<1>1. RequestsInit => I
  BY RequestsAssumption, Begun, ScreensIInvInit DEF RequestsAssumption
<1>2. I /\ [RequestsNext]_allVars => I'
  BY RequestsAssumption, Focused, ScreensIInvNext DEF RequestsAssumption
<1> QED BY <1>1, <1>2, PTL DEF RequestsSpec

\* No screen of an administrator or of staff calls a route that refuses their role, on any screen
\* of the console and for every route.
THEOREM ScreensAgreeKept == RequestsSpec => []ScreensAgree
<1>1. (focus = "screens" => ScreensIInv) => ScreensAgree
  BY ScreensIInvAgrees DEF ScreensAgree
<1> QED BY <1>1, ScreensInductive, PTL

\* One redirect at most comes to rest, links lead where they say, and editors who must enrol rest
\* where they can.
THEOREM ScreensSettleKept == RequestsSpec => []ScreensSettle
<1>1. (focus = "screens" => ScreensIInv) => ScreensSettle
  BY ScreensIInvGives DEF ScreensSettle
<1> QED BY <1>1, ScreensInductive, PTL

-----------------------------------------------------------------------------
(* Lessons, quizzes and certificates *)

\* The component counts as this module does.
LEMMA CountsAlike ==
  \A S : /\ Lessons!Cardinality(S) = Cardinality(S)
         /\ Lessons!IsFiniteSet(S) <=> IsFiniteSet(S)
BY DEF Lessons!Cardinality, Cardinality, Lessons!IsFiniteSet, IsFiniteSet

LEMMA SubsetsCount ==
  ASSUME NEW S, NEW T, T \subseteq S, Lessons!IsFiniteSet(S)
  PROVE  Lessons!Cardinality(T) <= Lessons!Cardinality(S)
<1>1. IsFiniteSet(S)
  BY CountsAlike
<1>2. Cardinality(T) <= Cardinality(S)
  BY <1>1, FS_Subset
<1> QED BY <1>2, CountsAlike

\* What a call holds, and what links and passes are about, is there.
LessonsLocated ==
  /\ \A c \in Callers :
       /\ lessons_pc[c] = "idle" => lessons_row[c] = None
       /\ lessons_pc[c] \in {"idle", "assignFind", "assignCreate"} => lessons_via[c] = None
       /\ lessons_row[c] # None =>
            lessons_via[c] = None /\ lessons_assignment[lessons_row[c]] # "absent"
       /\ lessons_pc[c] \in {"assignToken", "invite"} => lessons_row[c] # None
       /\ lessons_pc[c] = "invite" => lessons_held[c] \in 1 .. MaxTokens
  /\ \A link \in lessons_mailed : lessons_assignment[link[1]] # "absent"
  /\ \A r \in lessons_passedRows : lessons_assignment[r] # "absent"
  /\ \A r \in Lessons!Rows : lessons_assignment[r] = "absent" => lessons_token[r] = 0

\* The tokens of a row that were mailed, are about to be, or are the one it has.
Linked(r) ==
  {t \in 1 .. MaxTokens : \/ <<r, t>> \in lessons_mailed
                          \/ t = lessons_token[r]
                          \/ \E c \in Callers :
                               lessons_pc[c] = "invite" /\ lessons_row[c] = r /\
                                 lessons_held[c] = t}

\* Calls about to give the row a token, since it had none.
Renewing(r) == {c \in Callers : lessons_pc[c] = "assignToken" /\ lessons_row[c] = r}

\* Every token of a row but its first stands for a call that found the row without one.
TokensExplained ==
  \A r \in Lessons!Rows : IF lessons_token[r] = 0 THEN Linked(r) = {}
                  ELSE Lessons!Cardinality(Linked(r)) + Lessons!Cardinality(Renewing(r)) <=
                    Lessons!Cardinality(Callers)

\* Calls that may mint a token have one left each.
Assigning == {c \in Callers : lessons_pc[c] \in {"assignFind", "assignToken", "assignCreate"}}
TokensRemain == lessons_minted + Lessons!Cardinality(Assigning) <= MaxTokens

\* What lessons need to be inductive.
LessonsIInv ==
  /\ Lessons!TypeOK /\ LessonsLocated /\ TokensExplained /\ TokensRemain
  /\ Lessons!AttemptsCapped /\ Lessons!CertificatesEarned /\ Lessons!LettersCovered
  /\ Lessons!PassHonoured

\* A step of one call: the others stay where they are.
Spares(c) ==
  \A d \in Callers \ {c} :
    lessons_pc'[d] = lessons_pc[d] /\ lessons_via'[d] = lessons_via[d] /\
      lessons_row'[d] = lessons_row[d] /\ lessons_held'[d] = lessons_held[d]

\* What sizes two sets of calls have that are the same but for one call.
Shifts(S, T, c) ==
  /\ Lessons!Cardinality(S) \in Nat /\ Lessons!Cardinality(T) \in Nat
  /\ c \in S /\ c \notin T => Lessons!Cardinality(T) = Lessons!Cardinality(S) - 1
  /\ c \notin S /\ c \in T => Lessons!Cardinality(T) = Lessons!Cardinality(S) + 1
  /\ (c \in S) = (c \in T) => T = S

\* Sets that differ by one call at most are as large, or one larger or smaller.
LEMMA OneDiffers ==
  ASSUME Lessons!LearningAssumption, NEW S \in SUBSET Callers, NEW T \in SUBSET Callers,
           NEW c \in Callers,
         S \ {c} = T \ {c}
  PROVE  Shifts(S, T, c)
<1>1. Lessons!IsFiniteSet(S) /\ Lessons!IsFiniteSet(T) /\ Lessons!Cardinality(S) \in Nat /\
        Lessons!Cardinality(T) \in Nat
  BY CountsAlike, FS_Subset, FS_CardinalityType DEF Lessons!LearningAssumption
<1>2. ASSUME c \in S, c \notin T PROVE Lessons!Cardinality(T) = Lessons!Cardinality(S) - 1
  <2>1. T = S \ {c}
    BY <1>2
  <2> QED BY CountsAlike, <2>1, <1>1, <1>2, FS_RemoveElement
<1>3. ASSUME c \notin S, c \in T PROVE Lessons!Cardinality(T) = Lessons!Cardinality(S) + 1
  <2>1. T = S \cup {c}
    BY <1>3
  <2> QED BY CountsAlike, <2>1, <1>1, <1>3, FS_AddElement
<1>4. (c \in S) = (c \in T) => T = S
  OBVIOUS
<1> QED BY <1>1, <1>2, <1>3, <1>4 DEF Shifts

\* How many calls there are.
LEMMA CallsCounted ==
  ASSUME Lessons!LearningAssumption
  PROVE  /\ Lessons!Cardinality(Callers) \in Nat \ {0}
         /\ \A S \in SUBSET Callers :
              Lessons!Cardinality(S) \in Nat /\
                Lessons!Cardinality(S) <= Lessons!Cardinality(Callers)
<1>1. Lessons!Cardinality(Callers) \in Nat /\ Lessons!Cardinality(Callers) # 0
  BY CountsAlike, FS_CardinalityType, FS_EmptySet DEF Lessons!LearningAssumption
<1>2. \A S \in SUBSET Callers :
        Lessons!Cardinality(S) \in Nat /\ Lessons!Cardinality(S) <= Lessons!Cardinality(Callers)
  BY CountsAlike, FS_Subset, FS_CardinalityType DEF Lessons!LearningAssumption
<1> QED BY <1>1, <1>2

\* A call enters and leaves what is counted by itself alone.
LEMMA OneMoves ==
  ASSUME Lessons!LearningAssumption, NEW c \in Callers, Spares(c)
  PROVE  /\ Shifts(Lessons!At("attempt"), Lessons!At("attempt")', c)
         /\ Shifts(Assigning, Assigning', c)
         /\ \A x \in Lessons!Sources : /\ Shifts(Lessons!Issuing(x), Lessons!Issuing(x)', c)
                                       /\ Shifts(Lessons!Mailing(x), Lessons!Mailing(x)', c)
         /\ \A r \in Lessons!Rows : Shifts(Renewing(r), Renewing(r)', c)
<1>1. Shifts(Lessons!At("attempt"), Lessons!At("attempt")', c)
  <2>1. Lessons!At("attempt")' \ {c} = Lessons!At("attempt") \ {c} /\
          Lessons!At("attempt") \in SUBSET Callers
        /\ Lessons!At("attempt")' \in SUBSET Callers
    BY DEF Spares, Lessons!At
  <2> QED BY <2>1, OneDiffers
<1>2. Shifts(Assigning, Assigning', c)
  <2>1. Assigning' \ {c} = Assigning \ {c} /\ Assigning \in SUBSET Callers /\
          Assigning' \in SUBSET Callers
    BY DEF Spares, Assigning
  <2> QED BY <2>1, OneDiffers
<1>3. ASSUME NEW x \in Lessons!Sources
      PROVE  Shifts(Lessons!Issuing(x), Lessons!Issuing(x)', c) /\
               Shifts(Lessons!Mailing(x), Lessons!Mailing(x)', c)
  <2>1. Lessons!Issuing(x)' \ {c} = Lessons!Issuing(x) \ {c} /\
          Lessons!Issuing(x) \in SUBSET Callers
        /\ Lessons!Issuing(x)' \in SUBSET Callers
    BY DEF Spares, Lessons!Issuing
  <2>2. Lessons!Mailing(x)' \ {c} = Lessons!Mailing(x) \ {c} /\
          Lessons!Mailing(x) \in SUBSET Callers
        /\ Lessons!Mailing(x)' \in SUBSET Callers
    BY DEF Spares, Lessons!Mailing
  <2> QED BY <2>1, <2>2, OneDiffers
<1>4. ASSUME NEW r \in Lessons!Rows PROVE Shifts(Renewing(r), Renewing(r)', c)
  <2>1. Renewing(r)' \ {c} = Renewing(r) \ {c} /\ Renewing(r) \in SUBSET Callers
        /\ Renewing(r)' \in SUBSET Callers
    BY DEF Spares, Renewing
  <2> QED BY <2>1, OneDiffers
<1> QED BY <1>1, <1>2, <1>3, <1>4

\* Steps of a call are its own.
LEMMA CallsSpare ==
  ASSUME Lessons!TypeOK, NEW c \in Callers, Lessons!Call(c) \/ Lessons!CallDies(c)
  PROVE  Spares(c)
<1> USE DEF Lessons!TypeOK, Spares, Lessons!Goto, Lessons!Finish
<1>1. CASE Lessons!Quiz(c)
  BY <1>1 DEF Lessons!Quiz, Lessons!QuizStart, Lessons!QuizRead, Lessons!Prior, Lessons!Attempt,
     Lessons!Complete, Lessons!CertRead, Lessons!CertCreate, Lessons!Letter
<1>2. CASE Lessons!Assign(c)
  BY <1>2 DEF Lessons!Assign, Lessons!AssignStart, Lessons!AssignFind, Lessons!AssignToken,
     Lessons!AssignCreate, Lessons!Invite
<1>3. CASE Lessons!QuestionsDelete(c) \/ Lessons!QuestionsCreate(c) \/ Lessons!CallDies(c)
  BY <1>3 DEF Lessons!QuestionsDelete, Lessons!QuestionsCreate, Lessons!CallDies
<1> QED BY <1>1, <1>2, <1>3 DEF Lessons!Call

\* A call that has to mint a token has one left.
LEMMA MintsLeft ==
  ASSUME Lessons!LearningAssumption, Lessons!TypeOK, TokensRemain, NEW c \in Callers,
         lessons_pc[c] \in {"assignFind", "assignToken", "assignCreate"}
  PROVE  lessons_minted + 1 \in 1 .. MaxTokens
<1>1. c \in Assigning /\ Assigning \in SUBSET Callers
  BY DEF Assigning
<1>2. Lessons!Cardinality(Assigning) \in Nat /\ Lessons!Cardinality(Assigning) # 0
  BY CountsAlike, <1>1, CallsCounted, FS_EmptySet, FS_Subset DEF Lessons!LearningAssumption
<1> QED BY <1>2 DEF Lessons!TypeOK, TokensRemain, Lessons!LearningAssumption

\* Every step keeps the types.
LEMMA LessonsTypes ==
  ASSUME Lessons!LearningAssumption, Lessons!TypeOK, LessonsLocated, TokensRemain,
           [Lessons!Next]_(Lessons!vars)
  PROVE  Lessons!TypeOK'
<1> USE DEF Lessons!LearningAssumption, Lessons!TypeOK, Lessons!Goto, Lessons!Finish, Lessons!Steps,
    Lessons!Sources, Lessons!Rows, 
            Lessons!rowVars, Lessons!linkVars, Lessons!quizVars, Lessons!certVars, Lessons!callVars,
              Lessons!faultVars
<1>1. ASSUME NEW c \in Callers, Lessons!QuizStart(c) PROVE Lessons!TypeOK'
  BY <1>1 DEF Lessons!QuizStart
<1>2. ASSUME NEW c \in Callers, Lessons!QuizRead(c) \/ Lessons!Prior(c) \/
               Lessons!CertRead(c) PROVE Lessons!TypeOK'
  BY <1>2 DEF Lessons!QuizRead, Lessons!Prior, Lessons!CertRead
<1>3. ASSUME NEW c \in Callers, Lessons!Attempt(c) PROVE Lessons!TypeOK'
  BY <1>3 DEF Lessons!Attempt
<1>4. ASSUME NEW c \in Callers, Lessons!Complete(c) PROVE Lessons!TypeOK'
  BY <1>4 DEF Lessons!Complete
<1>5. ASSUME NEW c \in Callers, Lessons!CertCreate(c) \/ Lessons!Letter(c) PROVE Lessons!TypeOK'
  BY <1>5 DEF Lessons!CertCreate, Lessons!Letter
<1>6. ASSUME NEW c \in Callers, Lessons!AssignStart(c) \/
               Lessons!AssignFind(c) PROVE Lessons!TypeOK'
  BY <1>6 DEF Lessons!AssignStart, Lessons!AssignFind
<1>7. ASSUME NEW c \in Callers, Lessons!AssignToken(c) PROVE Lessons!TypeOK'
  <2>1. lessons_minted + 1 \in 1 .. MaxTokens /\ lessons_row[c] \in Lessons!Rows
    BY <1>7, MintsLeft DEF Lessons!AssignToken, LessonsLocated
  <2> QED BY <1>7, <2>1 DEF Lessons!AssignToken, Lessons!NewToken
<1>8. ASSUME NEW c \in Callers, Lessons!AssignCreate(c) PROVE Lessons!TypeOK'
  <2>1. lessons_minted + 1 \in 1 .. MaxTokens
    BY <1>8, MintsLeft DEF Lessons!AssignCreate
  <2> QED BY <1>8, <2>1 DEF Lessons!AssignCreate, Lessons!NewToken
<1>9. ASSUME NEW c \in Callers, Lessons!Invite(c) PROVE Lessons!TypeOK'
  <2>1. lessons_row[c] \in Lessons!Rows /\ lessons_held[c] \in 1 .. MaxTokens
    BY <1>9 DEF Lessons!Invite, LessonsLocated
  <2> QED BY <1>9, <2>1 DEF Lessons!Invite
<1>10. ASSUME NEW c \in Callers, Lessons!QuestionsDelete(c) \/ Lessons!QuestionsCreate(c) \/
                Lessons!CallDies(c) PROVE Lessons!TypeOK'
  <2>1. CASE Lessons!QuestionsDelete(c)
    BY <2>1 DEF Lessons!QuestionsDelete
  <2>2. CASE Lessons!QuestionsCreate(c)
    BY <2>2 DEF Lessons!QuestionsCreate
  <2>3. CASE Lessons!CallDies(c)
    BY <2>3 DEF Lessons!CallDies
  <2> QED BY <1>10, <2>1, <2>2, <2>3
<1>11. ASSUME NEW s \in Sends, Lessons!Routed(s) PROVE Lessons!TypeOK'
  BY <1>11 DEF Lessons!Routed
<1>12. ASSUME NEW link \in lessons_mailed, Lessons!Watched(link) PROVE Lessons!TypeOK'
  BY <1>12 DEF Lessons!Watched
<1>13. CASE UNCHANGED Lessons!vars
  BY <1>13 DEF Lessons!vars
<1> QED BY <1>1, <1>2, <1>3, <1>4, <1>5, <1>6, <1>7, <1>8, <1>9, <1>10, <1>11, <1>12, <1>13
        DEF Lessons!Next, Lessons!Call, Lessons!Quiz, Lessons!Assign

\* Rows that are there stay there, and only a new one changes what was said of it.
LEMMA RowsStay ==
  ASSUME Lessons!TypeOK, [Lessons!Next]_(Lessons!vars)
  PROVE  /\ \A r \in Lessons!Rows :
              lessons_assignment[r] # "absent" => lessons_assignment'[r] # "absent"
         /\ \A r \in Lessons!Rows :
              lessons_assignment[r] = "done" => lessons_assignment'[r] = "done"
<1> USE DEF Lessons!TypeOK, Lessons!rowVars
<1>1. ASSUME NEW c \in Callers, Lessons!Complete(c)
      PROVE  \A r \in Lessons!Rows : \/ lessons_assignment'[r] = lessons_assignment[r]
                                     \/ lessons_assignment[r] = "open" /\
                                          lessons_assignment'[r] = "done"
  BY <1>1 DEF Lessons!Complete, Lessons!Completing
<1>2. ASSUME NEW c \in Callers, Lessons!AssignCreate(c)
      PROVE  \A r \in Lessons!Rows :
               lessons_assignment'[r] = lessons_assignment[r] \/ lessons_assignment[r] = "absent"
  BY <1>2 DEF Lessons!AssignCreate
<1>3. ASSUME NEW s \in Sends, Lessons!Routed(s)
      PROVE  \A r \in Lessons!Rows :
               lessons_assignment'[r] = lessons_assignment[r] \/ lessons_assignment[r] = "absent"
  BY <1>3 DEF Lessons!Routed
<1>4. ASSUME NEW link \in lessons_mailed, Lessons!Watched(link)
      PROVE  \A r \in Lessons!Rows : \/ lessons_assignment'[r] = lessons_assignment[r]
                                     \/ lessons_assignment[r] = "open" /\
                                          lessons_assignment'[r] = "done"
  BY <1>4 DEF Lessons!Watched
<1>5. ASSUME NEW c \in Callers,
             \/ Lessons!QuizStart(c) \/ Lessons!QuizRead(c) \/ Lessons!Prior(c)
             \/ Lessons!Attempt(c) \/ Lessons!CertRead(c) \/ Lessons!CertCreate(c)
             \/ Lessons!Letter(c) \/ Lessons!AssignStart(c) \/ Lessons!AssignFind(c)
             \/ Lessons!AssignToken(c) \/ Lessons!Invite(c)
             \/ Lessons!QuestionsDelete(c) \/ Lessons!QuestionsCreate(c) \/ Lessons!CallDies(c)
      PROVE  lessons_assignment' = lessons_assignment
  BY <1>5 DEF Lessons!QuizStart, Lessons!QuizRead, Lessons!Prior, Lessons!Attempt, Lessons!CertRead,
     Lessons!CertCreate, Lessons!Letter, Lessons!AssignStart, 
              Lessons!AssignFind, Lessons!AssignToken, Lessons!Invite, Lessons!QuestionsDelete,
                Lessons!QuestionsCreate, Lessons!CallDies
<1>6. CASE UNCHANGED Lessons!vars
  BY <1>6 DEF Lessons!vars
<1> QED BY <1>1, <1>2, <1>3, <1>4, <1>5, <1>6 DEF Lessons!Next, Lessons!Call, Lessons!Quiz,
    Lessons!Assign

\* What a call holds of its row or its link, as it goes on.
HeldAt(c) ==
  /\ lessons_pc[c] = "idle" => lessons_row[c] = None
  /\ lessons_pc[c] \in {"idle", "assignFind", "assignCreate"} => lessons_via[c] = None
  /\ lessons_row[c] # None => lessons_via[c] = None /\ lessons_assignment[lessons_row[c]] # "absent"
  /\ lessons_pc[c] \in {"assignToken", "invite"} => lessons_row[c] # None
  /\ lessons_pc[c] = "invite" => lessons_held[c] \in 1 .. MaxTokens

LEMMA HeldStays ==
  ASSUME Lessons!LearningAssumption, LessonsIInv, [Lessons!Next]_(Lessons!vars), NEW d \in Callers
  PROVE  HeldAt(d)'
<1> USE DEF Lessons!TypeOK, Lessons!Goto, Lessons!Finish, Lessons!callVars, HeldAt
<1>0. /\ Lessons!TypeOK /\ HeldAt(d) /\ TokensRemain /\ LessonsLocated
      /\ \A r \in Lessons!Rows :
           lessons_assignment[r] # "absent" => lessons_assignment'[r] # "absent"
  BY RowsStay DEF LessonsIInv, LessonsLocated
<1>1. ASSUME lessons_pc'[d] = lessons_pc[d], lessons_via'[d] = lessons_via[d],
               lessons_row'[d] = lessons_row[d], lessons_held'[d] = lessons_held[d]
      PROVE  HeldAt(d)'
  BY <1>0, <1>1
<1>2. ASSUME NEW c \in Callers, Lessons!Call(c) \/ Lessons!CallDies(c), c # d PROVE HeldAt(d)'
  BY <1>0, <1>1, <1>2, CallsSpare DEF Spares
<1>3. CASE Lessons!QuizStart(d)
  <2>1. CASE \E s \in Sends :
               lessons_via' = [lessons_via EXCEPT ![d] = s] /\ lessons_row' = lessons_row
    BY <1>0, <1>3, <2>1 DEF Lessons!QuizStart
  <2>2. CASE \E link \in lessons_mailed :
               lessons_row' = [lessons_row EXCEPT ![d] = link[1]] /\ lessons_via' = lessons_via
    BY <1>0, <1>3, <2>2 DEF Lessons!QuizStart, LessonsLocated
  <2> QED BY <1>3, <2>1, <2>2 DEF Lessons!QuizStart
<1>4. CASE Lessons!QuizRead(d) \/ Lessons!Prior(d) \/ Lessons!Attempt(d)
  BY <1>0, <1>4 DEF Lessons!QuizRead, Lessons!Prior, Lessons!Attempt
<1>5. CASE Lessons!Complete(d) \/ Lessons!CertRead(d) \/ Lessons!CertCreate(d) \/ Lessons!Letter(d)
  BY <1>0, <1>5 DEF Lessons!Complete, Lessons!CertRead, Lessons!CertCreate, Lessons!Letter
<1>6. CASE Lessons!AssignStart(d)
  BY <1>0, <1>6 DEF Lessons!AssignStart
<1>7. CASE Lessons!AssignFind(d)
  <2>1. CASE /\ \A r \in Lessons!Rows : lessons_assignment[r] # "open"
             /\ Lessons!Goto(d, "assignCreate") /\ UNCHANGED lessons_assignment
    BY <1>0, <1>7, <2>1 DEF Lessons!AssignFind
  <2>2. ASSUME NEW r \in Lessons!Rows, lessons_assignment[r] = "open",
               lessons_row' = [lessons_row EXCEPT ![d] = r],
                 lessons_held' = [lessons_held EXCEPT ![d] = lessons_token[r]],
               lessons_pc' = [lessons_pc EXCEPT ![d] = IF lessons_token[r] = 0 THEN "assignToken" ELSE "invite"],
               lessons_via' = lessons_via, lessons_assignment' = lessons_assignment,
                 lessons_pc[d] = "assignFind"
        PROVE  HeldAt(d)'
    <3>1. lessons_row'[d] = r /\ lessons_held'[d] = lessons_token[r] /\
            lessons_via'[d] = lessons_via[d]
          /\ lessons_pc'[d] = IF lessons_token[r] = 0 THEN "assignToken" ELSE "invite"
      BY <1>0, <2>2
    <3>2. lessons_via[d] = None /\ r # None
      BY <1>0, <2>2 DEF Lessons!LearningAssumption, Lessons!Rows, LessonsIInv
    <3>3. lessons_token[r] # 0 => lessons_token[r] \in 1 .. MaxTokens
      BY <1>0 DEF Lessons!LearningAssumption
    <3> QED BY <2>2, <3>1, <3>2, <3>3
  <2> QED BY <1>7, <2>1, <2>2 DEF Lessons!AssignFind, Lessons!rowVars
<1>8. CASE Lessons!AssignToken(d)
  <2>1. lessons_minted + 1 \in 1 .. MaxTokens
    BY <1>0, <1>8, MintsLeft DEF Lessons!AssignToken
  <2> QED BY <1>0, <1>8, <2>1 DEF Lessons!AssignToken, Lessons!NewToken
<1>9. CASE Lessons!AssignCreate(d)
  <2>1. lessons_minted + 1 \in 1 .. MaxTokens
    BY <1>0, <1>9, MintsLeft DEF Lessons!AssignCreate
  <2>2. PICK r \in Extras : /\ lessons_assignment' = [lessons_assignment EXCEPT ![r] = "open"]
                            /\ lessons_row' = [lessons_row EXCEPT ![d] = r]
    BY <1>9 DEF Lessons!AssignCreate
  <2>3. /\ lessons_row'[d] = r /\ lessons_assignment'[r] = "open"
        /\ lessons_via'[d] = lessons_via[d]
        /\ lessons_held'[d] = lessons_minted + 1 /\ lessons_pc'[d] = "invite" /\ r # None
    BY <1>0, <1>9, <2>2 DEF Lessons!AssignCreate, Lessons!NewToken, Lessons!Rows,
       Lessons!LearningAssumption
  <2> QED BY <1>0, <1>9, <2>1, <2>3 DEF Lessons!AssignCreate
<1>10. CASE Lessons!Invite(d) \/ Lessons!QuestionsDelete(d) \/ Lessons!QuestionsCreate(d) \/
              Lessons!CallDies(d)
  BY <1>0, <1>10 DEF Lessons!Invite, Lessons!QuestionsDelete, Lessons!QuestionsCreate,
     Lessons!CallDies
<1>11. CASE (\E s \in Sends : Lessons!Routed(s)) \/
              (\E link \in lessons_mailed : Lessons!Watched(link)) \/ UNCHANGED Lessons!vars
  BY <1>1, <1>11 DEF Lessons!Routed, Lessons!Watched, Lessons!vars
<1> QED BY <1>2, <1>3, <1>4, <1>5, <1>6, <1>7, <1>8, <1>9, <1>10, <1>11 DEF Lessons!Next,
    Lessons!Call, Lessons!Quiz, Lessons!Assign

\* Links and passes are about rows that are there, and a row that is not has no token.
LEMMA LocatedStays ==
  ASSUME Lessons!LearningAssumption, LessonsIInv, [Lessons!Next]_(Lessons!vars)
  PROVE  LessonsLocated'
<1> USE DEF Lessons!TypeOK, LessonsLocated, Lessons!rowVars, Lessons!linkVars, Lessons!quizVars
<1>0. /\ Lessons!TypeOK /\ LessonsLocated
      /\ \A r \in Lessons!Rows :
           lessons_assignment[r] # "absent" => lessons_assignment'[r] # "absent"
  BY RowsStay DEF LessonsIInv
<1>1. ASSUME lessons_mailed' \subseteq lessons_mailed \cup {<<r, t>> : r \in {q \in
               Lessons!Rows : lessons_assignment[q] # "absent"},
                                                       t \in 1 .. MaxTokens}
      PROVE  \A link \in lessons_mailed' : lessons_assignment'[link[1]] # "absent"
  BY <1>0, <1>1
<1>2. ASSUME lessons_passedRows' \subseteq lessons_passedRows \cup {q \in
               Lessons!Rows : lessons_assignment[q] # "absent"}
      PROVE  \A r \in lessons_passedRows' : lessons_assignment'[r] # "absent"
  BY <1>0, <1>2
<1>3. ASSUME NEW c \in Callers, Lessons!Attempt(c)
      PROVE  lessons_passedRows' \subseteq
        lessons_passedRows \cup {q \in Lessons!Rows : lessons_assignment[q] # "absent"}
  BY <1>0, <1>3 DEF Lessons!Attempt
<1>4. ASSUME NEW c \in Callers, Lessons!Invite(c)
      PROVE  lessons_mailed' \subseteq
        lessons_mailed \cup {<<r, t>> : r \in {q \in
          Lessons!Rows : lessons_assignment[q] # "absent"},
                                                       t \in 1 .. MaxTokens}
  <2>1. lessons_row[c] \in Lessons!Rows /\ lessons_assignment[lessons_row[c]] # "absent" /\
          lessons_held[c] \in 1 .. MaxTokens
    BY <1>0, <1>4 DEF Lessons!Invite
  <2> QED BY <1>4, <2>1 DEF Lessons!Invite
<1>5. ASSUME NEW c \in Callers, Lessons!AssignToken(c)
      PROVE  \A r \in Lessons!Rows : lessons_assignment'[r] = "absent" => lessons_token'[r] = 0
  BY <1>0, <1>5 DEF Lessons!AssignToken
<1>6. ASSUME NEW c \in Callers, Lessons!AssignCreate(c)
      PROVE  \A r \in Lessons!Rows : lessons_assignment'[r] = "absent" => lessons_token'[r] = 0
  BY <1>0, <1>6 DEF Lessons!AssignCreate
<1>7. ASSUME NEW c \in Callers,
             \/ Lessons!QuizStart(c) \/ Lessons!QuizRead(c) \/ Lessons!Prior(c)
             \/ Lessons!Complete(c) \/ Lessons!CertRead(c) \/ Lessons!CertCreate(c)
             \/ Lessons!Letter(c) \/ Lessons!AssignStart(c) \/ Lessons!AssignFind(c)
             \/ Lessons!AssignToken(c) \/ Lessons!AssignCreate(c)
             \/ Lessons!QuestionsDelete(c) \/ Lessons!QuestionsCreate(c) \/ Lessons!CallDies(c)
      PROVE  lessons_mailed' = lessons_mailed /\ lessons_passedRows' = lessons_passedRows
  BY <1>7 DEF Lessons!QuizStart, Lessons!QuizRead, Lessons!Prior, Lessons!Complete,
     Lessons!CertRead, Lessons!CertCreate, Lessons!Letter, Lessons!AssignStart, 
              Lessons!AssignFind, Lessons!AssignToken, Lessons!AssignCreate,
                Lessons!QuestionsDelete, Lessons!QuestionsCreate, Lessons!CallDies
<1>8. ASSUME NEW c \in Callers,
             \/ Lessons!QuizStart(c) \/ Lessons!QuizRead(c) \/ Lessons!Prior(c)
             \/ Lessons!Attempt(c) \/ Lessons!Complete(c) \/ Lessons!CertRead(c)
             \/ Lessons!CertCreate(c) \/ Lessons!Letter(c) \/ Lessons!AssignStart(c)
             \/ Lessons!AssignFind(c) \/ Lessons!Invite(c)
             \/ Lessons!QuestionsDelete(c) \/ Lessons!QuestionsCreate(c) \/ Lessons!CallDies(c)
      PROVE  lessons_token' = lessons_token
  BY <1>8 DEF Lessons!QuizStart, Lessons!QuizRead, Lessons!Prior, Lessons!Attempt, Lessons!Complete,
     Lessons!CertRead, Lessons!CertCreate, Lessons!Letter, 
              Lessons!AssignStart, Lessons!AssignFind, Lessons!Invite, Lessons!QuestionsDelete,
                Lessons!QuestionsCreate, Lessons!CallDies
<1>9. ASSUME (\E s \in Sends : Lessons!Routed(s)) \/
               (\E link \in lessons_mailed : Lessons!Watched(link)) \/ UNCHANGED Lessons!vars
      PROVE  lessons_mailed' = lessons_mailed /\ lessons_passedRows' = lessons_passedRows /\
               lessons_token' = lessons_token
  BY <1>9 DEF Lessons!Routed, Lessons!Watched, Lessons!vars
<1>10. /\ lessons_mailed' \subseteq lessons_mailed \cup {<<r, t>> : r \in {q \in
            Lessons!Rows : lessons_assignment[q] # "absent"},
                                                    t \in 1 .. MaxTokens}
       /\ lessons_passedRows' \subseteq lessons_passedRows \cup {q \in
            Lessons!Rows : lessons_assignment[q] # "absent"}
  <2>1. CASE \E c \in Callers : Lessons!Invite(c)
    BY <2>1, <1>4 DEF Lessons!Invite
  <2>2. CASE \E c \in Callers : Lessons!Attempt(c)
    BY <2>2, <1>3 DEF Lessons!Attempt
  <2> QED BY <1>7, <1>9, <2>1, <2>2 DEF Lessons!Next, Lessons!Call, Lessons!Quiz, Lessons!Assign
<1>11. \A r \in Lessons!Rows : lessons_assignment'[r] = "absent" => lessons_token'[r] = 0
  BY <1>0, <1>5, <1>6, <1>8, <1>9 DEF Lessons!Next, Lessons!Call, Lessons!Quiz, Lessons!Assign
<1>12. \A c \in Callers : HeldAt(c)'
  BY HeldStays
<1> QED BY <1>1, <1>2, <1>10, <1>11, <1>12 DEF HeldAt

\* Only a start that was let through on a count below the cap adds to the attempts under way.
LEMMA AttemptsStay ==
  ASSUME Lessons!LearningAssumption, LessonsIInv, [Lessons!Next]_(Lessons!vars)
  PROVE  Lessons!AttemptsCapped'
<1> SUFFICES ASSUME Cap \in Nat
             PROVE  lessons_attempts' + Lessons!Cardinality(Lessons!At("attempt")') <=
               Cap - 1 + Lessons!Cardinality(Callers)
  BY DEF Lessons!AttemptsCapped
<1> USE DEF Lessons!Goto, Lessons!Finish
<1>0. /\ Lessons!TypeOK /\ lessons_attempts \in Nat /\ lessons_attempts' \in Nat
      /\ lessons_attempts + Lessons!Cardinality(Lessons!At("attempt")) <=
           Cap - 1 + Lessons!Cardinality(Callers)
      /\ Lessons!Cardinality(Lessons!At("attempt")) \in Nat
      /\ Lessons!Cardinality(Lessons!At("attempt")') \in Nat
      /\ Lessons!Cardinality(Lessons!At("attempt")') <= Lessons!Cardinality(Callers)
      /\ Lessons!Cardinality(Callers) \in Nat
  <2>1. Lessons!TypeOK'
    BY LessonsTypes DEF LessonsIInv
  <2>2. Lessons!At("attempt") \in SUBSET Callers /\ Lessons!At("attempt")' \in SUBSET Callers
    BY DEF Lessons!At
  <2> QED BY <2>1, <2>2, CallsCounted DEF LessonsIInv, Lessons!TypeOK, Lessons!AttemptsCapped
<1>1. ASSUME NEW c \in Callers,
               Lessons!Prior(c) PROVE lessons_attempts' +
                 Lessons!Cardinality(Lessons!At("attempt")') <=
                   Cap - 1 + Lessons!Cardinality(Callers)
  <2>1. CASE lessons_attempts < Cap
    BY <1>0, <1>1, <2>1 DEF Lessons!Prior, Lessons!quizVars
  <2>2. CASE Lessons!Finish(c)
    <3>1. Shifts(Lessons!At("attempt"), Lessons!At("attempt")', c) /\
            c \notin Lessons!At("attempt")'
      BY <1>0, <1>1, <2>2, OneMoves, CallsSpare DEF Lessons!Call, Lessons!Quiz, Lessons!At,
         Lessons!TypeOK
    <3>2. lessons_attempts' = lessons_attempts
      BY <1>1 DEF Lessons!Prior, Lessons!quizVars
    <3> QED BY <1>0, <3>1, <3>2 DEF Shifts
  <2> QED BY <1>1, <2>1, <2>2 DEF Lessons!Prior, Lessons!AttemptsLeft, Lessons!LearningAssumption
<1>2. ASSUME NEW c \in Callers,
               Lessons!Attempt(c) PROVE lessons_attempts' +
                 Lessons!Cardinality(Lessons!At("attempt")') <=
                   Cap - 1 + Lessons!Cardinality(Callers)
  <2>1. Shifts(Lessons!At("attempt"), Lessons!At("attempt")', c) /\ c \in Lessons!At("attempt") /\
          c \notin Lessons!At("attempt")'
    BY <1>0, <1>2, OneMoves, CallsSpare DEF Lessons!Call, Lessons!Quiz, Lessons!At, Lessons!TypeOK,
       Lessons!Attempt
  <2>2. lessons_attempts' = lessons_attempts + 1
    BY <1>2 DEF Lessons!Attempt
  <2> QED BY <1>0, <2>1, <2>2 DEF Shifts
<1>3. ASSUME NEW c \in Callers, Lessons!Call(c) \/
               Lessons!CallDies(c), ~Lessons!Prior(c), ~Lessons!Attempt(c)
      PROVE  lessons_attempts' + Lessons!Cardinality(Lessons!At("attempt")') <=
        Cap - 1 + Lessons!Cardinality(Callers)
  <2>1. lessons_attempts' = lessons_attempts /\ lessons_pc'[c] # "attempt"
    BY <1>0, <1>3 DEF Lessons!TypeOK, Lessons!Call, Lessons!Quiz, Lessons!Assign, Lessons!QuizStart,
       Lessons!QuizRead, Lessons!Complete, Lessons!CertRead, Lessons!CertCreate, 
              Lessons!Letter, Lessons!AssignStart, Lessons!AssignFind, Lessons!AssignToken,
                Lessons!AssignCreate, Lessons!Invite, Lessons!QuestionsDelete,
              Lessons!QuestionsCreate, Lessons!CallDies, Lessons!quizVars
  <2>2. Shifts(Lessons!At("attempt"), Lessons!At("attempt")', c) /\ c \notin Lessons!At("attempt")'
    BY <1>0, <1>3, <2>1, OneMoves, CallsSpare DEF Lessons!At
  <2> QED BY <1>0, <2>1, <2>2 DEF Shifts
<1>4. ASSUME (\E s \in Sends : Lessons!Routed(s)) \/
               (\E link \in lessons_mailed : Lessons!Watched(link)) \/ UNCHANGED Lessons!vars
      PROVE  lessons_attempts' + Lessons!Cardinality(Lessons!At("attempt")') <=
        Cap - 1 + Lessons!Cardinality(Callers)
  <2>1. lessons_attempts' = lessons_attempts /\ Lessons!At("attempt")' = Lessons!At("attempt")
    BY <1>4 DEF Lessons!Routed, Lessons!Watched, Lessons!vars, Lessons!quizVars, Lessons!callVars,
       Lessons!At
  <2> QED BY <1>0, <2>1
<1> QED BY <1>1, <1>2, <1>3, <1>4 DEF Lessons!Next

\* A call that starts to assign leaves the others their tokens, and takes its own as it mints one.
LEMMA TokensLeft ==
  ASSUME Lessons!LearningAssumption, LessonsIInv, [Lessons!Next]_(Lessons!vars)
  PROVE  TokensRemain'
<1> USE DEF Lessons!Goto, Lessons!Finish
<1>0. /\ Lessons!TypeOK /\ lessons_minted \in Nat /\ MaxTokens \in Nat
      /\ lessons_minted + Lessons!Cardinality(Assigning) <= MaxTokens
      /\ Lessons!Cardinality(Assigning) \in Nat /\ Lessons!Cardinality(Assigning') \in Nat
  <2>1. Assigning \in SUBSET Callers /\ Assigning' \in SUBSET Callers
    BY DEF Assigning
  <2> QED BY <2>1, CallsCounted DEF LessonsIInv, Lessons!TypeOK, TokensRemain,
      Lessons!LearningAssumption
<1>1. ASSUME NEW c \in Callers, Lessons!AssignStart(c) PROVE TokensRemain'
  <2>1. Shifts(Assigning, Assigning', c) /\ c \notin Assigning /\ c \in Assigning'
    BY <1>0, <1>1, OneMoves, CallsSpare DEF Lessons!Call, Lessons!Assign, Lessons!AssignStart,
       Assigning, Lessons!TypeOK
  <2>2. lessons_minted + Lessons!Cardinality(Assigning) < MaxTokens /\
          lessons_minted' = lessons_minted
    BY <1>1 DEF Lessons!AssignStart, Lessons!RoomToAssign, Lessons!Busy, Assigning, Lessons!linkVars
  <2> QED BY <1>0, <2>1, <2>2 DEF Shifts, TokensRemain
<1>2. ASSUME NEW c \in Callers, Lessons!AssignToken(c) \/
               Lessons!AssignCreate(c) PROVE TokensRemain'
  <2>1. Shifts(Assigning, Assigning', c) /\ c \in Assigning /\ c \notin Assigning'
    BY <1>0, <1>2, OneMoves, CallsSpare DEF Lessons!Call, Lessons!Assign, Lessons!AssignToken,
       Lessons!AssignCreate, Assigning, Lessons!TypeOK
  <2>2. lessons_minted' = lessons_minted + 1
    BY <1>2 DEF Lessons!AssignToken, Lessons!AssignCreate, Lessons!NewToken
  <2> QED BY <1>0, <2>1, <2>2 DEF Shifts, TokensRemain
<1>3. ASSUME NEW c \in Callers, Lessons!Call(c) \/
               Lessons!CallDies(c), ~Lessons!AssignStart(c), ~Lessons!AssignToken(c),
                 ~Lessons!AssignCreate(c)
      PROVE  TokensRemain'
  <2>1. lessons_minted' = lessons_minted /\
          (lessons_pc'[c] \in {"assignToken", "assignCreate"} => lessons_pc[c] = "assignFind")
        /\ lessons_pc'[c] # "assignFind"
    BY <1>0, <1>3 DEF Lessons!TypeOK, Lessons!Call, Lessons!Quiz, Lessons!Assign, Lessons!QuizStart,
       Lessons!QuizRead, Lessons!Prior, Lessons!Attempt, Lessons!Complete, Lessons!CertRead, 
              Lessons!CertCreate, Lessons!Letter, Lessons!AssignFind, Lessons!Invite,
                Lessons!QuestionsDelete, Lessons!QuestionsCreate, Lessons!CallDies,
              Lessons!linkVars
  <2>2. Shifts(Assigning, Assigning', c) /\ (c \in Assigning' => c \in Assigning)
    BY <1>0, <1>3, <2>1, OneMoves, CallsSpare DEF Assigning
  <2> QED BY <1>0, <2>1, <2>2 DEF Shifts, TokensRemain
<1>4. ASSUME (\E s \in Sends : Lessons!Routed(s)) \/
               (\E link \in lessons_mailed : Lessons!Watched(link)) \/ UNCHANGED Lessons!vars
      PROVE  TokensRemain'
  <2>1. lessons_minted' = lessons_minted /\ Assigning' = Assigning
    BY <1>4 DEF Lessons!Routed, Lessons!Watched, Lessons!vars, Lessons!linkVars, Lessons!callVars,
       Assigning
  <2> QED BY <1>0, <2>1 DEF TokensRemain
<1> QED BY <1>1, <1>2, <1>3, <1>4 DEF Lessons!Next

\* What a call does to the papers of a source: passed, certified, mailed, and on their way.
LEMMA PapersMove ==
  ASSUME Lessons!LearningAssumption, LessonsIInv, NEW c \in Callers, Lessons!Call(c) \/
           Lessons!CallDies(c), NEW x \in Lessons!Sources
  PROVE  /\ lessons_certificates'[x] + Lessons!Cardinality(Lessons!Issuing(x)') <=
              lessons_passed'[x]
         /\ lessons_letters'[x] + Lessons!Cardinality(Lessons!Mailing(x)') <=
              lessons_certificates'[x]
<1> USE DEF Lessons!Goto, Lessons!Finish
<1>0. /\ Lessons!TypeOK /\ lessons_passed[x] \in Nat /\ lessons_certificates[x] \in Nat
      /\ lessons_letters[x] \in Nat
      /\ lessons_certificates[x] + Lessons!Cardinality(Lessons!Issuing(x)) <= lessons_passed[x]
      /\ lessons_letters[x] + Lessons!Cardinality(Lessons!Mailing(x)) <= lessons_certificates[x]
      /\ Shifts(Lessons!Issuing(x), Lessons!Issuing(x)', c)
      /\ Shifts(Lessons!Mailing(x), Lessons!Mailing(x)', c)
  BY OneMoves, CallsSpare DEF LessonsIInv, Lessons!TypeOK, Lessons!CertificatesEarned,
     Lessons!LettersCovered
<1>1. CASE Lessons!Attempt(c)
  <2>1. lessons_certificates' = lessons_certificates /\ lessons_letters' = lessons_letters /\
          c \notin Lessons!Issuing(x) /\ c \notin Lessons!Mailing(x)
        /\ c \notin Lessons!Mailing(x)'
    BY <1>0, <1>1 DEF Lessons!Attempt, Lessons!certVars, Lessons!Issuing, Lessons!Mailing,
       Lessons!TypeOK
  <2>2. CASE lessons_passed' = lessons_passed /\ lessons_pc'[c] = "idle"
    <3>1. c \notin Lessons!Issuing(x)'
      BY <2>2 DEF Lessons!Issuing
    <3> QED BY <1>0, <2>1, <2>2, <3>1 DEF Shifts
  <2>3. CASE lessons_passed' = [lessons_passed EXCEPT ![lessons_via[c]] = @ + 1] /\
               lessons_via'[c] = lessons_via[c]
    <3>1. lessons_via[c] # x =>
            lessons_passed'[x] = lessons_passed[x] /\ c \notin Lessons!Issuing(x)'
      BY <1>0, <2>3 DEF Lessons!Issuing, Lessons!TypeOK
    <3>2. lessons_via[c] = x => lessons_passed'[x] = lessons_passed[x] + 1
      BY <1>0, <2>3 DEF Lessons!TypeOK
    <3> QED BY <1>0, <2>1, <3>1, <3>2 DEF Shifts
  <2> QED BY <1>0, <1>1, <2>2, <2>3 DEF Lessons!Attempt, Lessons!TypeOK
<1>2. CASE Lessons!CertCreate(c)
  <2>1. lessons_passed' = lessons_passed /\ lessons_letters' = lessons_letters /\
          c \notin Lessons!Mailing(x) /\ c \notin Lessons!Issuing(x)'
    BY <1>0, <1>2 DEF Lessons!CertCreate, Lessons!quizVars, Lessons!Issuing, Lessons!Mailing,
       Lessons!TypeOK
  <2>2. lessons_via[c] # x =>
          lessons_certificates'[x] = lessons_certificates[x] /\ c \notin Lessons!Issuing(x) /\
            c \notin Lessons!Mailing(x)'
    BY <1>0, <1>2 DEF Lessons!CertCreate, Lessons!Issuing, Lessons!Mailing, Lessons!TypeOK
  <2>3. lessons_via[c] = x =>
          lessons_certificates'[x] = lessons_certificates[x] + 1 /\ c \in Lessons!Issuing(x)
    BY <1>0, <1>2 DEF Lessons!CertCreate, Lessons!Issuing, Lessons!TypeOK
  <2> QED BY <1>0, <2>1, <2>2, <2>3 DEF Shifts
<1>3. CASE Lessons!Letter(c)
  <2>1. lessons_passed' = lessons_passed /\ lessons_certificates' = lessons_certificates /\
          c \notin Lessons!Mailing(x)' /\ c \notin Lessons!Issuing(x)'
        /\ c \notin Lessons!Issuing(x)
    BY <1>0, <1>3 DEF Lessons!Letter, Lessons!quizVars, Lessons!Issuing, Lessons!Mailing,
       Lessons!TypeOK
  <2>2. lessons_via[c] # x =>
          lessons_letters'[x] = lessons_letters[x] /\ c \notin Lessons!Mailing(x)
    BY <1>0, <1>3 DEF Lessons!Letter, Lessons!Mailing, Lessons!TypeOK
  <2>3. lessons_via[c] = x =>
          lessons_letters'[x] \in {lessons_letters[x], lessons_letters[x] + 1} /\
            c \in Lessons!Mailing(x)
    BY <1>0, <1>3 DEF Lessons!Letter, Lessons!Mailing, Lessons!TypeOK
  <2> QED BY <1>0, <2>1, <2>2, <2>3 DEF Shifts
<1>4. CASE ~Lessons!Attempt(c) /\ ~Lessons!CertCreate(c) /\ ~Lessons!Letter(c)
  <2>1. lessons_passed' = lessons_passed /\ lessons_certificates' = lessons_certificates /\
          lessons_letters' = lessons_letters
    BY <1>4 DEF Lessons!Call, Lessons!Quiz, Lessons!Assign, Lessons!QuizStart, Lessons!QuizRead,
       Lessons!Prior, Lessons!Complete, Lessons!CertRead, Lessons!AssignStart, 
              Lessons!AssignFind, Lessons!AssignToken, Lessons!AssignCreate, Lessons!Invite,
                Lessons!QuestionsDelete, Lessons!QuestionsCreate,
              Lessons!CallDies, Lessons!quizVars, Lessons!certVars
  <2>2. /\ lessons_pc'[c] \in {"complete", "certRead", "certCreate"} =>
             lessons_pc[c] \in {"complete", "certRead", "certCreate"} /\
               lessons_via'[c] = lessons_via[c]
        /\ lessons_pc'[c] # "letter"
    BY <1>0, <1>4 DEF Lessons!TypeOK, Lessons!Call, Lessons!Quiz, Lessons!Assign, Lessons!QuizStart,
       Lessons!QuizRead, Lessons!Prior, Lessons!Complete, Lessons!CertRead, 
              Lessons!AssignStart, Lessons!AssignFind, Lessons!AssignToken, Lessons!AssignCreate,
                Lessons!Invite, Lessons!QuestionsDelete,
              Lessons!QuestionsCreate, Lessons!CallDies
  <2>3. (c \in Lessons!Issuing(x)' => c \in Lessons!Issuing(x)) /\ c \notin Lessons!Mailing(x)'
    BY <2>2 DEF Lessons!Issuing, Lessons!Mailing
  <2> QED BY <1>0, <2>1, <2>3 DEF Shifts
<1> QED BY <1>1, <1>2, <1>3, <1>4

LEMMA PapersStay ==
  ASSUME Lessons!LearningAssumption, LessonsIInv, [Lessons!Next]_(Lessons!vars)
  PROVE  Lessons!CertificatesEarned' /\ Lessons!LettersCovered'
<1>1. CASE \E c \in Callers : Lessons!Call(c) \/ Lessons!CallDies(c)
  BY <1>1, PapersMove DEF Lessons!CertificatesEarned, Lessons!LettersCovered, Lessons!Sources
<1>2. ASSUME (\E s \in Sends : Lessons!Routed(s)) \/
               (\E link \in lessons_mailed : Lessons!Watched(link)) \/ UNCHANGED Lessons!vars
      PROVE  Lessons!CertificatesEarned' /\ Lessons!LettersCovered'
  <2>1. /\ UNCHANGED <<lessons_passed, lessons_certificates, lessons_letters>>
        /\ \A x \in Lessons!Sources :
             Lessons!Issuing(x)' = Lessons!Issuing(x) /\ Lessons!Mailing(x)' = Lessons!Mailing(x)
    BY <1>2 DEF Lessons!Routed, Lessons!Watched, Lessons!vars, Lessons!quizVars, Lessons!certVars,
       Lessons!callVars, Lessons!Issuing, Lessons!Mailing
  <2> QED BY <2>1 DEF LessonsIInv, Lessons!CertificatesEarned, Lessons!LettersCovered
<1> QED BY <1>1, <1>2 DEF Lessons!Next

\* What is left to do for a pass is done by the call that passed, unless it dies.
LEMMA PassMoves ==
  ASSUME Lessons!LearningAssumption, LessonsIInv, NEW c \in Callers, Lessons!Call(c) \/
           Lessons!CallDies(c)
  PROVE  Lessons!PassHonoured'
<1> USE DEF Lessons!Goto, Lessons!Finish
<1>0. /\ Lessons!TypeOK /\ Lessons!PassHonoured /\ LessonsLocated /\ Spares(c)
      /\ \A r \in Lessons!Rows : lessons_assignment[r] = "done" => lessons_assignment'[r] = "done"
  BY RowsStay, CallsSpare DEF LessonsIInv, Lessons!Next
<1>1. ASSUME lessons_dropped \subseteq lessons_dropped',
               NEW x \in Lessons!Sources \ lessons_dropped', lessons_passed'[x] # 0
      PROVE  lessons_certificates'[x] # 0 \/ Lessons!Issuing(x)' # {}
  <2> SUFFICES ASSUME lessons_certificates'[x] = 0 PROVE Lessons!Issuing(x)' # {}
    OBVIOUS
  <2>1. CASE lessons_passed[x] = 0
    <3>1. Lessons!Attempt(c) /\
            lessons_passed' = [lessons_passed EXCEPT ![lessons_via[c]] = @ + 1] /\
              lessons_pc'[c] = "complete" /\ lessons_via'[c] = lessons_via[c]
      BY <1>0, <1>1, <2>1 DEF Lessons!TypeOK, Lessons!Call, Lessons!Quiz, Lessons!Assign,
         Lessons!QuizStart, Lessons!QuizRead, Lessons!Prior, Lessons!Attempt, Lessons!Complete, 
                Lessons!CertRead, Lessons!CertCreate, Lessons!Letter, Lessons!AssignStart,
                  Lessons!AssignFind, Lessons!AssignToken, Lessons!AssignCreate,
                Lessons!Invite, Lessons!QuestionsDelete, Lessons!QuestionsCreate, Lessons!CallDies,
                  Lessons!quizVars
    <3>2. lessons_via[c] = x
      BY <1>0, <1>1, <2>1, <3>1 DEF Lessons!TypeOK
    <3> QED BY <3>1, <3>2 DEF Lessons!Issuing
  <2>2. CASE lessons_passed[x] # 0
    <3>1. lessons_certificates[x] = 0
      BY <1>0 DEF Lessons!TypeOK, Lessons!Call, Lessons!Quiz, Lessons!Assign, Lessons!QuizStart,
         Lessons!QuizRead, Lessons!Prior, Lessons!Attempt, Lessons!Complete, Lessons!CertRead, 
                Lessons!CertCreate, Lessons!Letter, Lessons!AssignStart, Lessons!AssignFind,
                  Lessons!AssignToken, Lessons!AssignCreate, Lessons!Invite,
                Lessons!QuestionsDelete, Lessons!QuestionsCreate, Lessons!CallDies, Lessons!certVars
    <3>2. PICK d \in Callers :
                 lessons_via[d] = x /\ lessons_pc[d] \in {"complete", "certRead", "certCreate"}
      BY <1>0, <1>1, <2>2, <3>1 DEF Lessons!PassHonoured, Lessons!Issuing
    <3>3. CASE d # c
      BY <1>0, <3>2, <3>3 DEF Spares, Lessons!Issuing
    <3>4. CASE d = c
      <4>1. Lessons!Complete(c) \/ Lessons!CertRead(c) \/ Lessons!CertCreate(c) \/
              Lessons!CallDies(c)
        BY <3>2, <3>4 DEF Lessons!Call, Lessons!Quiz, Lessons!Assign, Lessons!QuizStart,
           Lessons!QuizRead, Lessons!Prior, Lessons!Attempt, Lessons!Letter, Lessons!AssignStart, 
                  Lessons!AssignFind, Lessons!AssignToken, Lessons!AssignCreate, Lessons!Invite,
                    Lessons!QuestionsDelete, Lessons!QuestionsCreate
      <4>2. ~Lessons!CallDies(c)
        BY <1>1, <3>2, <3>4 DEF Lessons!CallDies
      <4>3. ~Lessons!CertCreate(c)
        BY <1>0, <1>1, <3>1, <3>2, <3>4 DEF Lessons!CertCreate, Lessons!TypeOK
      <4>4. lessons_pc'[c] \in {"certRead", "certCreate"} /\ lessons_via'[c] = lessons_via[c]
        BY <1>0, <3>1, <3>2, <3>4, <4>1, <4>2, <4>3 DEF Lessons!Complete, Lessons!CertRead,
           Lessons!TypeOK
      <4> QED BY <3>2, <3>4, <4>4 DEF Lessons!Issuing
    <3> QED BY <3>3, <3>4
  <2> QED BY <2>1, <2>2
<1>2. ASSUME lessons_dropped \subseteq lessons_dropped', None \notin lessons_dropped',
               NEW r \in lessons_passedRows'
      PROVE  lessons_assignment'[r] = "done" \/ \E d \in Lessons!At("complete")' :
               lessons_row'[d] = r
  <2>1. CASE r \notin lessons_passedRows
    <3>1. lessons_row[c] = r /\ lessons_pc'[c] = "complete" /\ lessons_row'[c] = lessons_row[c]
      BY <1>0, <1>2, <2>1 DEF Lessons!TypeOK, Lessons!Call, Lessons!Quiz, Lessons!Assign,
         Lessons!QuizStart, Lessons!QuizRead, Lessons!Prior, Lessons!Attempt, Lessons!Complete, 
                Lessons!CertRead, Lessons!CertCreate, Lessons!Letter, Lessons!AssignStart,
                  Lessons!AssignFind, Lessons!AssignToken, Lessons!AssignCreate,
                Lessons!Invite, Lessons!QuestionsDelete, Lessons!QuestionsCreate, Lessons!CallDies,
                  Lessons!quizVars
    <3> QED BY <3>1 DEF Lessons!At
  <2>2. CASE r \in lessons_passedRows /\ lessons_assignment[r] = "done"
    BY <1>0, <2>2 DEF Lessons!TypeOK
  <2>3. CASE r \in lessons_passedRows /\ lessons_assignment[r] # "done"
    <3>1. PICK d \in Callers : lessons_pc[d] = "complete" /\ lessons_row[d] = r
      BY <1>0, <1>2, <2>3 DEF Lessons!PassHonoured, Lessons!At
    <3>2. r \in Lessons!Rows /\ r # None /\ lessons_assignment[r] = "open"
      BY <1>0, <2>3 DEF Lessons!TypeOK, LessonsLocated, Lessons!LearningAssumption, Lessons!Rows
    <3>3. CASE d # c
      BY <1>0, <3>1, <3>3 DEF Spares, Lessons!At
    <3>4. CASE d = c
      <4>1. Lessons!Complete(c) \/ Lessons!CallDies(c)
        BY <3>1, <3>4 DEF Lessons!Call, Lessons!Quiz, Lessons!Assign, Lessons!QuizStart,
           Lessons!QuizRead, Lessons!Prior, Lessons!Attempt, Lessons!CertRead, Lessons!CertCreate, 
                  Lessons!Letter, Lessons!AssignStart, Lessons!AssignFind, Lessons!AssignToken,
                    Lessons!AssignCreate, Lessons!Invite, Lessons!QuestionsDelete,
                  Lessons!QuestionsCreate
      <4>2. lessons_via[c] = None
        BY <1>0, <3>1, <3>2, <3>4 DEF LessonsLocated
      <4>3. ~Lessons!CallDies(c)
        BY <1>2, <4>2 DEF Lessons!CallDies
      <4>4. lessons_assignment'[r] = "done"
        BY <3>1, <3>2, <3>4, <4>1, <4>3 DEF Lessons!Complete, Lessons!Completing
      <4> QED BY <4>4
    <3> QED BY <3>3, <3>4
  <2> QED BY <2>1, <2>2, <2>3
<1>3. lessons_dropped \subseteq lessons_dropped'
  BY DEF Lessons!Call, Lessons!Quiz, Lessons!Assign, Lessons!QuizStart, Lessons!QuizRead,
     Lessons!Prior, Lessons!Attempt, Lessons!Complete, Lessons!CertRead, Lessons!CertCreate,
     Lessons!Letter, 
         Lessons!AssignStart, Lessons!AssignFind, Lessons!AssignToken, Lessons!AssignCreate,
           Lessons!Invite, Lessons!QuestionsDelete,
         Lessons!QuestionsCreate, Lessons!CallDies, Lessons!faultVars
<1> QED BY <1>1, <1>2, <1>3 DEF Lessons!PassHonoured, Lessons!Sources

LEMMA PassStays ==
  ASSUME Lessons!LearningAssumption, LessonsIInv, [Lessons!Next]_(Lessons!vars)
  PROVE  Lessons!PassHonoured'
<1>1. CASE \E c \in Callers : Lessons!Call(c) \/ Lessons!CallDies(c)
  BY <1>1, PassMoves
<1>2. ASSUME (\E s \in Sends : Lessons!Routed(s)) \/
               (\E link \in lessons_mailed : Lessons!Watched(link)) \/ UNCHANGED Lessons!vars
      PROVE  Lessons!PassHonoured'
  <2>1. /\ UNCHANGED <<lessons_passed, lessons_passedRows, lessons_certificates,
             lessons_dropped, lessons_pc, lessons_via, lessons_row>>
        /\ \A x \in Lessons!Sources : Lessons!Issuing(x)' = Lessons!Issuing(x)
        /\ Lessons!At("complete")' = Lessons!At("complete")
    BY <1>2 DEF Lessons!Routed, Lessons!Watched, Lessons!vars, Lessons!quizVars, Lessons!certVars,
       Lessons!callVars, Lessons!faultVars, Lessons!Issuing, Lessons!At
  <2>2. lessons_passedRows \subseteq Lessons!Rows /\ \A r \in Lessons!Rows :
          lessons_assignment[r] = "done" => lessons_assignment'[r] = "done"
    BY RowsStay DEF LessonsIInv, Lessons!TypeOK
  <2> QED BY <2>1, <2>2 DEF LessonsIInv, Lessons!PassHonoured
<1> QED BY <1>1, <1>2 DEF Lessons!Next

\* The tokens of a row are finitely many; one more makes them one more at most.
LEMMA LinkedCounted ==
  ASSUME Lessons!LearningAssumption, NEW S \in SUBSET (1 .. MaxTokens),
           NEW T \in SUBSET (1 .. MaxTokens)
  PROVE  /\ Lessons!Cardinality(S) \in Nat /\ Lessons!Cardinality(T) \in Nat
         /\ T \subseteq S => Lessons!Cardinality(T) <= Lessons!Cardinality(S)
         /\ \A t : T \subseteq S \cup {t} => Lessons!Cardinality(T) <= Lessons!Cardinality(S) + 1
         /\ T = {} => Lessons!Cardinality(T) = 0
<1>1. Lessons!IsFiniteSet(1 .. MaxTokens)
  BY CountsAlike, FS_Interval DEF Lessons!LearningAssumption
<1>2. Lessons!IsFiniteSet(S) /\ Lessons!IsFiniteSet(T) /\ Lessons!Cardinality(S) \in Nat /\
        Lessons!Cardinality(T) \in Nat
  BY CountsAlike, <1>1, FS_Subset, FS_CardinalityType
<1>3. T \subseteq S => Lessons!Cardinality(T) <= Lessons!Cardinality(S)
  BY <1>2, SubsetsCount
<1>4. ASSUME NEW t, T \subseteq S \cup {t}
      PROVE Lessons!Cardinality(T) <= Lessons!Cardinality(S) + 1
  <2>1. Lessons!IsFiniteSet(S \cup {t}) /\
          Lessons!Cardinality(S \cup {t}) <= Lessons!Cardinality(S) + 1
    <3>1. Lessons!IsFiniteSet(S \cup {t}) /\
            (t \notin S => Lessons!Cardinality(S \cup {t}) = Lessons!Cardinality(S) + 1)
      BY CountsAlike, <1>2, FS_AddElement
    <3>2. CASE t \in S
      <4>1. S \cup {t} = S
        BY <3>2
      <4> QED BY <1>2, <4>1
    <3>3. CASE t \notin S
      BY <1>2, <3>1, <3>3
    <3> QED BY <3>2, <3>3
  <2>2. Lessons!Cardinality(S \cup {t}) \in Nat
    BY CountsAlike, <2>1, FS_CardinalityType
  <2>3. Lessons!Cardinality(T) <= Lessons!Cardinality(S \cup {t})
    BY <2>1, <1>4, SubsetsCount
  <2> QED BY <2>1, <2>2, <2>3, <1>2
<1> QED BY CountsAlike, <1>2, <1>3, <1>4, FS_EmptySet

\* What was said of a row's tokens, of one row.
Explained(r) ==
  IF lessons_token[r] = 0 THEN Linked(r) = {}
  ELSE Lessons!Cardinality(Linked(r)) + Lessons!Cardinality(Renewing(r)) <=
    Lessons!Cardinality(Callers)

\* It stays so where nothing is added.
LEMMA LinkedShrinks ==
  ASSUME Lessons!LearningAssumption, NEW r \in Lessons!Rows, Explained(r),
           lessons_token'[r] = lessons_token[r],
         Linked(r)' \subseteq Linked(r), lessons_token[r] # 0 => Renewing(r)' \subseteq Renewing(r)
  PROVE  Explained(r)'
<1>1. CASE lessons_token[r] = 0
  BY <1>1 DEF Explained
<1>2. CASE lessons_token[r] # 0
  <2>1. Linked(r) \in SUBSET (1 .. MaxTokens) /\ Linked(r)' \in SUBSET (1 .. MaxTokens)
    BY DEF Linked
  <2>2. /\ Lessons!Cardinality(Linked(r)) \in Nat /\ Lessons!Cardinality(Linked(r)') \in Nat
        /\ Lessons!Cardinality(Linked(r)') <= Lessons!Cardinality(Linked(r))
    BY <2>1, LinkedCounted
  <2>3. Renewing(r) \in SUBSET Callers /\ Renewing(r)' \in SUBSET Callers
    BY DEF Renewing
  <2>4. /\ Lessons!Cardinality(Renewing(r)) \in Nat /\ Lessons!Cardinality(Renewing(r)') \in Nat
        /\ Lessons!Cardinality(Renewing(r)') <= Lessons!Cardinality(Renewing(r))
    BY CountsAlike, <2>3, <1>2, FS_Subset, CallsCounted DEF Lessons!LearningAssumption
  <2> QED BY <1>2, <2>2, <2>4, CallsCounted DEF Explained
<1> QED BY <1>1, <1>2

\* A call's step adds no token to a row but the one that it mints for it.
LEMMA TokensMove ==
  ASSUME Lessons!LearningAssumption, LessonsIInv, NEW c \in Callers, Lessons!Call(c) \/
           Lessons!CallDies(c), NEW r \in Lessons!Rows
  PROVE  Explained(r)'
<1> USE DEF Lessons!Goto, Lessons!Finish
<1>0. /\ Lessons!TypeOK /\ LessonsLocated /\ Spares(c) /\ Explained(r)
      /\ Shifts(Renewing(r), Renewing(r)', c)
      /\ Lessons!Cardinality(Callers) \in Nat /\ None \notin Lessons!Rows
  BY CallsSpare, OneMoves, CallsCounted
     DEF LessonsIInv, TokensExplained, Explained, Lessons!LearningAssumption, Lessons!Rows
<1>1. Linked(r) \in SUBSET (1 .. MaxTokens) /\ Linked(r)' \in SUBSET (1 .. MaxTokens)
      /\ Renewing(r) \in SUBSET Callers /\ Renewing(r)' \in SUBSET Callers
  BY DEF Linked, Renewing
<1>2. ASSUME lessons_mailed' = lessons_mailed, lessons_token'[r] = lessons_token[r],
             lessons_pc'[c] = "invite" => lessons_row'[c] # r \/ lessons_held'[c] \in Linked(r)
      PROVE  Linked(r)' \subseteq Linked(r)
  <2> SUFFICES ASSUME NEW t \in 1 .. MaxTokens, NEW d \in Callers,
                      lessons_pc'[d] = "invite" /\ lessons_row'[d] = r /\ lessons_held'[d] = t
               PROVE  t \in Linked(r)
    BY <1>2 DEF Linked
  <2> QED BY <1>0, <1>2 DEF Spares, Linked
<1>3. CASE Lessons!AssignFind(c)
  <2>1. lessons_mailed' = lessons_mailed /\ lessons_token' = lessons_token /\
          lessons_pc[c] = "assignFind"
    BY <1>3 DEF Lessons!AssignFind, Lessons!rowVars, Lessons!linkVars
  <2>2. lessons_pc'[c] = "invite" => /\ lessons_row'[c] \in Lessons!Rows
                                     /\ lessons_held'[c] = lessons_token[lessons_row'[c]]
                                     /\ lessons_token[lessons_row'[c]] # 0
    BY <1>0, <1>3 DEF Lessons!AssignFind, Lessons!TypeOK
  <2>3. lessons_pc'[c] = "invite" => lessons_row'[c] # r \/ lessons_held'[c] \in Linked(r)
    BY <1>0, <2>2 DEF Linked, Lessons!TypeOK, Lessons!LearningAssumption
  <2>4. lessons_pc'[c] = "assignToken" =>
          lessons_token[lessons_row'[c]] = 0 /\ lessons_row'[c] \in Lessons!Rows
    BY <1>0, <1>3 DEF Lessons!AssignFind, Lessons!TypeOK
  <2>5. lessons_token[r] # 0 => Renewing(r)' \subseteq Renewing(r)
    BY <1>0, <2>4 DEF Spares, Renewing
  <2> QED BY <1>0, <2>1, <2>3, <2>5, <1>2, LinkedShrinks
<1>4. CASE Lessons!AssignToken(c)
  <2>1. /\ lessons_mailed' = lessons_mailed /\ lessons_pc[c] = "assignToken"
        /\ lessons_pc'[c] = "invite" /\ lessons_row'[c] = lessons_row[c]
        /\ lessons_row[c] \in Lessons!Rows /\ lessons_held'[c] = lessons_minted + 1
        /\ lessons_token' = [lessons_token EXCEPT ![lessons_row[c]] = lessons_minted + 1]
        /\ lessons_minted + 1 \in 1 .. MaxTokens
    BY <1>0, <1>4, MintsLeft DEF Lessons!AssignToken, Lessons!NewToken, Lessons!TypeOK,
       LessonsLocated, LessonsIInv
  <2>2. CASE lessons_row[c] # r
    <3>1. lessons_token'[r] = lessons_token[r] /\ Linked(r)' \subseteq Linked(r)
      BY <1>0, <2>1, <2>2, <1>2 DEF Lessons!TypeOK
    <3>2. Renewing(r)' \subseteq Renewing(r)
      BY <1>0, <2>1 DEF Spares, Renewing
    <3> QED BY <1>0, <3>1, <3>2, LinkedShrinks
  <2>3. CASE lessons_row[c] = r
    <3>1. lessons_token'[r] = lessons_minted + 1 /\ c \in Renewing(r) /\ c \notin Renewing(r)'
      BY <1>0, <2>1, <2>3 DEF Lessons!TypeOK, Renewing
    <3>2. Lessons!Cardinality(Renewing(r)') = Lessons!Cardinality(Renewing(r)) - 1
      BY <1>0, <3>1 DEF Shifts
    <3>3. Linked(r)' \subseteq Linked(r) \cup {lessons_minted + 1}
      <4> SUFFICES ASSUME NEW t \in 1 .. MaxTokens, t # lessons_minted + 1,
                          <<r, t>> \in lessons_mailed \/ \E d \in Callers :
                            lessons_pc'[d] = "invite" /\ lessons_row'[d] = r /\ lessons_held'[d] = t
                   PROVE  t \in Linked(r)
        BY <2>1, <3>1 DEF Linked
      <4> QED BY <1>0, <2>1 DEF Spares, Linked
    <3>4. Lessons!Cardinality(Linked(r)') <= Lessons!Cardinality(Linked(r)) + 1 /\
            Lessons!Cardinality(Linked(r)) \in Nat
          /\ Lessons!Cardinality(Linked(r)') \in Nat
      BY <1>1, <3>3, LinkedCounted
    <3>5. lessons_token'[r] # 0
      BY <2>1, <3>1
    <3>6. CASE lessons_token[r] = 0
      <4>1. Lessons!Cardinality(Linked(r)) = 0
        BY <1>0, <1>1, <3>6, LinkedCounted DEF Explained
      <4>2. Lessons!Cardinality(Renewing(r)) <= Lessons!Cardinality(Callers) /\
              Lessons!Cardinality(Renewing(r)) \in Nat
        BY <1>1, CallsCounted
      <4>3. Lessons!Cardinality(Renewing(r)') + Lessons!Cardinality(Linked(r)') <=
              Lessons!Cardinality(Callers)
        BY <1>0, <3>2, <3>4, <4>1, <4>2
      <4> QED BY <1>0, <3>2, <3>4, <3>5, <4>2, <4>3 DEF Explained
    <3>7. CASE lessons_token[r] # 0
      <4>1. Lessons!Cardinality(Renewing(r)) \in Nat
        BY <1>1, CallsCounted
      <4> QED BY <1>0, <3>2, <3>4, <3>5, <3>7, <4>1 DEF Explained
    <3> QED BY <3>6, <3>7
  <2> QED BY <2>2, <2>3
<1>5. CASE Lessons!AssignCreate(c)
  <2>1. PICK q \in Extras : /\ lessons_assignment[q] = "absent"
                            /\ lessons_token' = [lessons_token EXCEPT ![q] = lessons_minted + 1]
                            /\ lessons_row' = [lessons_row EXCEPT ![c] = q]
    BY <1>5 DEF Lessons!AssignCreate, Lessons!NewToken
  <2>2. /\ lessons_mailed' = lessons_mailed /\ lessons_pc'[c] = "invite" /\ lessons_row'[c] = q
        /\ lessons_held'[c] = lessons_minted + 1
        /\ q \in Lessons!Rows /\ lessons_pc[c] = "assignCreate"
        /\ lessons_minted + 1 \in 1 .. MaxTokens
    BY <1>0, <1>5, <2>1, MintsLeft DEF Lessons!AssignCreate, Lessons!NewToken, Lessons!TypeOK,
       Lessons!Rows, LessonsIInv
  <2>3. Renewing(r)' \subseteq Renewing(r)
    BY <1>0, <2>2 DEF Spares, Renewing
  <2>4. CASE q # r
    <3>1. lessons_token'[r] = lessons_token[r] /\ Linked(r)' \subseteq Linked(r)
      BY <1>0, <2>1, <2>2, <2>4, <1>2 DEF Lessons!TypeOK
    <3> QED BY <1>0, <2>3, <3>1, LinkedShrinks
  <2>5. CASE q = r
    <3>1. Renewing(r)' = {} /\ lessons_token[r] = 0 /\ Linked(r) = {}
      BY <1>0, <2>1, <2>2, <2>3, <2>5 DEF LessonsLocated, Renewing, Explained
    <3>2. Linked(r)' \subseteq Linked(r) \cup {lessons_minted + 1}
      <4> SUFFICES ASSUME NEW t \in 1 .. MaxTokens, t # lessons_minted + 1,
                          <<r, t>> \in lessons_mailed \/ \E d \in Callers :
                            lessons_pc'[d] = "invite" /\ lessons_row'[d] = r /\ lessons_held'[d] = t
                   PROVE  t \in Linked(r)
        BY <1>0, <2>1, <2>2, <2>5 DEF Linked, Lessons!TypeOK
      <4> QED BY <1>0, <2>2 DEF Spares, Linked
    <3>3. Lessons!Cardinality(Linked(r)') <= Lessons!Cardinality(Linked(r)) + 1 /\
            Lessons!Cardinality(Linked(r)') \in Nat
          /\ Lessons!Cardinality(Linked(r)) = 0
      BY <1>1, <3>1, <3>2, LinkedCounted
    <3>4. Lessons!Cardinality(Renewing(r)') = 0
      BY CountsAlike, <3>1, FS_EmptySet
    <3>5. Lessons!Cardinality(Callers) >= 1
      BY CallsCounted
    <3>6. Lessons!Cardinality(Linked(r)') + Lessons!Cardinality(Renewing(r)') <=
            Lessons!Cardinality(Callers)
      BY <1>0, <3>3, <3>4, <3>5
    <3>7. lessons_token'[r] # 0
      BY <1>0, <2>1, <2>2, <2>5 DEF Lessons!TypeOK
    <3> QED BY <3>6, <3>7 DEF Explained
  <2> QED BY <2>4, <2>5
<1>6. CASE Lessons!Invite(c)
  <2>1. /\ lessons_token' = lessons_token /\ lessons_pc[c] = "invite" /\ lessons_pc'[c] = "idle"
        /\ lessons_row[c] \in Lessons!Rows /\ lessons_held[c] \in 1 .. MaxTokens
        /\ lessons_mailed' \subseteq lessons_mailed \cup {<<lessons_row[c], lessons_held[c]>>}
    BY <1>0, <1>6 DEF Lessons!Invite, Lessons!rowVars, Lessons!TypeOK, LessonsLocated
  <2>2. Linked(r)' \subseteq Linked(r)
    <3> SUFFICES ASSUME NEW t \in 1 .. MaxTokens,
                        <<r, t>> \in lessons_mailed' \/ \E d \in Callers :
                          lessons_pc'[d] = "invite" /\ lessons_row'[d] = r /\ lessons_held'[d] = t
                 PROVE  t \in Linked(r)
      BY <2>1 DEF Linked
    <3> QED BY <1>0, <2>1 DEF Spares, Linked
  <2>3. Renewing(r)' \subseteq Renewing(r)
    BY <1>0, <2>1 DEF Spares, Renewing
  <2> QED BY <1>0, <2>1, <2>2, <2>3, LinkedShrinks
<1>7. CASE ~Lessons!AssignFind(c) /\ ~Lessons!AssignToken(c) /\ ~Lessons!AssignCreate(c) /\
             ~Lessons!Invite(c)
  <2>1. lessons_mailed' = lessons_mailed /\ lessons_token' = lessons_token
    BY <1>7 DEF Lessons!Call, Lessons!Quiz, Lessons!Assign, Lessons!QuizStart, Lessons!QuizRead,
       Lessons!Prior, Lessons!Attempt, Lessons!Complete, Lessons!CertRead, Lessons!CertCreate, 
              Lessons!Letter, Lessons!AssignStart, Lessons!QuestionsDelete, Lessons!QuestionsCreate,
                Lessons!CallDies, Lessons!rowVars, Lessons!linkVars
  <2>2. lessons_pc'[c] \notin {"invite", "assignToken"}
    BY <1>0, <1>7 DEF Lessons!TypeOK, Lessons!Call, Lessons!Quiz, Lessons!Assign, Lessons!QuizStart,
       Lessons!QuizRead, Lessons!Prior, Lessons!Attempt, Lessons!Complete, Lessons!CertRead, 
              Lessons!CertCreate, Lessons!Letter, Lessons!AssignStart, Lessons!QuestionsDelete,
                Lessons!QuestionsCreate, Lessons!CallDies
  <2>3. Renewing(r)' \subseteq Renewing(r)
    BY <1>0, <2>2 DEF Spares, Renewing
  <2> QED BY <1>0, <2>1, <2>2, <2>3, <1>2, LinkedShrinks
<1> QED BY <1>3, <1>4, <1>5, <1>6, <1>7

LEMMA TokensStay ==
  ASSUME Lessons!LearningAssumption, LessonsIInv, [Lessons!Next]_(Lessons!vars)
  PROVE  TokensExplained'
<1>1. CASE \E c \in Callers : Lessons!Call(c) \/ Lessons!CallDies(c)
  <2>1. \A r \in Lessons!Rows : Explained(r)'
    BY <1>1, TokensMove
  <2> QED BY <2>1 DEF TokensExplained, Explained, Lessons!Rows
<1>2. ASSUME (\E s \in Sends : Lessons!Routed(s)) \/
               (\E link \in lessons_mailed : Lessons!Watched(link)) \/ UNCHANGED Lessons!vars
      PROVE  TokensExplained'
  <2>1. lessons_token' = lessons_token /\ \A r \in Lessons!Rows :
          Linked(r)' = Linked(r) /\ Renewing(r)' = Renewing(r)
    BY <1>2 DEF Lessons!Routed, Lessons!Watched, Lessons!vars, Lessons!linkVars, Lessons!callVars,
       Linked, Renewing
  <2> QED BY <2>1 DEF LessonsIInv, TokensExplained, Lessons!Rows
<1> QED BY <1>1, <1>2 DEF Lessons!Next

-----------------------------------------------------------------------------
\* Nobody has taken a quiz yet, and nothing is assigned.
LEMMA LessonsIInvInit ==
  ASSUME Lessons!LearningAssumption, Lessons!Init
  PROVE  LessonsIInv
<1> USE DEF Lessons!LearningAssumption, Lessons!Init
<1>1. Lessons!TypeOK
  BY DEF Lessons!TypeOK, Lessons!Rows, Lessons!Sources, Lessons!Steps
<1>2. LessonsLocated
  BY DEF LessonsLocated
<1>3. TokensExplained
  BY DEF TokensExplained, Linked
<1>4. /\ Lessons!At("attempt") = {} /\ Assigning = {}
      /\ \A x \in Lessons!Sources : Lessons!Issuing(x) = {} /\ Lessons!Mailing(x) = {}
  BY DEF Lessons!At, Assigning, Lessons!Issuing, Lessons!Mailing
<1>5. Lessons!Cardinality({}) = 0 /\ Lessons!Cardinality(Callers) \in Nat \ {0}
  BY CountsAlike, FS_EmptySet, CallsCounted
<1>6. TokensRemain /\ Lessons!AttemptsCapped
  <2>1. lessons_minted = 0 /\ lessons_attempts = 0 /\ MaxTokens \in Nat
    OBVIOUS
  <2>2. Lessons!Cardinality(Lessons!At("attempt")) = 0 /\ Lessons!Cardinality(Assigning) = 0
    BY ONLY <1>4, <1>5, Zenon
  <2> QED BY ONLY <1>5, <2>1, <2>2 DEF TokensRemain, Lessons!AttemptsCapped
<1>7. Lessons!CertificatesEarned /\ Lessons!LettersCovered
  <2>1. \A x \in Lessons!Sources :
          lessons_certificates[x] = 0 /\ lessons_letters[x] = 0 /\ lessons_passed[x] = 0
    OBVIOUS
  <2>2. \A x \in Lessons!Sources :
          Lessons!Cardinality(Lessons!Issuing(x)) = 0 /\ Lessons!Cardinality(Lessons!Mailing(x)) = 0
    BY ONLY <1>4, <1>5, Zenon
  <2> QED BY ONLY <2>1, <2>2 DEF Lessons!CertificatesEarned, Lessons!LettersCovered
<1>8. Lessons!PassHonoured
  BY DEF Lessons!PassHonoured
<1> QED BY <1>1, <1>2, <1>3, <1>6, <1>7, <1>8 DEF LessonsIInv

\* Every step keeps what lessons need.
LEMMA LessonsIInvNext ==
  ASSUME Lessons!LearningAssumption, LessonsIInv, [Lessons!Next]_(Lessons!vars)
  PROVE  LessonsIInv'
<1>1. Lessons!TypeOK'
  BY LessonsTypes DEF LessonsIInv
<1> QED BY <1>1, LocatedStays, TokensStay, TokensLeft, AttemptsStay, PapersStay, PassStays
    DEF LessonsIInv

\* All but one of a row's tokens are those of calls that overlapped, so a link that is dead is one
\* of theirs.
LEMMA LessonsIInvGives ==
  ASSUME Lessons!LearningAssumption, LessonsIInv
  PROVE  Lessons!LearningInv
<1>1. ASSUME NEW r \in Lessons!Rows
      PROVE Lessons!Cardinality(Lessons!DeadLinks(r)) <= Lessons!Cardinality(Callers) - 1
  <2> DEFINE Dead == {t \in Linked(r) : <<r, t>> \in lessons_mailed /\ lessons_token[r] # t}
             f == [link \in Lessons!DeadLinks(r) |-> link[2]]
  <2>0. Lessons!Cardinality(Callers) \in Nat \ {0} /\ Linked(r) \in SUBSET (1 .. MaxTokens) /\
          Lessons!IsFiniteSet(1 .. MaxTokens)
    BY CountsAlike, CallsCounted, FS_Interval, SMTT(30) DEF Linked, Lessons!LearningAssumption
  <2>1. Lessons!IsFiniteSet(Linked(r)) /\ Lessons!Cardinality(Linked(r)) \in Nat /\
          Lessons!IsFiniteSet(Dead)
        /\ Lessons!Cardinality(Dead) \in Nat
    BY CountsAlike, <2>0, FS_Subset, FS_CardinalityType
  <2>2. \A link \in Lessons!DeadLinks(r) : link = <<r, link[2]>> /\ link[2] \in Dead
    BY DEF LessonsIInv, Lessons!TypeOK, Lessons!DeadLinks, Linked
  <2>3. f \in Injection(Lessons!DeadLinks(r), Dead)
    <3>1. f \in [Lessons!DeadLinks(r) -> Dead]
      BY <2>2
    <3>2. \A a, b \in Lessons!DeadLinks(r) : f[a] = f[b] => a = b
      BY <2>2
    <3> QED BY ONLY <3>1, <3>2 DEF Injection, IsInjective
  <2>4. Lessons!Cardinality(Lessons!DeadLinks(r)) <= Lessons!Cardinality(Dead) /\
          Lessons!Cardinality(Lessons!DeadLinks(r)) \in Nat
    BY ONLY CountsAlike, <2>1, <2>3, FS_Injection, FS_CardinalityType
  <2>5. CASE lessons_token[r] = 0
    <3>1. Dead = {}
      BY <2>5 DEF LessonsIInv, TokensExplained
    <3>2. Lessons!Cardinality(Dead) = 0
      BY ONLY CountsAlike, <3>1, FS_EmptySet
    <3> QED BY ONLY <2>0, <2>4, <3>2
  <2>6. CASE lessons_token[r] # 0
    <3>1. lessons_token[r] \in Linked(r)
      BY <2>6 DEF LessonsIInv, Lessons!TypeOK, Linked, Lessons!LearningAssumption
    <3>2. Lessons!IsFiniteSet(Linked(r) \ {lessons_token[r]}) /\
            Lessons!Cardinality(Linked(r) \ {lessons_token[r]}) = Lessons!Cardinality(Linked(r)) - 1
      BY CountsAlike, <3>1, <2>1, FS_RemoveElement
    <3>3. Lessons!Cardinality(Dead) <= Lessons!Cardinality(Linked(r)) - 1
      <4>1. Dead \subseteq Linked(r) \ {lessons_token[r]}
        OBVIOUS
      <4> QED BY ONLY <4>1, <3>2, SubsetsCount
    <3>4. Lessons!Cardinality(Renewing(r)) \in Nat /\
            Lessons!Cardinality(Linked(r)) + Lessons!Cardinality(Renewing(r)) <=
              Lessons!Cardinality(Callers)
      BY <2>6, CallsCounted DEF LessonsIInv, TokensExplained, Renewing
    <3> QED BY ONLY <2>0, <2>1, <2>4, <3>3, <3>4
  <2> QED BY <2>5, <2>6
<1> QED BY <1>1 DEF LessonsIInv, Lessons!LearningInv, Lessons!LinksResolve

\* Once a pass is settled no attempt is under way, and none is begun.
LEMMA PassFinal ==
  ASSUME Lessons!LearningAssumption, LessonsIInv, Lessons!Next
  PROVE  Lessons!PassIsFinal
<1> SUFFICES ASSUME Lessons!AlreadyPassed, Lessons!At("attempt") = {}
             PROVE  Lessons!PassSettled' /\ lessons_attempts' = lessons_attempts
  BY DEF Lessons!PassIsFinal, Lessons!PassSettled
<1> USE DEF Lessons!Goto, Lessons!Finish, Lessons!PassSettled, Lessons!AlreadyPassed, Lessons!At
<1>0. Lessons!TypeOK
  BY DEF LessonsIInv
<1>1. ASSUME NEW c \in Callers, Lessons!Call(c) \/ Lessons!CallDies(c) PROVE Lessons!PassSettled' /\
               lessons_attempts' = lessons_attempts
  <2>1. ~Lessons!Attempt(c)
    BY <1>1 DEF Lessons!Attempt
  <2>2. lessons_passed' = lessons_passed /\ lessons_attempts' = lessons_attempts
    BY <1>1, <2>1 DEF Lessons!Call, Lessons!Quiz, Lessons!Assign, Lessons!QuizStart,
       Lessons!QuizRead, Lessons!Prior, Lessons!Complete, Lessons!CertRead, Lessons!CertCreate,
       Lessons!Letter, 
              Lessons!AssignStart, Lessons!AssignFind, Lessons!AssignToken, Lessons!AssignCreate,
                Lessons!Invite, Lessons!QuestionsDelete,
              Lessons!QuestionsCreate, Lessons!CallDies, Lessons!quizVars
  <2>3. lessons_pc'[c] # "attempt"
    BY <1>0, <1>1, <2>1 DEF Lessons!TypeOK, Lessons!Call, Lessons!Quiz, Lessons!Assign,
       Lessons!QuizStart, Lessons!QuizRead, Lessons!Prior, Lessons!Complete, Lessons!CertRead, 
              Lessons!CertCreate, Lessons!Letter, Lessons!AssignStart, Lessons!AssignFind,
                Lessons!AssignToken, Lessons!AssignCreate, Lessons!Invite,
              Lessons!QuestionsDelete, Lessons!QuestionsCreate, Lessons!CallDies
  <2>4. \A d \in Callers : lessons_pc'[d] # "attempt"
    BY <1>0, <1>1, <2>3, CallsSpare DEF Spares
  <2> QED BY <2>2, <2>4 DEF Lessons!Sources
<1>2. ASSUME (\E s \in Sends : Lessons!Routed(s)) \/
               (\E link \in lessons_mailed : Lessons!Watched(link))
      PROVE  Lessons!PassSettled' /\ lessons_attempts' = lessons_attempts
  BY <1>2 DEF Lessons!Routed, Lessons!Watched, Lessons!quizVars, Lessons!callVars, Lessons!Sources
<1> QED BY <1>1, <1>2 DEF Lessons!Next

\* What the calls of a lesson hold and have counted, and the links and tokens that are left.
THEOREM LessonsInductive == RequestsSpec => [](focus = "lessons" => LessonsIInv)
<1> DEFINE I == focus = "lessons" => LessonsIInv
<1>1. RequestsInit => I
  BY RequestsAssumption, Begun, LessonsIInvInit DEF RequestsAssumption
<1>2. I /\ [RequestsNext]_allVars => I'
  BY RequestsAssumption, Focused, LessonsIInvNext DEF RequestsAssumption
<1> QED BY <1>1, <1>2, PTL DEF RequestsSpec

\* What a contract of links keeps by itself: tokens are told apart by their numbers.
Kept ==
  /\ lessons_minted \in Nat
  /\ lessons_token \in [Lessons!Rows -> 0 .. lessons_minted]
  /\ lessons_mailed \subseteq Lessons!Rows \X (1 .. lessons_minted)
  /\ Links!OpensOwnOnly

\* No step of the contract lets a mail open what is another's.
LEMMA ContractKeeps ==
  ASSUME Kept, [Links!Next]_(Links!vars)
  PROVE  Kept'
<1> USE DEF Kept, Links!OpensOwnOnly
<1>1. CASE UNCHANGED Links!vars
  BY <1>1 DEF Links!vars
<1>2. ASSUME NEW o \in Lessons!Rows, Links!Mint(o) PROVE Kept'
  BY <1>2 DEF Links!Mint
<1>3. ASSUME NEW o \in Lessons!Rows, NEW t \in 1 .. lessons_minted, Links!Mail(o, t) PROVE Kept'
  BY <1>3 DEF Links!Mail
<1>4. ASSUME NEW S \in SUBSET Lessons!Rows, Links!Revoke(S) PROVE Kept'
  BY <1>4 DEF Links!Revoke
<1> QED BY <1>1, <1>2, <1>3, <1>4 DEF Links!Next

\* A call about to mail a token took it from its row, or minted it for its row; and by then it is
\* no other row's.
InHand ==
  \A c \in Callers : lessons_pc[c] = "invite" =>
    /\ lessons_held[c] \in 1 .. lessons_minted
    /\ \A r \in Lessons!Rows : lessons_token[r] = lessons_held[c] => r = lessons_row[c]

\* What calls have in hand stays theirs.
LEMMA InHandStays ==
  ASSUME LessonsIInv, Kept, InHand, [Lessons!Next]_(Lessons!vars)
  PROVE  InHand'
<1> USE DEF LessonsIInv, Lessons!TypeOK, Lessons!rowVars, Lessons!linkVars
<1> DEFINE Mints(c) ==
             \E r \in Lessons!Rows :
               /\ lessons_minted' = lessons_minted + 1
               /\ lessons_token' = [lessons_token EXCEPT ![r] = lessons_minted + 1]
               /\ lessons_held'[c] = lessons_minted + 1 /\ lessons_row'[c] = r
<1>1. ASSUME NEW c \in Callers, Spares(c), UNCHANGED <<lessons_token, lessons_minted>>,
             lessons_pc'[c] # "invite"
      PROVE  InHand'
  BY <1>1 DEF InHand, Spares
<1>2. ASSUME NEW c \in Callers, Spares(c), Mints(c) PROVE InHand'
  BY <1>2 DEF InHand, Spares, Kept
<1>3. ASSUME UNCHANGED <<Lessons!callVars, lessons_token, lessons_minted>> PROVE InHand'
  BY <1>3 DEF InHand, Lessons!callVars
<1>4. ASSUME NEW c \in Callers, Lessons!Assign(c) PROVE InHand'
  <2>0. Spares(c)
    BY <1>4, CallsSpare DEF Lessons!Call
  <2>1. CASE Lessons!AssignToken(c)
    <3>1. lessons_row[c] \in Lessons!Rows
      BY <2>1 DEF Lessons!AssignToken, LessonsLocated
    <3>2. Mints(c)
      BY <2>1, <3>1 DEF Lessons!AssignToken, Lessons!NewToken
    <3> QED BY <1>2, <2>0, <3>2
  <2>2. CASE Lessons!AssignCreate(c)
    <3>1. Mints(c)
      BY <2>2 DEF Lessons!AssignCreate, Lessons!NewToken, Lessons!Rows
    <3> QED BY <1>2, <2>0, <3>1
  <2>3. CASE Lessons!AssignFind(c)
    <3>1. CASE lessons_pc'[c] = "invite"
      <4>1. PICK r \in Lessons!Rows : /\ lessons_row'[c] = r /\ lessons_held'[c] = lessons_token[r]
                                     /\ lessons_token[r] # 0
        BY <2>3, <3>1 DEF Lessons!AssignFind, Lessons!Goto
      <4>2. UNCHANGED <<lessons_token, lessons_minted>>
        BY <2>3 DEF Lessons!AssignFind
      <4>3. lessons_held'[c] \in 1 .. lessons_minted /\
              \A q \in Lessons!Rows : lessons_token[q] = lessons_held'[c] => q = r
        BY <4>1 DEF Kept, Links!OpensOwnOnly
      <4> QED BY <2>0, <4>1, <4>2, <4>3 DEF InHand, Spares
    <3>2. CASE lessons_pc'[c] # "invite"
      BY <1>1, <2>0, <2>3, <3>2 DEF Lessons!AssignFind
    <3> QED BY <3>1, <3>2
  <2>4. CASE Lessons!AssignStart(c) \/ Lessons!Invite(c)
    <3>1. lessons_pc'[c] # "invite" /\ UNCHANGED <<lessons_token, lessons_minted>>
      BY <2>4 DEF Lessons!AssignStart, Lessons!Invite, Lessons!Goto, Lessons!Finish
    <3> QED BY <1>1, <2>0, <3>1
  <2> QED BY <1>4, <2>1, <2>2, <2>3, <2>4 DEF Lessons!Assign
<1>5. ASSUME NEW c \in Callers,
             \/ Lessons!Quiz(c) \/ Lessons!QuestionsDelete(c) \/ Lessons!QuestionsCreate(c)
             \/ Lessons!CallDies(c)
      PROVE  InHand'
  <2>0. Spares(c)
    BY <1>5, CallsSpare DEF Lessons!Call
  <2>1. lessons_pc'[c] # "invite" /\ UNCHANGED <<lessons_token, lessons_minted>>
    BY <1>5 DEF Lessons!Quiz, Lessons!QuizStart, Lessons!QuizRead, Lessons!Prior, Lessons!Attempt,
       Lessons!Complete, Lessons!CertRead, Lessons!CertCreate, Lessons!Letter,
       Lessons!QuestionsDelete, Lessons!QuestionsCreate, Lessons!CallDies, Lessons!Goto,
       Lessons!Finish
  <2> QED BY <1>1, <2>0, <2>1
<1>6. ASSUME \/ \E s \in Sends : Lessons!Routed(s)
             \/ \E link \in lessons_mailed : Lessons!Watched(link)
             \/ UNCHANGED Lessons!vars
      PROVE  InHand'
  <2>1. UNCHANGED <<Lessons!callVars, lessons_token, lessons_minted>>
    BY <1>6 DEF Lessons!Routed, Lessons!Watched, Lessons!vars, Lessons!callVars
  <2> QED BY <1>3, <2>1
<1> QED BY <1>4, <1>5, <1>6 DEF Lessons!Next, Lessons!Call

\* To mint and to mail a token is all that lessons do to links.
LEMMA LessonLinksNext ==
  ASSUME LessonsIInv, InHand, [Lessons!Next]_(Lessons!vars)
  PROVE  [Links!Next]_(Links!vars)
<1> USE DEF Links!vars, LessonsIInv, Lessons!rowVars, Lessons!linkVars
<1>1. ASSUME NEW c \in Callers, Lessons!AssignToken(c) PROVE [Links!Next]_(Links!vars)
  <2>1. lessons_row[c] \in Lessons!Rows
    BY <1>1 DEF Lessons!AssignToken, LessonsLocated, Lessons!TypeOK
  <2>2. Links!Mint(lessons_row[c])
    BY <1>1 DEF Lessons!AssignToken, Lessons!NewToken, Links!Mint
  <2> QED BY <2>1, <2>2 DEF Links!Next
<1>2. ASSUME NEW c \in Callers, Lessons!AssignCreate(c) PROVE [Links!Next]_(Links!vars)
  <2>1. PICK r \in Extras : Links!Mint(r)
    BY <1>2 DEF Lessons!AssignCreate, Lessons!NewToken, Links!Mint
  <2> QED BY <2>1 DEF Links!Next, Lessons!Rows
<1>3. ASSUME NEW c \in Callers, Lessons!Invite(c) PROVE [Links!Next]_(Links!vars)
  <2>1. /\ lessons_pc[c] = "invite" /\ UNCHANGED <<lessons_token, lessons_minted>>
        /\ \/ lessons_mailed' = lessons_mailed \cup {<<lessons_row[c], lessons_held[c]>>}
           \/ lessons_mailed' = lessons_mailed
    BY <1>3 DEF Lessons!Invite
  <2>2. /\ lessons_row[c] \in Lessons!Rows /\ lessons_held[c] \in 1 .. lessons_minted
        /\ \A r \in Lessons!Rows \ {lessons_row[c]} : lessons_token[r] # lessons_held[c]
    BY <2>1 DEF LessonsLocated, Lessons!TypeOK, InHand
  <2> QED BY <2>1, <2>2 DEF Links!Next, Links!Mail
<1>4. ASSUME NEW c \in Callers,
             \/ Lessons!Quiz(c) \/ Lessons!AssignStart(c) \/ Lessons!AssignFind(c)
             \/ Lessons!QuestionsDelete(c) \/ Lessons!QuestionsCreate(c) \/ Lessons!CallDies(c)
      PROVE  UNCHANGED Links!vars
  BY <1>4 DEF Lessons!Quiz, Lessons!QuizStart, Lessons!QuizRead, Lessons!Prior, Lessons!Attempt,
     Lessons!Complete, Lessons!CertRead, Lessons!CertCreate, Lessons!Letter,
     Lessons!AssignStart, Lessons!AssignFind,
     Lessons!QuestionsDelete, Lessons!QuestionsCreate, Lessons!CallDies
<1>5. ASSUME \/ \E s \in Sends : Lessons!Routed(s)
             \/ \E link \in lessons_mailed : Lessons!Watched(link)
             \/ UNCHANGED Lessons!vars
      PROVE  UNCHANGED Links!vars
  BY <1>5 DEF Lessons!Routed, Lessons!Watched, Lessons!vars
<1> QED BY <1>1, <1>2, <1>3, <1>4, <1>5 DEF Lessons!Next, Lessons!Call, Lessons!Assign

\* In the beginning there is no link, and nothing in hand.
LEMMA NoLinkYet ==
  ASSUME Lessons!Init
  PROVE  Links!Init /\ Kept /\ InHand
<1>1. Links!Init
  BY DEF Lessons!Init, Links!Init
<1>2. InHand
  BY DEF Lessons!Init, InHand
<1> QED BY <1>1, <1>2 DEF Links!Init, Kept, Links!OpensOwnOnly

\* Whose every token is, in the row, in the mail and in a call's hand.
THEOREM LessonLinksInductive == RequestsSpec => [](focus = "lessons" => Kept /\ InHand)
<1> DEFINE K == focus = "lessons" => Kept /\ InHand
<1>1. RequestsInit => K
  BY Begun, NoLinkYet
<1>2. (focus = "lessons" => LessonsIInv) /\ K /\ [RequestsNext]_allVars => K'
  BY Focused, LessonLinksNext, ContractKeeps, InHandStays
<1> QED BY <1>1, <1>2, LessonsInductive, PTL DEF RequestsSpec

\* The links to courses implement the contract of links: a behaviour of lessons is one of
\* LinkContract, where every step mints or mails a link or leaves links alone.
THEOREM LessonsImplementLinks == RequestsSpec => (focus = "lessons" => Links!Spec)
<1>1. RequestsInit => (focus = "lessons" => Links!Init)
  BY Begun, NoLinkYet
<1>2. (focus = "lessons" => LessonsIInv) /\ (focus = "lessons" => Kept /\ InHand) /\
        [RequestsNext]_allVars =>
          /\ focus = "lessons" => (focus = "lessons")'
          /\ focus = "lessons" => [Links!Next]_(Links!vars)
  BY Focused, LessonLinksNext
<1> QED BY <1>1, <1>2, LessonsInductive, LessonLinksInductive, PTL DEF RequestsSpec, Links!Spec

\* Attempts are capped, a pass is honoured, certificates are earned and letters covered, mailed
\* links resolve, but for what overlapping calls explain, and none opens another's course.
THEOREM LessonsKept == RequestsSpec => LessonsHold
<1> DEFINE I == focus = "lessons" => LessonsIInv
           K == focus = "lessons" => Kept /\ InHand
<1>1. RequestsInit => (focus = "lessons" => Links!Init)
  BY Begun, NoLinkYet
<1>2. I /\ K => (focus = "lessons" => Lessons!LearningInv /\ Links!OpensOwnOnly)
  BY RequestsAssumption, LessonsIInvGives DEF RequestsAssumption, Kept
<1>3. I /\ K /\ [RequestsNext]_allVars => [focus = "lessons" => [Links!Next]_(Links!vars)]_allVars
  BY Focused, LessonLinksNext
<1> QED BY <1>1, <1>2, <1>3, LessonsInductive, LessonLinksInductive, PTL
    DEF RequestsSpec, LessonsHold

\* A pass is final: no later attempt, call or link takes it back.
THEOREM PassFinalKept == RequestsSpec => PassIsFinal
<1>1. (focus = "lessons" => LessonsIInv) /\ [RequestsNext]_allVars => [focus = "lessons" =>
        Lessons!PassIsFinal]_allVars
  BY RequestsAssumption, StepsOfOne, PassFinal DEF RequestsAssumption
<1> QED BY <1>1, LessonsInductive, PTL DEF RequestsSpec, PassIsFinal
=============================================================================
