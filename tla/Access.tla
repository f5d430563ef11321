------------------------------- MODULE Access -------------------------------
(***************************************************************************)
(* A request to the API on its way through the guards: the session's       *)
(* account is looked up, its role and its second factor are checked, the   *)
(* route's own guards read the client, the interceptor opens a tenant's    *)
(* scope, pipes parse the path's ids, and the handler's queries are        *)
(* narrowed to the scope, except for those that step out of it.            *)
(*                                                                         *)
(* Every guard reads the database for itself, so the account or the client *)
(* may change between two of them, and after the last.                     *)
(***************************************************************************)
EXTENDS Endpoints

CONSTANTS
  Tenants,   \* clients
  Accounts,  \* people with an account
  Levels,    \* the levels of access a client may come to
  None       \* nobody, nothing

ASSUME AccessAssumption ==
  /\ "trial" \in Levels
  /\ Levels \subseteq {"full", "trial", "readonly", "suspended", "offboarded"}
  /\ None \notin Tenants \cup Accounts \cup {"entity", "malformed", "mismatch", "key"}
  /\ {"system", "entity", "malformed"} \cap Tenants = {}

VARIABLES
  account, \* its row: role and, unless it is staff's, client; there, active, enrolled
  client,  \* each client's row: signed, and the level of access it comes to
  request, \* the request in progress
  stale,   \* history: what the guards have read changed since
  handled  \* what the last handler did: the clients whose rows it saw, whose rows it
           \* wrote, and whose licence keys it looked up

vars == <<account, client, request, stale, handled>>

Role(a) == account[a].role
Home(a) == account[a].home

System == "system"  \* every client's rows
Entity == "entity"  \* a UUID that is no client's, and the scope it makes
Malformed == "malformed" \* what is no UUID
Names == Tenants \cup {Entity, Malformed, None}
Scopes == Tenants \cup {System, Entity, None}
NoRequest == [step |-> "idle", by |-> None, addressed |-> None, kind |-> None, refused |-> None]
NoHandler == [by |-> None, kind |-> None, scope |-> None, rows |-> {}, made |-> {}, keys |-> {}]
Steps == {"session", "enrolment", "approved", "consent", "writable", "scope", "refused"}
Reasons == {"session", "role", "enrolment", "approved", "consent", "writable", "mismatch",
            "malformed", "reassigned", "key"}

TypeOK ==
  /\ account \in [Accounts -> [role : Everyone, home : Tenants \cup {None}, there : BOOLEAN,
                               active : BOOLEAN, enrolled : BOOLEAN]]
  /\ client \in [Tenants -> [signed : BOOLEAN, level : Levels]]
  /\ \/ request = NoRequest
     \/ request \in [step : Steps, by : Accounts \cup {None}, addressed : Names,
                     kind : Kinds, refused : Reasons \cup {None}]
  /\ stale \in BOOLEAN
  /\ \/ handled = NoHandler
     \/ handled \in [by : Accounts \cup {None}, kind : Kinds, scope : Scopes,
                     rows : SUBSET Tenants, made : SUBSET Tenants, keys : SUBSET Tenants]

Init ==
  /\ account \in [Accounts -> [role : Everyone, home : Tenants \cup {None}, there : {TRUE},
                               active : {TRUE}, enrolled : {FALSE}]]
  /\ \A a \in Accounts : (Home(a) = None) = (Role(a) = "staff")
  /\ client = [t \in Tenants |-> [signed |-> FALSE, level |-> "trial"]]
  /\ request = NoRequest /\ stale = FALSE /\ handled = NoHandler

-----------------------------------------------------------------------------
(* Accounts and clients change *)

SetAccount(a, row) ==
  /\ account[a].there /\ account[a] # row
  /\ account' = [account EXCEPT ![a] = row]
  /\ stale' = (stale \/ (request.by = a /\ request.step # "session"))
  /\ handled' = NoHandler
  /\ UNCHANGED <<client, request>>

Deactivate(a) == SetAccount(a, [account[a] EXCEPT !.active = FALSE])
Reactivate(a) == SetAccount(a, [account[a] EXCEPT !.active = TRUE])
Erase(a) == SetAccount(a, [account[a] EXCEPT !.there = FALSE])
Enrol(a) == SetAccount(a, [account[a] EXCEPT !.enrolled = TRUE])

\* A second factor is reset, or the client starts to require one.
RequireEnrolment(a) == SetAccount(a, [account[a] EXCEPT !.enrolled = FALSE])

SetClient(t, row) ==
  /\ client[t] # row
  /\ client' = [client EXCEPT ![t] = row]
  /\ stale' = (stale \/ request.step \in {"consent", "writable", "scope"})
  /\ handled' = NoHandler
  /\ UNCHANGED <<account, request>>

Sign(t) == SetClient(t, [client[t] EXCEPT !.signed = TRUE])
SetLevel(t, level) == SetClient(t, [client[t] EXCEPT !.level = level])

-----------------------------------------------------------------------------
(* The guards, in their order.  A definition with the name of the next one
   and a suffix is that one with a mistake in it, to show which property
   notices. *)

At(step) == request.step = step

Send(a, k, addressed) ==
  /\ At("idle") /\ handled = NoHandler
  /\ (a = None) = (k.roles = Nobody)
  /\ addressed \in (CASE k.path \in {"tenant", "word"} -> Names \ {None}
                      [] k.path = "other" -> {Entity, Malformed}
                      [] k.path = "none" -> {None})
  /\ request' = [step |-> IF a = None THEN "scope" ELSE "session", by |-> a,
                 addressed |-> addressed, kind |-> k, refused |-> None]
  /\ stale' = FALSE
  /\ UNCHANGED <<account, client, handled>>

Go(step) ==
  /\ request' = [request EXCEPT !.step = step]
  /\ UNCHANGED <<account, client, stale, handled>>

Refuse(reason) ==
  /\ request' = [request EXCEPT !.step = "refused", !.refused = reason]
  /\ UNCHANGED <<account, client, stale, handled>>

Check(step, passes, next, reason) == At(step) /\ (IF passes THEN Go(next) ELSE Refuse(reason))

\* A token is good for its whole session.
SessionTrusted == Check("session", account[request.by].there, "enrolment", "session")

\* The session's token is signed; the account it names is looked up every time.
Session ==
  Check("session", account[request.by].there /\ account[request.by].active, "enrolment", "session")

AllowedRole == Role(request.by) \in request.kind.roles

\* The role is the token's, so the roles guard reads nothing; then enrolment.
Enrolment ==
  /\ At("enrolment")
  /\ LET me == account[request.by] IN
     IF ~AllowedRole THEN Refuse("role")
     ELSE IF "unenrolled" \in request.kind.guards \/ ~me.there \/ me.enrolled
          THEN Go("approved")
          ELSE Refuse("enrolment")

\* The client a guard asks about: the one addressed, for staff, or their own.
GuardedTenant == IF Role(request.by) = "staff" THEN request.addressed ELSE Home(request.by)

\* A client that there is not comes to nothing that a guard asks for.
Known == GuardedTenant \in Tenants

Approved ==
  Check("approved",
        "approved" \in request.kind.guards => Known /\ client[GuardedTenant].level = "full",
        "consent", "approved")

Consent ==
  Check("consent",
        "consent" \in request.kind.guards =>
          Known /\ client[GuardedTenant].signed /\ client[GuardedTenant].level \notin {"suspended", "offboarded"},
        "writable", "consent")

WritableGuard ==
  Check("writable",
        "writable" \in request.kind.guards /\ Role(request.by) # "staff" =>
          client[GuardedTenant].level \in {"full", "trial"},
        "scope", "writable")

-----------------------------------------------------------------------------
(* The scope, and the queries in it *)

\* What is no UUID counts as no name at all.
Named == IF request.addressed = Malformed THEN None ELSE request.addressed

\* A public route finds its own client; staff are scoped to what the path names.
Scope ==
  CASE request.by = None -> None
    [] request.by # None /\ Role(request.by) = "staff" -> IF Named = None THEN System ELSE Named
    [] OTHER -> Home(request.by)

Mismatch ==
  /\ request.by # None /\ Role(request.by) # "staff"
  /\ Named \notin {None, Home(request.by)}

RefuseMismatch == At("scope") /\ Mismatch /\ Refuse("mismatch")

\* The pipes of the path's parameters run in the scope, before the handler.
Parses == request.addressed = Malformed => request.kind.path = "word"

RefuseMalformed == At("scope") /\ ~Mismatch /\ ~Parses /\ Refuse("malformed")

\* A client named in the query takes the place of the scope's.
ScopedWhereReplaced(scope, supplied) ==
  IF supplied # None THEN {supplied} ELSE IF scope = System THEN Tenants ELSE {scope} \cap Tenants

\* The clients whose rows match a query that names one itself, or none.
ScopedWhere(scope, supplied) ==
  {t \in Tenants : (supplied \in {None, t}) /\ (scope \in {System, t})}

\* The client a new row belongs to: the scope's, whatever the query says.
ScopedCreate(scope, supplied) ==
  IF scope = System THEN {supplied} \cap Tenants ELSE {scope} \cap Tenants

\* An update that would give its rows to another client throws; one that names the
\* scope's leaves them where they are.
Reassigns(scope, written) == scope \notin {System, None} /\ written \notin {None, scope}
Moved(scope, written) == IF scope = System THEN {written} \cap Tenants ELSE {}

AtHandler == At("scope") /\ ~Mismatch /\ Parses

\* What the handler does in its request's scope.
Answer(rows, made, keys) ==
  /\ handled' = [by |-> request.by, kind |-> request.kind, scope |-> Scope,
                 rows |-> rows, made |-> made, keys |-> keys]
  /\ UNCHANGED <<account, client, stale>>

\* A query that the scope narrows: it reads or deletes, creates a row, or updates.
\* Outside any scope it throws.
Handle(supplied) ==
  /\ AtHandler
  /\ \/ Answer(ScopedWhere(Scope, supplied), {}, {}) /\ request' = NoRequest
     \/ Answer({}, ScopedCreate(Scope, supplied), {}) /\ request' = NoRequest
     \/ \E written \in Tenants \cup {None} :
          IF Reassigns(Scope, written)
          THEN Refuse("reassigned")
          ELSE /\ Answer(ScopedWhere(Scope, supplied), Moved(Scope, written), {})
               /\ request' = NoRequest

\* The clients of a query on a table that has no scope, or that the handler runs as the
\* system: the one in the path, if a pipe parsed it; all of them, on the staff's own
\* routes; else the scope's.
Outside ==
  CASE request.kind.path = "tenant" -> {request.addressed} \cap Tenants
    [] request.kind.path \in {"none", "other"} /\ Role(request.by) = "staff" -> Tenants
    [] OTHER -> {Scope} \cap Tenants

HandleOutside ==
  /\ AtHandler /\ request.by # None
  /\ Answer(Outside, Outside, {})
  /\ request' = NoRequest

\* A licence key is looked up among those of all clients; one that was issued to
\* another than the path's is refused.
Redeem(owner) ==
  /\ AtHandler /\ request.kind.does = "redeem"
  /\ \/ /\ owner = request.addressed
        /\ Answer({owner}, {owner}, {owner})
        /\ request' = NoRequest
     \/ /\ owner # request.addressed
        /\ Answer({}, {}, {owner})
        /\ request' = [request EXCEPT !.step = "refused", !.refused = "key"]

\* The answer or the refusal goes out.
Return ==
  /\ At("refused") \/ handled # NoHandler
  /\ request' = NoRequest /\ handled' = NoHandler
  /\ UNCHANGED <<account, client, stale>>

-----------------------------------------------------------------------------
Next ==
  \/ \E a \in Accounts : \/ Deactivate(a) \/ Reactivate(a) \/ Erase(a)
                         \/ Enrol(a) \/ RequireEnrolment(a)
  \/ \E t \in Tenants : Sign(t) \/ \E level \in Levels : SetLevel(t, level)
  \/ \E a \in Accounts \cup {None}, k \in Kinds, addressed \in Names : Send(a, k, addressed)
  \/ Session \/ Enrolment \/ Approved \/ Consent \/ WritableGuard
  \/ RefuseMismatch \/ RefuseMalformed
  \/ \E supplied \in Tenants \cup {None} : Handle(supplied)
  \/ HandleOutside
  \/ \E owner \in Tenants : Redeem(owner)
  \/ Return

Spec == Init /\ [][Next]_vars

-----------------------------------------------------------------------------
(* Properties *)

By(a) == handled.by = a /\ a # None
Does == handled.kind.does
IsClient(a) == Role(a) # "staff"

\* A handler runs for an account only as long as it is there and active, unless it
\* was withdrawn after this request's session check: an old token does not help.
WithdrawnStopped ==
  \A a \in Accounts : By(a) /\ ~stale => account[a].there /\ account[a].active

\* Someone who has yet to set up a second factor can do nothing but that.
UnenrolledOnlyEnrols ==
  \A a \in Accounts : By(a) /\ ~stale /\ ~account[a].enrolled =>
    Does \in {"own", "read"} /\ "unenrolled" \in handled.kind.guards

\* Of all routes of all controllers, a viewer gets to none that changes anything but
\* the own account, and only staff get to those that govern clients and libraries.
RolesHold ==
  \A a \in Accounts : By(a) =>
    /\ (Role(a) = "viewer") => Does \in {"read", "own"}
    /\ (Does = "govern") => Role(a) = "staff"

\* No campaign is made or started for a client without agreement or full access, by
\* its own people or by staff, unless it lost one after the guards had asked.
SendsAreCleared ==
  \A a \in Accounts : By(a) /\ ~stale /\ Does = "send" =>
    \A t \in Tenants : t = handled.scope => client[t].signed /\ client[t].level = "full"

\* Whatever client a query names, in the scope or as the system, a request of a
\* client's account reads, changes and makes rows of that client alone.  Of another's
\* it finds at most a licence key, and is then refused.
OwnRowsOnly ==
  \A a \in Accounts : By(a) /\ IsClient(a) =>
    /\ handled.rows \cup handled.made \subseteq {Home(a)}
    /\ handled.keys \subseteq {Home(a)} \/ request.refused = "key"

\* Staff work on the client that the path names.  Where no pipe parses it, a path that
\* names none with a UUID runs over all clients, which is wider than the interceptor's
\* comment has it (only "the genuinely cross-tenant console routes"); it never sends.
StaffAreScoped ==
  \A a \in Accounts : By(a) /\ ~IsClient(a) /\ handled.kind.path \in {"tenant", "word"} =>
    \/ /\ handled.scope \in Tenants \cup {Entity}
       /\ handled.rows \cup handled.made \subseteq {handled.scope}
    \/ handled.scope = System /\ handled.kind.path = "word" /\ Does # "send"

\* A client's account is refused as a stranger only for addressing another client,
\* or for opening one quiz of the shared library: the interceptor takes any :id for
\* a client's.
StrangersOnly ==
  request.refused = "mismatch" =>
    \/ /\ request.kind.path \in {"tenant", "word"}
       /\ request.addressed \in (Tenants \cup {Entity}) \ {Home(request.by)}
    \/ \E r \in SharedQuizRoutes : r.name = "sharedQuiz" /\ Kind(r) = request.kind

\* The guards let a request through to its handler only for an active account that
\* has enrolled, for the roles of the route, and for clients that may send.
HandledIsAllowed == WithdrawnStopped /\ UnenrolledOnlyEnrols /\ RolesHold /\ SendsAreCleared

\* Clients keep to their own rows, staff to the client they name with a UUID, and
\* nobody is refused for addressing their own client.
ScopesHold == TypeOK /\ OwnRowsOnly /\ StaffAreScoped /\ StrangersOnly
=============================================================================
