------------------------------ MODULE Screens ------------------------------
(***************************************************************************)
(* One tab of a browser whose tabs share one stored session, on the        *)
(* screens of the web console (Pages).                                     *)
(*                                                                         *)
(* The console decides what to show from the stored session alone; the API *)
(* decides for itself (Endpoints, Access).  A tab goes on showing a screen *)
(* after another tab has signed out, or in as somebody else.               *)
(***************************************************************************)
EXTENDS Pages, Integers

CONSTANTS
  Accounts, \* accounts somebody signs in with there
  None      \* nobody

ScreensAssumption == None \notin Accounts

VARIABLES
  account, \* each account: its role, and whether it is active, must enrol, has enrolled
  policy,  \* the client asks for a second factor, of the accounts that it makes from now on
  stored,  \* the browser's session: the account, and whether its token is good
  tab      \* the tab: its screen, the account it was mounted for (by), whether that one's
           \* session is still stored (own), whether the sign-in sent it to enrol (sent)
           \* or a link of the navigation led there (led),
           \* redirects since then or since the session changed (hops), and the API's last answer

vars == <<account, policy, stored, tab>>

-----------------------------------------------------------------------------
(* State *)

Answers == {"none", "ok", "over", "role", "enrol"}
NoSession == [by |-> None, good |-> FALSE]
MaxHops == 3 \* bound: redirects counted

TypeOK ==
  /\ account \in [Accounts -> [role : Everyone, active : BOOLEAN, required : BOOLEAN,
                               enrolled : BOOLEAN]]
  /\ policy \in BOOLEAN
  /\ stored \in [by : Accounts \cup {None}, good : BOOLEAN]
  /\ tab \in [at : Places, by : Accounts \cup {None}, own : BOOLEAN, sent : BOOLEAN,
              led : BOOLEAN, hops : 0 .. MaxHops, answer : Answers]

Role(a) == account[a].role
Opened(p) == [at |-> p, by |-> None, own |-> FALSE, sent |-> FALSE, led |-> FALSE,
              hops |-> 0, answer |-> "none"]

Init ==
  /\ account \in [Accounts -> [role : Everyone, active : {TRUE}, required : BOOLEAN,
                               enrolled : {FALSE}]]
  /\ policy \in BOOLEAN
  /\ stored = NoSession
  /\ tab = Opened("index")

-----------------------------------------------------------------------------
(* Where the console sends somebody.  A definition with the name of the next
   one and a suffix is that one with a mistake in it, to show which property
   notices. *)

\* A viewer's home is the administrators' screen.
HomeForClients(role) == IF role = "staff" THEN "clientList" ELSE "campaigns"
HomeFor(role) ==
  CASE role = "staff" -> "clientList" [] role = "admin" -> "campaigns" [] role = "viewer" -> "dashboard"

LoginPathFor(role) == IF role = "staff" THEN "staffLogin" ELSE "login"
LoginPathForAllowed(allow) == IF allow = Staff THEN "staffLogin" ELSE "login"

SecurityPath(role) == IF role = "staff" THEN "staffSecurity" ELSE "security"

\* What the sign-in answers: for staff their own flag, for a client's people the policy.
EnrolmentRequired(a) ==
  /\ ~account[a].enrolled
  /\ IF Role(a) = "staff" THEN account[a].required ELSE policy

-----------------------------------------------------------------------------
(* The tab *)

Usable == stored.by # None /\ stored.good
Mounted == tab.by # None
Waiting == tab.at \in DOMAIN Console /\ ~Mounted
Allowed == Console[tab.at].allow

Redirect(p) ==
  tab' = [Opened(p) EXCEPT !.hops = IF tab.hops = MaxHops THEN MaxHops ELSE tab.hops + 1,
                           !.sent = tab.sent, !.led = tab.led]

Leave(p) ==
  /\ stored' = NoSession
  /\ tab' = Opened(p)
  /\ UNCHANGED <<account, policy>>

Visit(p) ==
  /\ tab # Opened(p)
  /\ tab' = Opened(p)
  /\ UNCHANGED <<account, policy, stored>>

\* A link of the navigation; led as long as the session is the one it was made for.
Follow(p) ==
  /\ Mounted /\ p \in NavBar[Role(tab.by)]
  /\ tab' = [Opened(p) EXCEPT !.led = tab.own /\ Usable]
  /\ UNCHANGED <<account, policy, stored>>

Index ==
  /\ tab.at = "index"
  /\ Redirect(IF Usable THEN HomeFor(Role(stored.by)) ELSE "login")
  /\ stored' = IF Usable THEN stored ELSE NoSession
  /\ UNCHANGED <<account, policy>>

\* No session that can be used: cleared, and to the sign-in of the screen's people.
GuardSignsOut ==
  /\ Waiting /\ ~Usable
  /\ stored' = NoSession
  /\ Redirect(LoginPathForAllowed(Allowed))
  /\ UNCHANGED <<account, policy>>

GuardSendsHome ==
  /\ Waiting /\ Usable /\ Role(stored.by) \notin Allowed
  /\ Redirect(HomeFor(Role(stored.by)))
  /\ UNCHANGED <<account, policy, stored>>

GuardLetsIn ==
  /\ Waiting /\ Usable /\ Role(stored.by) \in Allowed
  /\ tab' = [tab EXCEPT !.by = stored.by, !.own = TRUE]
  /\ UNCHANGED <<account, policy, stored>>

\* An account of the other portal is told so, and nothing is stored.
SignIn(a) ==
  /\ tab.at \in DOMAIN Accepts /\ account[a].active
  /\ Role(a) \in Accepts[tab.at]
  /\ stored' = [by |-> a, good |-> TRUE]
  /\ tab' = [Opened(IF EnrolmentRequired(a) THEN SecurityPath(Role(a)) ELSE HomeFor(Role(a)))
               EXCEPT !.sent = EnrolmentRequired(a)]
  /\ UNCHANGED <<account, policy>>

SignOut == Mounted /\ Leave(LoginPathFor(Role(tab.by)))

\* The tab's timer runs to the end of the token that it was mounted with.
Timer == Mounted /\ (tab.own => ~stored.good) /\ Leave(LoginPathForAllowed(Allowed))

\* Somebody looks at the tab again.
Visible == Mounted /\ ~Usable /\ Leave(LoginPathForAllowed(Allowed))

Expire ==
  /\ Usable
  /\ stored' = [stored EXCEPT !.good = FALSE]
  /\ tab' = [tab EXCEPT !.hops = 0, !.led = FALSE]
  /\ UNCHANGED <<account, policy>>

\* Another tab signs in, or out: by its button, its timer or an answer.
StoredElsewhere(session) ==
  /\ stored' = session
  /\ tab' = [tab EXCEPT !.own = FALSE, !.sent = FALSE, !.led = FALSE, !.hops = 0]
  /\ UNCHANGED <<account, policy>>

SignInElsewhere(a) == account[a].active /\ StoredElsewhere([by |-> a, good |-> TRUE])
SignOutElsewhere == stored.by # None /\ StoredElsewhere(NoSession)

-----------------------------------------------------------------------------
(* Requests: what the API makes of them *)

ApiAnswer(n) ==
  LET a == stored.by IN
  IF Route[n].roles = Nobody THEN "ok"
  ELSE IF a = None \/ ~stored.good \/ ~account[a].active THEN "over"
  ELSE IF Role(a) \notin Route[n].roles THEN "role"
  ELSE IF account[a].required /\ ~account[a].enrolled /\ "unenrolled" \notin Route[n].guards
       THEN "enrol"
  ELSE "ok"

\* What the screen calls, when it loads and from its buttons.
Calls == IF Mounted THEN Console[tab.at].calls[Role(tab.by)] ELSE {}
PublicCalls == IF tab.at \in DOMAIN Public THEN Public[tab.at] ELSE {}

\* A session that is over is dropped, and the screen stays.
Call(n) ==
  /\ LET answer == ApiAnswer(n) IN
     /\ tab' = [tab EXCEPT !.answer = answer, !.own = @ /\ answer # "over"]
     /\ stored' = IF answer = "over" THEN NoSession ELSE stored
     /\ account' = IF answer = "ok" /\ n \in {"activateMfa", "disableMfa"}
                   THEN [account EXCEPT ![stored.by].enrolled = (n = "activateMfa")] ELSE account
  /\ UNCHANGED policy

PublicCall(n) ==
  /\ tab' = [tab EXCEPT !.answer = ApiAnswer(n)]
  /\ UNCHANGED <<account, policy, stored>>

\* Accounts are withdrawn and restored, and the policy changes.
SetActive(a, active) ==
  /\ account[a].active # active
  /\ account' = [account EXCEPT ![a].active = active]
  /\ UNCHANGED <<policy, stored, tab>>

SetPolicy(p) == policy # p /\ policy' = p /\ UNCHANGED <<account, stored, tab>>

-----------------------------------------------------------------------------
Next ==
  \/ Index \/ GuardSignsOut \/ GuardSendsHome \/ GuardLetsIn
  \/ SignOut \/ Timer \/ Visible \/ Expire \/ SignOutElsewhere
  \/ \E p \in Places : Visit(p) \/ Follow(p)
  \/ \E a \in Accounts : SignIn(a) \/ SignInElsewhere(a)
  \/ \E n \in Calls : Call(n)
  \/ \E n \in PublicCalls : PublicCall(n)
  \/ \E a \in Accounts, active \in BOOLEAN : SetActive(a, active)
  \/ \E p \in BOOLEAN : SetPolicy(p)

Spec == Init /\ [][Next]_vars

-----------------------------------------------------------------------------
(* Properties *)

\* No screen of an administrator or of staff calls a route that refuses their role:
\* the screens and the controllers agree, unless another account took over the
\* session in another tab.  A screen without sign-in is never asked for one.
EditorsNeverRefused ==
  /\ tab.answer = "role" /\ Mounted => Role(tab.by) = "viewer" \/ ~tab.own
  /\ tab.at \in DOMAIN Public => tab.answer \in {"none", "ok"}

\* Whatever is opened, one redirect at most leads to a screen that stays, as long as
\* the session is not changed meanwhile.
RedirectsSettle == tab.hops <= 1

\* The navigation offers nobody a screen that sends them on.
NavLeadsThere == tab.led => tab.hops = 0

\* Whoever the sign-in sends to enrol comes to rest on a screen where that is done,
\* and the API lets them do it there: administrators and staff.
CanEnrol ==
  \A n \in {"setupMfa", "activateMfa"} : n \in Calls /\ ApiAnswer(n) \in {"ok", "over"}
SentHere == Mounted /\ tab.own /\ tab.sent
EditorsCanEnrol == SentHere /\ Role(tab.by) # "viewer" => CanEnrol

ScreensInv == TypeOK /\ RedirectsSettle /\ NavLeadsThere /\ EditorsCanEnrol

\* The same of everyone: an account that must enrol is sent to the enrolment screen in
\* its own portal (portal-login.tsx:54-57).
EveryoneCanEnrol == SentHere => CanEnrol
=============================================================================
