------------------------------- MODULE Portal -------------------------------
(* The employees' dashboard (portal.service.ts): the people of one address,  *)
(* who may be an employee of several clients, one course and its quiz for    *)
(* each.                                                                     *)
(*                                                                           *)
(* Whoever asks for a link gives every employee row of the address a new     *)
(* token, which ends the last one, and mails it, client by client.  An open  *)
(* link reads the courses and the certificates at once, and the attempts     *)
(* afterwards, while the quizzes go on.                                      *)
EXTENDS Integers, FiniteSets

CONSTANTS
  People,    \* employee rows of the address, one for each client
  Calls,     \* requests for a link, and dashboards, at once
  MaxTokens, \* bound: tokens minted
  MaxFaults, \* bound: mails refused, calls that die
  None       \* nobody, nothing

Courses == {"open", "quiz", "watched"}

PortalAssumption ==
  /\ IsFiniteSet(People) /\ IsFiniteSet(Calls)
  /\ MaxTokens \in Nat /\ MaxFaults \in Nat
  /\ None \notin People /\ None \notin Courses /\ None \notin BOOLEAN

VARIABLES
  listed,  \* rows there are
  token,   \* of each row, 0 when it has none
  minted,  \* tokens so far
  lapsed,  \* the last token whose thirty days are over
  inbox,   \* links that were delivered: row and token
  course,  \* of each row: open, or not assigned yet; completed by its quiz; watched
  passed,  \* rows with an attempt on record that passed
  certificate, \* rows with a certificate
  pc, at, list, held, page, \* calls: next step, row, rows to serve, token, what was read
  faults,
  lost,    \* history: tokens that were not delivered
  skipped, \* history: rows that a call, still running, did not come to
  gone     \* history: calls whose row was deleted, or was not there any more

linkVars == <<listed, token, minted, lapsed, inbox>>
courseVars == <<course, passed, certificate>>
callVars == <<pc, at, list, held, page>>
history == <<lost, skipped, gone>>
vars == <<linkVars, courseVars, callVars, faults, history>>

Blank == [course |-> None, certified |-> None, best |-> None]

TypeOK ==
  /\ listed \subseteq People
  /\ token \in [People -> 0 .. MaxTokens]
  /\ minted \in 0 .. MaxTokens /\ lapsed \in 0 .. minted
  /\ inbox \subseteq People \X (1 .. MaxTokens)
  /\ course \in [People -> Courses]
  /\ passed \subseteq People /\ certificate \subseteq People
  /\ pc \in [Calls -> {"idle", "issue", "mail", "rows", "attempts", "shown"}]
  /\ at \in [Calls -> People \cup {None}]
  /\ list \in [Calls -> SUBSET People]
  /\ held \in [Calls -> 0 .. MaxTokens]
  /\ page \in [Calls -> [course : Courses \cup {None}, certified : BOOLEAN \cup {None},
                         best : BOOLEAN \cup {None}]]
  /\ faults \in 0 .. MaxFaults
  /\ lost \subseteq 1 .. MaxTokens /\ skipped \subseteq Calls /\ gone \subseteq Calls

Init ==
  /\ listed = People /\ token = [e \in People |-> 0]
  /\ minted = 0 /\ lapsed = 0 /\ inbox = {}
  /\ course = [e \in People |-> "open"] /\ passed = {} /\ certificate = {}
  /\ pc = [c \in Calls |-> "idle"] /\ at = [c \in Calls |-> None]
  /\ list = [c \in Calls |-> {}] /\ held = [c \in Calls |-> 0]
  /\ page = [c \in Calls |-> Blank]
  /\ faults = 0 /\ lost = {} /\ skipped = {} /\ gone = {}

-----------------------------------------------------------------------------
(* A definition named like the next one with a suffix is that definition with
   one mistake in it, to show which property notices. *)

Fails == faults < MaxFaults /\ faults' = faults + 1

Goes(c, step, e, rest, t) ==
  /\ pc' = [pc EXCEPT ![c] = step]
  /\ at' = [at EXCEPT ![c] = e]
  /\ list' = [list EXCEPT ![c] = rest]
  /\ held' = [held EXCEPT ![c] = t]
  /\ UNCHANGED page

Returns(c) ==
  /\ Goes(c, "idle", None, {}, 0)
  /\ skipped' = IF list[c] = {} THEN skipped ELSE skipped \cup {c}

RequestLink(c) ==
  /\ pc[c] = "idle" /\ listed # {}
  /\ minted + Cardinality(listed) * Cardinality({d \in Calls : pc[d] \in {"issue", "mail"}} \cup {c})
       <= MaxTokens
  /\ pc' = [pc EXCEPT ![c] = "issue"]
  /\ list' = [list EXCEPT ![c] = listed]
  /\ skipped' = skipped \ {c} /\ gone' = gone \ {c}
  /\ UNCHANGED <<linkVars, courseVars, at, held, page, faults, lost>>

\* The update of a row that is gone throws, and the request ends.
IssueToken(c) ==
  /\ pc[c] = "issue"
  /\ \E e \in list[c] :
       IF e \in listed
         THEN /\ minted' = minted + 1
              /\ token' = [token EXCEPT ![e] = minted']
              /\ Goes(c, "mail", e, list[c] \ {e}, minted')
              /\ UNCHANGED <<skipped, gone>>
         ELSE /\ Returns(c) /\ gone' = gone \cup {c}
              /\ UNCHANGED <<minted, token>>
  /\ UNCHANGED <<listed, lapsed, inbox, courseVars, faults, lost>>

Served(c) == IF list[c] = {} THEN Returns(c) ELSE Goes(c, "issue", None, list[c], 0) /\ UNCHANGED skipped

MailThen(c, refused) ==
  /\ pc[c] = "mail"
  /\ \/ /\ inbox' = inbox \cup {<<at[c], held[c]>>} /\ Served(c)
        /\ UNCHANGED <<lost, faults>>
     \/ /\ Fails /\ lost' = lost \cup {held[c]} /\ refused
        /\ UNCHANGED inbox
  /\ UNCHANGED <<listed, token, minted, lapsed, courseVars, gone>>
MailThrows(c) == MailThen(c, Returns(c))

\* A mail that is refused is logged, and the next client served.
Mail(c) == MailThen(c, Served(c))

CallDies(c) ==
  /\ pc[c] \in {"issue", "mail"} /\ Fails
  /\ Goes(c, "idle", None, {}, 0)
  /\ lost' = lost \cup ({held[c]} \ {0})
  /\ UNCHANGED <<linkVars, courseVars, skipped, gone>>

-----------------------------------------------------------------------------
(* The dashboard *)

ResolveToken(c) ==
  /\ pc[c] = "idle"
  /\ \E link \in inbox :
       /\ link[1] \in listed /\ token[link[1]] = link[2] /\ link[2] > lapsed
       /\ Goes(c, "rows", link[1], {}, 0)
  /\ gone' = gone \ {c} /\ skipped' = skipped \ {c}
  /\ UNCHANGED <<linkVars, courseVars, faults, lost>>

\* The rows of an employee who was deleted are gone, too.
Found(c) == c \notin gone

\* Courses and certificates are asked for together, and answered in any order.
ReadRows(c) ==
  /\ pc[c] = "rows"
  /\ \/ /\ page[c].course = None
        /\ page' = [page EXCEPT ![c].course = IF Found(c) THEN course[at[c]] ELSE "open"]
     \/ /\ page[c].certified = None
        /\ page' = [page EXCEPT ![c].certified = Found(c) /\ at[c] \in certificate]
  /\ pc' = IF page'[c].course # None /\ page'[c].certified # None
           THEN [pc EXCEPT ![c] = "attempts"] ELSE pc
  /\ UNCHANGED <<linkVars, courseVars, at, list, held, faults, history>>

ReadAttempts(c) ==
  /\ pc[c] = "attempts"
  /\ page' = [page EXCEPT ![c].best = Found(c) /\ at[c] \in passed]
  /\ pc' = [pc EXCEPT ![c] = "shown"]
  /\ UNCHANGED <<linkVars, courseVars, at, list, held, faults, history>>

Close(c) ==
  /\ pc[c] = "shown"
  /\ pc' = [pc EXCEPT ![c] = "idle"] /\ at' = [at EXCEPT ![c] = None]
  /\ page' = [page EXCEPT ![c] = Blank]
  /\ UNCHANGED <<linkVars, courseVars, list, held, faults, history>>

-----------------------------------------------------------------------------
(* What goes on meanwhile: courses (Learning), the roster, the days *)

\* A pass is recorded, then completes the course, then is certified; the quiz of a
\* simulation is also there for whom no course was assigned.
Study(e) ==
  /\ e \in listed
  /\ \/ /\ course[e] = "open"
        /\ \E by \in {"watched"} \cup (IF e \in passed THEN {"quiz"} ELSE {}) :
             course' = [course EXCEPT ![e] = by]
        /\ UNCHANGED <<passed, certificate>>
     \/ passed' = passed \cup {e} /\ UNCHANGED <<course, certificate>>
     \/ /\ e \in passed /\ certificate' = certificate \cup {e}
        /\ UNCHANGED <<course, passed>>
  /\ UNCHANGED <<linkVars, callVars, faults, history>>

Remove(e) ==
  /\ e \in listed /\ listed' = listed \ {e}
  /\ token' = [token EXCEPT ![e] = 0]
  /\ course' = [course EXCEPT ![e] = "open"]
  /\ passed' = passed \ {e} /\ certificate' = certificate \ {e}
  /\ gone' = gone \cup {c \in Calls : e \in {at[c]} \cup list[c]}
  /\ UNCHANGED <<minted, lapsed, inbox, callVars, faults, lost, skipped>>

Lapse ==
  /\ lapsed < minted /\ lapsed' = lapsed + 1
  /\ UNCHANGED <<listed, token, minted, inbox, courseVars, callVars, faults, history>>

Next ==
  \/ \E c \in Calls :
       \/ RequestLink(c) \/ IssueToken(c) \/ Mail(c) \/ CallDies(c)
       \/ ResolveToken(c) \/ ReadRows(c) \/ ReadAttempts(c) \/ Close(c)
  \/ \E e \in People : Study(e) \/ Remove(e)
  \/ Lapse

Spec == Init /\ [][Next]_vars

-----------------------------------------------------------------------------
(* Properties *)

\* However requests for one address overlap, the token that a row ends up with is
\* one that its owner was mailed, unless that very mail was refused, never sent, or
\* is about to be.
LinksDelivered ==
  \A e \in listed : token[e] # 0 =>
    \/ <<e, token[e]>> \in inbox \/ token[e] \in lost
    \/ \E c \in Calls : held[c] = token[e]

\* One client's refused mail does not keep the address's other clients' links back:
\* a request ends early only for a row that is gone.
EveryClientServed == skipped \subseteq gone

\* A course that its quiz has completed is shown with its pass, although it is read
\* before the attempts are; and so is a certificate.
PageConsistent ==
  \A c \in Calls \ gone :
    pc[c] = "shown" /\ (page[c].course = "quiz" \/ page[c].certified) => page[c].best

PortalInv == TypeOK /\ LinksDelivered /\ EveryClientServed /\ PageConsistent
=============================================================================
