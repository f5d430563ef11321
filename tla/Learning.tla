------------------------------ MODULE Learning ------------------------------
(***************************************************************************)
(* One employee, one training module and its quiz.  The quiz is taken      *)
(* through a simulation's tracking link or through a /learn link mailed by *)
(* an administrator; both keep the same attempts.  A pass completes the    *)
(* assignment and issues a certificate.  None of it is transactional, so   *)
(* each awaited query is a step, and concurrent calls interleave.          *)
(***************************************************************************)
EXTENDS Naturals, FiniteSets

CONSTANTS
  Sends,       \* simulations that route to the module
  Extras,      \* assignments without a source send
  Calls,       \* calls that may be in progress at once
  Operations,  \* the operations callers use
  Cap,         \* attempts allowed, or None when unlimited
  MaxAttempts, \* bound: no quiz is started beyond it
  MaxTokens,   \* bound: access tokens minted
  MaxFaults,   \* bound: calls that die half-way
  None         \* no send, no assignment

LearningAssumption ==
  /\ Operations \subseteq {"quiz", "watch", "assign", "questions"}
  /\ Cap \in Nat \cup {None}
  /\ MaxAttempts \in Nat /\ MaxTokens \in Nat /\ MaxFaults \in Nat
  /\ None \notin Sends \cup Extras \cup Nat
  /\ Sends \cap Extras = {}
  /\ IsFiniteSet(Calls) /\ Calls # {}

VARIABLES
  assignment,       \* each row: absent, open or done; a send's row has it as source
  token,            \* each row's access token, 0 when null
  minted, mailed,   \* tokens minted so far; row and token of each mailed link
  questions,        \* the quiz has questions
  attempts, passed, \* attempts on record; how many passed, per source
  passedRows,       \* assignments passed through their /learn link
  certificates, letters,  \* certificates on file and mailed, per source
  pc, via, row, held, \* calls: next step, source link, assignment, token or score
  dropped, faults   \* sources whose call died half-way, deaths so far

vars == <<assignment, token, minted, mailed, questions, attempts, passed,
          passedRows, certificates, letters, pc, via, row, held, dropped, faults>>
rowVars   == <<assignment, token>>
linkVars  == <<minted, mailed>>
quizVars  == <<attempts, passed, passedRows>>
certVars  == <<certificates, letters>>
callVars  == <<pc, via, row, held>>
faultVars == <<dropped, faults>>

Rows    == Sends \cup Extras
Sources == Sends \cup {None}
Steps   == {"idle", "quizRead", "prior", "attempt", "complete", "certRead",
            "certCreate", "letter", "assignFind", "assignToken", "assignCreate",
            "invite", "questionsCreate"}

TypeOK ==
  /\ assignment \in [Rows -> {"absent", "open", "done"}]
  /\ token \in [Rows -> 0 .. MaxTokens]
  /\ minted \in 0 .. MaxTokens
  /\ mailed \subseteq Rows \X (1 .. MaxTokens)
  /\ questions \in BOOLEAN
  /\ attempts \in Nat
  /\ passed \in [Sources -> Nat]
  /\ passedRows \subseteq Rows
  /\ certificates \in [Sources -> Nat]
  /\ letters \in [Sources -> Nat]
  /\ pc \in [Calls -> Steps]
  /\ via \in [Calls -> Sources]
  /\ row \in [Calls -> Rows \cup {None}]
  /\ held \in [Calls -> Nat]
  /\ dropped \subseteq Sources
  /\ faults \in Nat

Init ==
  /\ assignment = [r \in Rows |-> "absent"]
  /\ token = [r \in Rows |-> 0]
  /\ minted = 0 /\ mailed = {}
  /\ questions = TRUE
  /\ attempts = 0 /\ passed = [x \in Sources |-> 0] /\ passedRows = {}
  /\ certificates = [x \in Sources |-> 0] /\ letters = [x \in Sources |-> 0]
  /\ pc = [c \in Calls |-> "idle"]
  /\ via = [c \in Calls |-> None] /\ row = [c \in Calls |-> None]
  /\ held = [c \in Calls |-> 0]
  /\ dropped = {} /\ faults = 0

-----------------------------------------------------------------------------
(* Steps of a call.  A definition named like the next one with a suffix is
   that definition with one mistake in it, to show which property notices. *)

Goto(c, step) == pc' = [pc EXCEPT ![c] = step] /\ UNCHANGED <<via, row, held>>

\* The call returns or throws: its locals are gone.
Finish(c) ==
  /\ pc' = [pc EXCEPT ![c] = "idle"]
  /\ via' = [via EXCEPT ![c] = None]
  /\ row' = [row EXCEPT ![c] = None]
  /\ held' = [held EXCEPT ![c] = 0]

\* The bounds: a call that starts has room to finish.
Busy(steps) == Cardinality({c \in Calls : pc[c] \in steps})
RoomToAttempt == attempts + Busy({"quizRead", "prior", "attempt"}) < MaxAttempts
RoomToAssign ==
  LET assigning == Busy({"assignFind", "assignToken", "assignCreate"}) IN
  /\ minted + assigning < MaxTokens
  /\ assigning < Cardinality({r \in Extras : assignment[r] = "absent"})

\* recordCredentialSubmission assigns the routed module for the send.
Routed(s) ==
  /\ assignment[s] = "absent"
  /\ assignment' = [assignment EXCEPT ![s] = "open"]
  /\ UNCHANGED <<token, linkVars, questions, quizVars, certVars, callVars, faultVars>>

-----------------------------------------------------------------------------
(* The quiz *)

\* The tracking link of a send, or a /learn link that still resolves.
QuizStart(c) ==
  /\ "quiz" \in Operations
  /\ RoomToAttempt
  /\ pc[c] = "idle"
  /\ pc' = [pc EXCEPT ![c] = "quizRead"]
  /\ \/ \E s \in Sends : /\ via' = [via EXCEPT ![c] = s]
                         /\ UNCHANGED row
     \/ \E link \in mailed : /\ token[link[1]] = link[2]
                             /\ row' = [row EXCEPT ![c] = link[1]]
                             /\ UNCHANGED via
  /\ UNCHANGED <<rowVars, linkVars, questions, quizVars, certVars, held, faultVars>>

\* The quiz is read with its questions; held is 1 when there are any.  The caller
\* names the quiz, and any of its tenant's is accepted; the model has the one of
\* the module the caller was given.
QuizRead(c) ==
  /\ pc[c] = "quizRead"
  /\ pc' = [pc EXCEPT ![c] = "prior"]
  /\ held' = [held EXCEPT ![c] = IF questions THEN 1 ELSE 0]
  /\ UNCHANGED <<rowVars, linkVars, questions, quizVars, certVars, via, row, faultVars>>

AlreadyPassed == \E x \in Sources : passed[x] # 0
AttemptsLeft == Cap = None \/ attempts < Cap

PriorIgnoresPass(c) ==
  /\ pc[c] = "prior"
  /\ IF AttemptsLeft THEN Goto(c, "attempt") ELSE Finish(c)
  /\ UNCHANGED <<rowVars, linkVars, questions, quizVars, certVars, faultVars>>

Prior(c) ==
  /\ pc[c] = "prior"
  /\ IF ~AlreadyPassed /\ AttemptsLeft THEN Goto(c, "attempt") ELSE Finish(c)
  /\ UNCHANGED <<rowVars, linkVars, questions, quizVars, certVars, faultVars>>

AttemptAlwaysOn(c) ==
  /\ pc[c] = "attempt"
  /\ attempts' = attempts + 1
  /\ Goto(c, "complete")
  /\ \/ held[c] = 1 /\ passed' = [passed EXCEPT ![via[c]] = @ + 1]
     \/ UNCHANGED passed
  /\ UNCHANGED <<rowVars, linkVars, questions, passedRows, certVars, faultVars>>

\* The answers are good enough or not; with no questions they never are.
Attempt(c) ==
  /\ pc[c] = "attempt"
  /\ attempts' = attempts + 1
  /\ \/ /\ held[c] = 1
        /\ passed' = [passed EXCEPT ![via[c]] = @ + 1]
        /\ passedRows' = passedRows \cup ({row[c]} \ {None})
        /\ Goto(c, "complete")
     \/ Finish(c) /\ UNCHANGED <<passed, passedRows>>
  /\ UNCHANGED <<rowVars, linkVars, questions, certVars, faultVars>>

\* updateMany: the send's rows, or the link's row, if still open.
Completing(c) == {r \in Rows : assignment[r] = "open" /\ r \in {via[c], row[c]}}

Complete(c) ==
  /\ pc[c] = "complete"
  /\ assignment' = [r \in Rows |->
       IF r \in Completing(c) THEN "done" ELSE assignment[r]]
  /\ Goto(c, "certRead")
  /\ UNCHANGED <<token, linkVars, questions, quizVars, certVars, faultVars>>

CertRead(c) ==
  /\ pc[c] = "certRead"
  /\ IF certificates[via[c]] # 0 THEN Finish(c) ELSE Goto(c, "certCreate")
  /\ UNCHANGED <<rowVars, linkVars, questions, quizVars, certVars, faultVars>>

CertCreate(c) ==
  /\ pc[c] = "certCreate"
  /\ certificates' = [certificates EXCEPT ![via[c]] = @ + 1]
  /\ Goto(c, "letter")
  /\ UNCHANGED <<rowVars, linkVars, questions, quizVars, letters, faultVars>>

\* emailToEmployee never throws.
Letter(c) ==
  /\ pc[c] = "letter"
  /\ \/ letters' = [letters EXCEPT ![via[c]] = @ + 1]
     \/ UNCHANGED letters
  /\ Finish(c)
  /\ UNCHANGED <<rowVars, linkVars, questions, quizVars, certificates, faultVars>>

Quiz(c) ==
  \/ QuizStart(c) \/ QuizRead(c) \/ Prior(c) \/ Attempt(c)
  \/ Complete(c) \/ CertRead(c) \/ CertCreate(c) \/ Letter(c)

\* markComplete, for a module without a quiz.
Watched(link) ==
  /\ "watch" \in Operations
  /\ link \in mailed
  /\ token[link[1]] = link[2]
  /\ assignment[link[1]] = "open"
  /\ assignment' = [assignment EXCEPT ![link[1]] = "done"]
  /\ UNCHANGED <<token, linkVars, questions, quizVars, certVars, callVars, faultVars>>

-----------------------------------------------------------------------------
(* An administrator assigns the module and mails its link *)

AssignStart(c) ==
  /\ "assign" \in Operations
  /\ RoomToAssign
  /\ pc[c] = "idle"
  /\ Goto(c, "assignFind")
  /\ UNCHANGED <<rowVars, linkVars, questions, quizVars, certVars, faultVars>>

AssignFind(c) ==
  /\ pc[c] = "assignFind"
  /\ \/ \E r \in Rows :
          /\ assignment[r] = "open"
          /\ row' = [row EXCEPT ![c] = r]
          /\ held' = [held EXCEPT ![c] = token[r]]
          /\ pc' = [pc EXCEPT ![c] = IF token[r] = 0 THEN "assignToken" ELSE "invite"]
          /\ UNCHANGED via
     \/ (\A r \in Rows : assignment[r] # "open") /\ Goto(c, "assignCreate")
  /\ UNCHANGED <<rowVars, linkVars, questions, quizVars, certVars, faultVars>>

\* newToken: 24 random bytes.
NewToken == minted + 1

\* The update is by id alone: a token minted meanwhile is overwritten.
AssignToken(c) ==
  /\ pc[c] = "assignToken"
  /\ minted' = NewToken
  /\ token' = [token EXCEPT ![row[c]] = NewToken]
  /\ held' = [held EXCEPT ![c] = NewToken]
  /\ pc' = [pc EXCEPT ![c] = "invite"]
  /\ UNCHANGED <<assignment, mailed, questions, quizVars, certVars, via, row, faultVars>>

AssignCreate(c) ==
  /\ pc[c] = "assignCreate"
  /\ minted' = NewToken
  /\ \E r \in Extras :
       /\ assignment[r] = "absent"
       /\ assignment' = [assignment EXCEPT ![r] = "open"]
       /\ token' = [token EXCEPT ![r] = NewToken]
       /\ row' = [row EXCEPT ![c] = r]
  /\ held' = [held EXCEPT ![c] = NewToken]
  /\ pc' = [pc EXCEPT ![c] = "invite"]
  /\ UNCHANGED <<mailed, questions, quizVars, certVars, via, faultVars>>

\* A refused mail is logged and forgotten.
Invite(c) ==
  /\ pc[c] = "invite"
  /\ mailed' \in {mailed, mailed \cup {<<row[c], held[c]>>}}
  /\ Finish(c)
  /\ UNCHANGED <<rowVars, minted, questions, quizVars, certVars, faultVars>>

Assign(c) ==
  \/ AssignStart(c) \/ AssignFind(c) \/ AssignToken(c) \/ AssignCreate(c)
  \/ Invite(c)

-----------------------------------------------------------------------------
(* setQuestions deletes the questions, then creates the new ones *)

QuestionsDelete(c) ==
  /\ "questions" \in Operations
  /\ pc[c] = "idle"
  /\ questions' = FALSE
  /\ Goto(c, "questionsCreate")
  /\ UNCHANGED <<rowVars, linkVars, quizVars, certVars, faultVars>>

QuestionsCreate(c) ==
  /\ pc[c] = "questionsCreate"
  /\ questions' = TRUE
  /\ Finish(c)
  /\ UNCHANGED <<rowVars, linkVars, quizVars, certVars, faultVars>>

CallDies(c) ==
  /\ pc[c] # "idle"
  /\ faults < MaxFaults
  /\ faults' = faults + 1
  /\ dropped' = dropped \cup {via[c]}
  /\ Finish(c)
  /\ UNCHANGED <<rowVars, linkVars, questions, quizVars, certVars>>

Call(c) == Quiz(c) \/ Assign(c) \/ QuestionsDelete(c) \/ QuestionsCreate(c)

Next ==
  \/ \E c \in Calls : Call(c) \/ CallDies(c)
  \/ \E s \in Sends : Routed(s)
  \/ \E link \in mailed : Watched(link)

Spec == Init /\ [][Next]_vars

-----------------------------------------------------------------------------
(* Properties *)

At(step) == {c \in Calls : pc[c] = step}

\* The attempt cap is exceeded only by submissions that overlap: each was let
\* through on a count below the cap, so all but one of the calls in progress
\* can be too many.
AttemptsCapped ==
  Cap \in Nat =>
    attempts + Cardinality(At("attempt")) <= Cap - 1 + Cardinality(Calls)

\* "A prior pass is always final; further attempts are refused": once no
\* submission that was checked before the pass is in progress, no attempt is
\* ever recorded again.
PassSettled == AlreadyPassed /\ At("attempt") = {}
PassIsFinal == PassSettled => PassSettled' /\ attempts' = attempts

\* Every certificate was earned by a passed attempt of its own source, and
\* every letter is about a certificate that the same call had just issued, so
\* re-submitting never mails a second copy of one.
Issuing(x) == {c \in Calls : via[c] = x /\ pc[c] \in {"complete", "certRead", "certCreate"}}
Mailing(x) == {c \in Calls : via[c] = x /\ pc[c] = "letter"}
CertificatesEarned ==
  \A x \in Sources : certificates[x] + Cardinality(Issuing(x)) <= passed[x]
LettersCovered ==
  \A x \in Sources : letters[x] + Cardinality(Mailing(x)) <= certificates[x]

\* On a pass the assignment of a /learn link is completed and a certificate
\* is on file, or a call is about to see to it, or it died.
PassHonoured ==
  /\ \A x \in Sources \ dropped :
       passed[x] # 0 => certificates[x] # 0 \/ Issuing(x) # {}
  /\ None \notin dropped => \A r \in passedRows :
       assignment[r] = "done" \/ \E c \in At("complete") : row[c] = r

\* A mailed link goes dead only when assign calls overlapped on one row: of
\* each row's links all but those of the overlapping calls still resolve.
DeadLinks(r) == {link \in mailed : link[1] = r /\ token[r] # link[2]}
LinksResolve ==
  \A r \in Rows : Cardinality(DeadLinks(r)) <= Cardinality(Calls) - 1

\* What holds of courses and their papers in every state.
LearningInv ==
  /\ TypeOK /\ AttemptsCapped /\ LinksResolve
  /\ CertificatesEarned /\ LettersCovered /\ PassHonoured
=============================================================================
