-------------------------------- MODULE Requests --------------------------------
(* Components side by side: a request to the API, the web console's screens,  *)
(* and lessons with their quizzes and certificates.  They share no state, so  *)
(* a behaviour is of one of them: focus says of which, and the others'        *)
(* variables idle.                                                            *)
EXTENDS Access

CONSTANTS
  Persons,               \* Screens: accounts in one browser
  Sends, Extras,         \* Learning: simulations, assignments without a source
  Callers, Operations,   \* Learning: calls at once, and what they use
  Cap,                   \* Learning: attempts allowed
  MaxAttempts, MaxTokens, MaxFaults \* Learning: bounds

VARIABLES
  focus, \* the component that this behaviour is of
  screens_account, screens_policy, screens_stored, screens_tab,
  lessons_assignment, lessons_token, lessons_minted, lessons_mailed,
  lessons_questions, lessons_attempts, lessons_passed, lessons_passedRows,
  lessons_certificates, lessons_letters, lessons_pc, lessons_via, lessons_row,
  lessons_held, lessons_dropped, lessons_faults

Web == INSTANCE Screens WITH
  Accounts <- Persons, account <- screens_account, policy <- screens_policy,
  stored <- screens_stored, tab <- screens_tab
Lessons == INSTANCE Learning WITH
  Calls <- Callers,
  assignment <- lessons_assignment, token <- lessons_token,
  minted <- lessons_minted, mailed <- lessons_mailed,
  questions <- lessons_questions, attempts <- lessons_attempts,
  passed <- lessons_passed, passedRows <- lessons_passedRows,
  certificates <- lessons_certificates, letters <- lessons_letters,
  pc <- lessons_pc, via <- lessons_via, row <- lessons_row, held <- lessons_held,
  dropped <- lessons_dropped, faults <- lessons_faults
Links == INSTANCE LinkContract WITH
  Owners <- Lessons!Rows, current <- lessons_token, minted <- lessons_minted,
  mailed <- lessons_mailed

\* Each component asks of the constants what it asks by itself.
ASSUME RequestsAssumption ==
  /\ AccessAssumption
  /\ Web!ScreensAssumption
  /\ Lessons!LearningAssumption

screensVars == <<screens_account, screens_policy, screens_stored, screens_tab>>
lessonsVars == <<lessons_assignment, lessons_token, lessons_minted, lessons_mailed,
                 lessons_questions, lessons_attempts, lessons_passed,
                 lessons_passedRows, lessons_certificates, lessons_letters,
                 lessons_pc, lessons_via, lessons_row, lessons_held,
                 lessons_dropped, lessons_faults>>
allVars == <<focus, vars, screensVars, lessonsVars>>

-----------------------------------------------------------------------------
\* The variables of a component stay as they are while another is looked at.
screensIdle ==
  /\ screens_account = 0 /\ screens_policy = 0 /\ screens_stored = 0
  /\ screens_tab = 0
lessonsIdle ==
  /\ lessons_assignment = 0 /\ lessons_token = 0 /\ lessons_minted = 0
  /\ lessons_mailed = 0 /\ lessons_questions = 0 /\ lessons_attempts = 0
  /\ lessons_passed = 0 /\ lessons_passedRows = 0 /\ lessons_certificates = 0
  /\ lessons_letters = 0 /\ lessons_pc = 0 /\ lessons_via = 0 /\ lessons_row = 0
  /\ lessons_held = 0 /\ lessons_dropped = 0 /\ lessons_faults = 0

RequestsInit ==
  \/ /\ focus = "access" /\ Init /\ screensIdle /\ lessonsIdle
  \/ /\ focus = "screens" /\ Web!Init
     /\ Init /\ (\A a \in Accounts : Role(a) = "staff") /\ lessonsIdle
  \/ /\ focus = "lessons" /\ Lessons!Init
     /\ Init /\ (\A a \in Accounts : Role(a) = "staff") /\ screensIdle

RequestsNext ==
  \/ /\ focus = "access" /\ Next
     /\ UNCHANGED <<focus, screensVars, lessonsVars>>
  \/ /\ focus = "screens" /\ Web!Next
     /\ UNCHANGED <<focus, vars, lessonsVars>>
  \/ /\ focus = "lessons" /\ Lessons!Next
     /\ UNCHANGED <<focus, vars, screensVars>>

RequestsSpec == RequestsInit /\ [][RequestsNext]_allVars

-----------------------------------------------------------------------------
(* Properties *)

\* The screens of administrators and staff and the controllers behind them agree on
\* who may do what (Screens: EditorsNeverRefused).
ScreensAgree == focus = "screens" => Web!EditorsNeverRefused

\* Redirects come to rest, links lead where they say, and editors who must enrol rest
\* where they can (Screens: RedirectsSettle, NavLeadsThere, EditorsCanEnrol).
ScreensSettle == focus = "screens" => Web!ScreensInv

\* Attempts are capped, a pass is honoured, certificates are earned and letters
\* covered, and mailed links resolve, but for what overlapping calls explain
\* (Learning: LearningInv).  The links are those of LinkContract, and open nobody
\* else's course.
LessonsHold ==
  /\ [](focus = "lessons" => Lessons!LearningInv /\ Links!OpensOwnOnly)
  /\ focus = "lessons" => Links!Init
  /\ [][focus = "lessons" => [Links!Next]_(Links!vars)]_allVars

\* A pass is final (Learning: PassIsFinal).
PassIsFinal == [][focus = "lessons" => Lessons!PassIsFinal]_allVars
=============================================================================
