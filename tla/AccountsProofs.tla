---------------------------- MODULE AccountsProofs ----------------------------
(***************************************************************************)
(* What holds of console accounts, sign-ups, the rate limiter, the weekly  *)
(* digest and processes that start, for every value of the constants.      *)
(* Each part names what its component's invariant needs to be inductive,   *)
(* proves each of its steps, and ends in what behaviours of Accounts keep. *)
(***************************************************************************)
EXTENDS Accounts, SignInProofs, Sequences, FiniteSetTheorems, TLAPS

\* A step is one of the component that the behaviour is of, and stays with it.
LEMMA StepsOfOne ==
  ASSUME AccountsNext
  PROVE  /\ focus' = focus
         /\ focus = "console" => Console!Next
         /\ focus = "signup" => Joining!Next
         /\ focus = "limiter" => Limiter!Next
         /\ focus = "digest" => Weekly!Next
         /\ focus = "startup" => Starting!Next
BY DEF AccountsNext

\* So is a stutter, of every component.
LEMMA Focused ==
  ASSUME [AccountsNext]_allVars
  PROVE  /\ focus' = focus
         /\ focus = "console" => [Console!Next]_(Console!vars)
         /\ focus = "signup" => [Joining!Next]_(Joining!vars)
         /\ focus = "limiter" => [Limiter!Next]_(Limiter!vars)
         /\ focus = "digest" => [Weekly!Next]_(Weekly!vars)
         /\ focus = "startup" => [Starting!Next]_(Starting!vars)
<1>1. CASE AccountsNext
  BY <1>1, StepsOfOne
<1>2. CASE UNCHANGED allVars
  BY <1>2 DEF allVars, consoleVars, digestVars, limiterVars, signupVars, startupVars,
              Console!vars, Joining!vars, Limiter!vars, Weekly!vars, Starting!vars
<1> QED BY <1>1, <1>2

\* A behaviour begins in an initial state of its component.
LEMMA Begun ==
  ASSUME AccountsInit
  PROVE  /\ focus = "console" => Console!Init
         /\ focus = "signup" => Joining!Init
         /\ focus = "limiter" => Limiter!Init
         /\ focus = "digest" => Weekly!Init
         /\ focus = "startup" => Starting!Init
BY DEF AccountsInit

-----------------------------------------------------------------------------
(* Sign-in *)

\* What is a behaviour of Accounts is one of the sign-in: the others leave it alone.
THEOREM AccountsSignIn == AccountsSpec => Spec
<1>1. AccountsInit => Init
  BY DEF AccountsInit
<1>2. [AccountsNext]_allVars => [Next]_vars
  BY DEF AccountsNext, allVars
<1> QED BY <1>1, <1>2, PTL DEF AccountsSpec, Spec

\* So the counters and copies of the sign-in stay in range there, and second factors are proven.
THEOREM SignInKept == AccountsSpec => []SignInInv
BY AccountsSignIn, SignInInvariant, PTL

\* And nobody guesses more often there than overlapping calls explain.
THEOREM GuessesKept == AccountsSpec => []GuessesBounded
BY AccountsSignIn, GuessesAreBounded, PTL

-----------------------------------------------------------------------------
(* Console accounts and their links *)

\* A link belongs to one account: the row that holds it, the mail that carries
\* it and the calls that have it in hand agree on which.
LinksMinted == \A u \in Users : console_link[u] <= console_minted
OneHolder == \A u, v \in Users : console_link[u] = console_link[v] /\ console_link[u] # 0 => u = v
MailOwner == \A u, v \in Users : <<v, console_link[u]>> \in console_mailed => u = v
CallOwner ==
  \A u \in Users, c \in Calls :
    console_pc[c] \in {"mail", "accept"} /\ console_held[c] = console_link[u] =>
      console_subject[c] = u

\* What was mailed or is in hand has been minted.
MailMinted == \A invitation \in console_mailed : invitation[2] <= console_minted
HeldMinted == \A c \in Calls :
  console_pc[c] \in {"mail", "accept"} => console_held[c] \in 1 .. console_minted
HasSubject == \A c \in Calls : console_pc[c] # "idle" => console_subject[c] \in Users

\* A link that some row still holds, or that is not minted, set no password yet.
Unspent ==
  \A t \in Console!Links :
    (t > console_minted \/ \E u \in Users : console_link[u] = t) => console_uses[t] = 0

\* There is room for the links of the calls that are about to mint one.
Issuing == {c \in Calls : console_pc[c] = "issue"}
RoomLeft == console_minted + Cardinality(Issuing) <= MaxLinks

\* A call that nothing overtook issues for an active account.
IssuesActive ==
  \A c \in Calls \ console_stale :
    console_pc[c] = "issue" => console_account[console_subject[c]] = "active"

\* A removal of an administrator that still holds its count leaves another one.
CountHolds ==
  \A c \in Calls \ console_miscounted :
    console_pc[c] \in Console!Removals /\ console_subject[c] \in Admins =>
      Cardinality(Console!ActiveAdmins) >= 2

\* What holds of links, and what the whole invariant of a team is.
LinkInv == /\ LinksMinted /\ OneHolder /\ MailOwner /\ CallOwner
           /\ MailMinted /\ HeldMinted /\ HasSubject /\ Unspent
           /\ IssuesActive /\ Console!WithdrawnHoldsNoLink /\ Console!AcceptsCurrentLink
LinksIInv == Console!TypeOK /\ LinkInv /\ Console!UsesBounded /\ CountHolds /\ RoomLeft

\* The component counts as this module does.
LEMMA Counted ==
  \A S : Console!Cardinality(S) = Cardinality(S) /\ (Console!IsFiniteSet(S) <=> IsFiniteSet(S))
BY DEF Console!Cardinality, Cardinality, Console!IsFiniteSet, IsFiniteSet

-----------------------------------------------------------------------------
(* Types *)

\* A call that ends leaves every call's locals well typed.
LEMMA FinishTypes ==
  ASSUME Console!ConsoleAccountsAssumption, Console!TypeOK, NEW c \in Calls, Console!Finish(c)
  PROVE  /\ console_pc' \in [Calls -> Console!Steps]
         /\ console_subject' \in [Calls -> Users \cup {None}]
         /\ console_held' \in [Calls -> 0 .. MaxLinks]
BY DEF Console!ConsoleAccountsAssumption, Console!TypeOK, Console!Finish, Console!Steps

\* So does one that begins.
LEMMA BeginTypes ==
  ASSUME Console!TypeOK, NEW c \in Calls, NEW u \in Users, NEW step \in Console!Steps,
           NEW t \in 0 .. MaxLinks,
         Console!Begin(c, u, step, t)
  PROVE  /\ console_pc' \in [Calls -> Console!Steps]
         /\ console_subject' \in [Calls -> Users \cup {None}]
         /\ console_held' \in [Calls -> 0 .. MaxLinks]
BY DEF Console!TypeOK, Console!Begin

\* And what it marks as overtaken is calls.
LEMMA MarkTypes ==
  ASSUME Console!TypeOK, NEW c \in Calls,
         \/ Console!Forget(c) \/ Console!OvertakeAndForget(c) \/ Console!Withdraw(c)
         \/ UNCHANGED Console!readVars \/ (Console!Overtake(c) /\ UNCHANGED console_miscounted)
  PROVE  console_stale' \subseteq Calls /\ console_miscounted' \subseteq Calls
BY DEF Console!TypeOK, Console!Forget, Console!OvertakeAndForget, Console!Withdraw,
   Console!Overtake, Console!Others, Console!readVars

\* Every step keeps the types; a link is minted only within its bound.
LEMMA ConsoleTypeNext ==
  ASSUME Console!ConsoleAccountsAssumption, Console!TypeOK, HeldMinted, HasSubject, RoomLeft,
           [Console!Next]_(Console!vars)
  PROVE  Console!TypeOK'
<1> USE DEF Console!ConsoleAccountsAssumption
<1>1. CASE UNCHANGED Console!vars
  BY <1>1 DEF Console!TypeOK, Console!vars
<1>2. ASSUME NEW c \in Calls, NEW u \in Users, Console!Request(c, u) PROVE Console!TypeOK'
  <2>1. /\ \E step \in Console!Steps : Console!Begin(c, u, step, 0)
        /\ console_account' = console_account \/
             console_account' = [console_account EXCEPT ![u] = "active"]
        /\ UNCHANGED <<console_link, Console!linkVars, Console!readVars>>
    BY <1>2 DEF Console!Request, Console!Create, Console!SendConsoleInvite, Console!ReactivateFind,
       Console!Remove, Console!Steps
  <2>2. 0 \in 0 .. MaxLinks
    OBVIOUS
  <2>3. /\ console_pc' \in [Calls -> Console!Steps]
        /\ console_subject' \in [Calls -> Users \cup {None}]
        /\ console_held' \in [Calls -> 0 .. MaxLinks]
    BY <2>1, <2>2, BeginTypes
  <2> QED BY <2>1, <2>3 DEF Console!TypeOK, Console!linkVars, Console!readVars
<1>3. ASSUME NEW c \in Calls, Console!FindByToken(c) PROVE Console!TypeOK'
  <2>1. PICK invitation \in console_mailed :
           /\ Console!Begin(c, invitation[1], "accept", invitation[2])
           /\ UNCHANGED <<console_account, console_link, Console!linkVars, Console!readVars>>
    BY <1>3 DEF Console!FindByToken
  <2>2. invitation[1] \in Users /\ invitation[2] \in 0 .. MaxLinks
    BY DEF Console!TypeOK, Console!Links
  <2>3. /\ console_pc' \in [Calls -> Console!Steps]
        /\ console_subject' \in [Calls -> Users \cup {None}]
        /\ console_held' \in [Calls -> 0 .. MaxLinks]
    BY <2>1, <2>2, BeginTypes DEF Console!Steps
  <2> QED BY <2>1, <2>3 DEF Console!TypeOK, Console!linkVars, Console!readVars
<1>4. ASSUME NEW c \in Calls, Console!Accept(c) PROVE Console!TypeOK'
  <2>0. console_link' \in [Users -> 0 .. MaxLinks] /\ console_uses' \in [Console!Links -> Nat]
    <3>1. 0 \in 0 .. MaxLinks /\ console_link' = [console_link EXCEPT ![console_subject[c]] = 0]
      BY <1>4 DEF Console!Accept
    <3>2. console_link' \in [Users -> 0 .. MaxLinks]
      BY <3>1 DEF Console!TypeOK
    <3>3. console_uses' = [console_uses EXCEPT ![console_held[c]] = @ + 1] /\
            console_uses \in [Console!Links -> Nat]
      BY <1>4 DEF Console!Accept, Console!TypeOK
    <3>4. console_uses' = [t \in Console!Links |-> IF t = console_held[c] THEN console_uses[t] + 1 ELSE console_uses[t]]
      BY <3>3
    <3>5. \A t \in Console!Links : console_uses[t] \in Nat /\ console_uses[t] + 1 \in Nat
      BY DEF Console!TypeOK
    <3>6. console_uses' \in [Console!Links -> Nat]
      BY <3>4, <3>5
    <3> QED BY <3>2, <3>6
  <2>1. /\ console_link' \in [Users -> 0 .. MaxLinks] /\ console_uses' \in [Console!Links -> Nat]
        /\ Console!Finish(c) /\ Console!OvertakeAndForget(c)
        /\ UNCHANGED <<console_account, console_minted, console_mailed, console_late>>
    BY <1>4, <2>0 DEF Console!Accept, Console!TypeOK
  <2> QED BY <2>1, FinishTypes, MarkTypes DEF Console!TypeOK
<1>5. ASSUME NEW c \in Calls, Console!Issue(c) PROVE Console!TypeOK'
  <2>1. console_minted + 1 \in Console!Links /\ console_minted \in Nat
    <3>1. c \in Issuing /\ IsFiniteSet(Issuing) /\ Cardinality(Issuing) \in Nat
      BY Counted, <1>5, FS_Subset, FS_CardinalityType DEF Console!Issue, Issuing
    <3>2. Cardinality(Issuing) # 0
      BY <3>1, FS_EmptySet
    <3> QED BY <3>1, <3>2 DEF RoomLeft, Console!TypeOK, Console!Links
  <2>2. /\ console_link' \in [Users -> 0 .. MaxLinks] /\ console_held' \in [Calls -> 0 .. MaxLinks]
        /\ console_minted' \in 0 .. MaxLinks /\ console_late' \subseteq Console!Links
    <3>1. console_minted + 1 \in 0 .. MaxLinks
      BY <2>1 DEF Console!Links
    <3>2. console_link' \in [Users -> 0 .. MaxLinks]
      BY <1>5, <3>1 DEF Console!Issue, Console!TypeOK
    <3>3. console_held' \in [Calls -> 0 .. MaxLinks]
      BY <1>5, <3>1 DEF Console!Issue, Console!TypeOK
    <3>4. console_late' \subseteq Console!Links
      BY <1>5, <2>1 DEF Console!Issue, Console!TypeOK
    <3> QED BY <1>5, <3>1, <3>2, <3>3, <3>4 DEF Console!Issue
  <2>3. console_pc' \in [Calls -> Console!Steps] /\ Console!Overtake(c) /\
          UNCHANGED <<console_account, console_mailed, console_uses, console_subject, console_miscounted>>
    BY <1>5 DEF Console!Issue, Console!TypeOK, Console!Steps
  <2> QED BY <2>2, <2>3, MarkTypes DEF Console!TypeOK
<1>6. ASSUME NEW c \in Calls, Console!Mail(c) PROVE Console!TypeOK'
  <2>1. <<console_subject[c], console_held[c]>> \in Users \X Console!Links
    BY <1>6 DEF Console!Mail, HeldMinted, HasSubject, Console!TypeOK, Console!Links
  <2>2. console_mailed' \subseteq Users \X Console!Links
    BY <1>6, <2>1 DEF Console!Mail, Console!TypeOK
  <2>3. Console!Finish(c) /\ Console!Forget(c) /\
          UNCHANGED <<console_account, console_link, console_minted, console_uses, console_late>>
    BY <1>6 DEF Console!Mail
  <2> QED BY <2>2, <2>3, FinishTypes, MarkTypes DEF Console!TypeOK
<1>7. ASSUME NEW c \in Calls, Console!AssertNotLastActiveAdmin(c) PROVE Console!TypeOK'
  <2>1. UNCHANGED <<console_account, console_link, Console!linkVars>>
    BY <1>7 DEF Console!AssertNotLastActiveAdmin
  <2>2. CASE Console!Finish(c) /\ Console!Forget(c)
    BY <2>1, <2>2, FinishTypes, MarkTypes DEF Console!TypeOK, Console!linkVars
  <2>3. CASE /\ console_pc' = [console_pc EXCEPT ![c] = IF console_pc[c] = "countDelete" THEN "delete" ELSE "deactivate"]
             /\ UNCHANGED <<console_subject, console_held, Console!readVars>>
    BY <2>1, <2>3 DEF Console!TypeOK, Console!Steps, Console!linkVars, Console!readVars
  <2> QED BY <1>7, <2>2, <2>3 DEF Console!AssertNotLastActiveAdmin
<1>8. ASSUME NEW c \in Calls, Console!Deactivate(c) \/ Console!Delete(c) \/
               Console!Reactivate(c) PROVE Console!TypeOK'
  <2>1. console_account' \in [Users -> {"absent", "active", "inactive", "deleted"}]
    BY <1>8 DEF Console!Deactivate, Console!Delete, Console!Reactivate, Console!TypeOK
  <2>2. console_link' \in [Users -> 0 .. MaxLinks]
    BY <1>8 DEF Console!Deactivate, Console!Delete, Console!Reactivate, Console!TypeOK
  <2>3. Console!Finish(c) /\ (Console!Withdraw(c) \/ Console!OvertakeAndForget(c)) /\
          UNCHANGED Console!linkVars
    BY <1>8 DEF Console!Deactivate, Console!Delete, Console!Reactivate
  <2> QED BY <2>1, <2>2, <2>3, FinishTypes, MarkTypes DEF Console!TypeOK, Console!linkVars
<1>9. ASSUME NEW c \in Calls, Console!RowGone(c) \/ Console!CallDies(c) PROVE Console!TypeOK'
  <2>1. Console!Finish(c) /\ Console!Forget(c) /\
          UNCHANGED <<console_account, console_link, Console!linkVars>>
    BY <1>9 DEF Console!RowGone, Console!CallDies
  <2> QED BY <2>1, FinishTypes, MarkTypes DEF Console!TypeOK, Console!linkVars
<1> QED BY <1>1, <1>2, <1>3, <1>4, <1>5, <1>6, <1>7, <1>8, <1>9 DEF Console!Next, Console!Call

-----------------------------------------------------------------------------
(* Console!Links *)

\* Rows, mails and calls keep agreeing on whose link is whose.
LEMMA LinkInvNext ==
  ASSUME Console!ConsoleAccountsAssumption, Console!TypeOK, Console!TypeOK', LinkInv,
           [Console!Next]_(Console!vars)
  PROVE  LinkInv'
<1> USE DEF LinkInv
<1> DEFINE Spares(c) == \A d \in Calls : d # c => console_pc'[d] = console_pc[d] /\ console_subject'[d] = console_subject[d] /\ console_held'[d] = console_held[d]
\* The rows and mails stay; a call that goes on to a step with a link has one already.
<1>1. ASSUME UNCHANGED <<console_link, console_minted, console_mailed, console_uses, console_late>>,
             \A u \in Users :
               console_account'[u] = console_account[u] \/ console_account'[u] = "active",
             \A d \in Calls :
               \/ /\ console_pc'[d] = console_pc[d] /\ console_subject'[d] = console_subject[d]
                  /\ console_held'[d] = console_held[d]
                  /\ d \notin console_stale' => d \notin console_stale
               \/ console_pc'[d] \notin {"issue", "mail", "accept"} /\
                    (console_pc'[d] # "idle" => console_subject'[d] \in Users)
               \/ console_pc'[d] = "issue" /\ console_subject'[d] \in Users /\
                    console_account'[console_subject'[d]] = "active"
      PROVE  LinkInv'
  <2>1. LinksMinted' /\ OneHolder' /\ MailOwner' /\ MailMinted' /\ Unspent'
    BY <1>1 DEF LinksMinted, OneHolder, MailOwner, MailMinted, Unspent
  <2>2. Console!WithdrawnHoldsNoLink'
    BY <1>1 DEF Console!WithdrawnHoldsNoLink
  <2>3. HasSubject'
    BY <1>1 DEF HasSubject
  <2>4. CallOwner' /\ HeldMinted'
    BY <1>1 DEF CallOwner, HeldMinted
  <2>5. IssuesActive'
    BY <1>1 DEF IssuesActive, HasSubject
  <2>6. Console!AcceptsCurrentLink'
    BY <1>1 DEF Console!AcceptsCurrentLink, HasSubject
  <2> QED BY <2>1, <2>2, <2>3, <2>4, <2>5, <2>6
<1>2. CASE UNCHANGED Console!vars
  BY <1>1, <1>2 DEF Console!vars
<1>3. ASSUME NEW c \in Calls, Console!RowGone(c) \/ Console!CallDies(c) PROVE LinkInv'
  BY <1>1, <1>3 DEF Console!RowGone, Console!CallDies, Console!Finish, Console!Forget,
     Console!linkVars, Console!TypeOK
<1>4. ASSUME NEW c \in Calls, NEW u \in Users, Console!Request(c, u) PROVE LinkInv'
  <2>1. /\ console_pc[c] = "idle" /\ console_pc'[c] \notin {"idle", "mail", "accept"}
        /\ console_subject'[c] = u
        /\ Spares(c) /\ UNCHANGED <<console_link, Console!linkVars, Console!readVars>>
        /\ console_pc'[c] = "issue" => console_account'[u] = "active"
        /\ \/ console_account' = console_account
           \/ console_account[u] = "absent" /\
                console_account' = [console_account EXCEPT ![u] = "active"]
    BY <1>4 DEF Console!Request, Console!Create, Console!SendConsoleInvite, Console!ReactivateFind,
       Console!Remove, Console!Begin, Console!TypeOK
  <2>2. \A v \in Users : console_account'[v] = console_account[v] \/ console_account'[v] = "active"
    BY <2>1 DEF Console!TypeOK
  <2> QED BY <1>1, <2>1, <2>2 DEF Console!linkVars, Console!readVars
<1>5. ASSUME NEW c \in Calls, Console!FindByToken(c) PROVE LinkInv'
  <2>1. PICK invitation \in console_mailed :
           /\ console_link[invitation[1]] = invitation[2]
           /\ console_account[invitation[1]] = "active"
           /\ Console!Begin(c, invitation[1], "accept", invitation[2])
           /\ UNCHANGED <<console_account, console_link, Console!linkVars, Console!readVars>>
    BY <1>5 DEF Console!FindByToken
  <2>2. PICK u \in Users, t \in Console!Links : invitation = <<u, t>>
    BY DEF Console!TypeOK
  <2>3. /\ Spares(c) /\ console_pc'[c] = "accept" /\ console_subject'[c] = u /\ console_held'[c] = t
        /\ console_link[u] = t /\ console_account[u] = "active" /\ <<u, t>> \in console_mailed
        /\ UNCHANGED <<console_account, console_link, console_minted, console_mailed, console_uses, console_late, console_stale>>
    BY <2>1, <2>2 DEF Console!Begin, Console!linkVars, Console!readVars, Console!TypeOK
  <2>4. /\ LinksMinted' /\ OneHolder' /\ MailOwner' /\ MailMinted' /\ Unspent'
        /\ Console!WithdrawnHoldsNoLink'
    BY <2>3 DEF LinksMinted, OneHolder, MailOwner, MailMinted, Unspent, Console!WithdrawnHoldsNoLink
  <2>5. t \in 1 .. console_minted
    BY <2>3 DEF LinksMinted, Console!TypeOK, Console!Links
  <2>6. HasSubject' /\ HeldMinted'
    BY <2>3, <2>5 DEF HasSubject, HeldMinted
  <2>7. CallOwner'
    <3>1. \A v \in Users : console_link[v] = t => v = u
      BY <2>3, <2>5 DEF OneHolder
    <3> QED BY <2>3, <3>1 DEF CallOwner
  <2>8. IssuesActive'
    BY <2>3 DEF IssuesActive
  <2>9. Console!AcceptsCurrentLink'
    <3> SUFFICES ASSUME NEW d \in Calls, d \notin console_stale, console_pc'[d] = "accept"
                 PROVE  /\ console_account[console_subject'[d]] = "active"
                        /\ console_link[console_subject'[d]] = console_held'[d]
                        /\ <<console_subject'[d], console_held'[d]>> \in console_mailed
      BY <2>3 DEF Console!AcceptsCurrentLink
    <3>1. CASE d = c
      BY <2>3, <3>1
    <3>2. CASE d # c
      BY <2>3, <3>2 DEF Console!AcceptsCurrentLink
    <3> QED BY <3>1, <3>2
  <2> QED BY <2>4, <2>6, <2>7, <2>8, <2>9
<1>6. ASSUME NEW c \in Calls, Console!Mail(c) PROVE LinkInv'
  <2>1. /\ Spares(c) /\ console_pc[c] = "mail" /\ console_pc'[c] = "idle"
        /\ console_stale' = console_stale \ {c}
        /\ console_mailed' \in {console_mailed, console_mailed \cup {<<console_subject[c], console_held[c]>>}}
        /\ UNCHANGED <<console_account, console_link, console_minted, console_uses, console_late>>
    BY <1>6 DEF Console!Mail, Console!Finish, Console!Forget, Console!TypeOK
  <2>2. console_subject[c] \in Users /\ console_held[c] \in 1 .. console_minted
    BY <2>1 DEF HasSubject, HeldMinted
  <2>3. LinksMinted' /\ OneHolder' /\ Console!WithdrawnHoldsNoLink' /\ Unspent'
    BY <2>1 DEF LinksMinted, OneHolder, Console!WithdrawnHoldsNoLink, Unspent
  <2>4. MailOwner'
    BY <2>1, <2>2 DEF MailOwner, CallOwner
  <2>5. MailMinted'
    <3>1. console_held[c] <= console_minted
      BY <2>2
    <3> QED BY <2>1, <3>1 DEF MailMinted
  <2>6. CallOwner' /\ HeldMinted' /\ HasSubject'
    BY <2>1 DEF CallOwner, HeldMinted, HasSubject
  <2>7. IssuesActive' /\ Console!AcceptsCurrentLink'
    BY <2>1 DEF IssuesActive, Console!AcceptsCurrentLink
  <2> QED BY <2>3, <2>4, <2>5, <2>6, <2>7
<1>7. ASSUME NEW c \in Calls, Console!AssertNotLastActiveAdmin(c) PROVE LinkInv'
  <2>1. UNCHANGED <<console_account, console_link, console_minted, console_mailed, console_uses, console_late>>
    BY <1>7 DEF Console!AssertNotLastActiveAdmin, Console!linkVars
  <2>2. CASE Console!Finish(c) /\ Console!Forget(c)
    BY <1>1, <2>1, <2>2 DEF Console!Finish, Console!Forget, Console!TypeOK
  <2>3. CASE /\ console_pc' = [console_pc EXCEPT ![c] = IF console_pc[c] = "countDelete" THEN "delete" ELSE "deactivate"]
             /\ UNCHANGED <<console_subject, console_held, Console!readVars>>
    <3>1. console_pc[c] # "idle"
      BY <1>7 DEF Console!AssertNotLastActiveAdmin
    <3> QED BY <1>1, <2>1, <2>3, <3>1 DEF Console!readVars, Console!TypeOK, HasSubject
  <2> QED BY <1>7, <2>2, <2>3 DEF Console!AssertNotLastActiveAdmin
\* A write of c to its account, which ends it.
<1>8. ASSUME NEW c \in Calls, NEW u \in Users, u = console_subject[c], console_pc[c] # "idle",
             Console!Finish(c), console_stale' = (console_stale \cup Console!Others(c)) \ {c},
             UNCHANGED <<console_minted, console_mailed, console_late>>,
             \A v \in Users :
               v # u => console_account'[v] = console_account[v] /\
                 console_link'[v] = console_link[v],
             console_link'[u] = 0 \/
               (console_account'[u] = "active" /\ console_link'[u] = console_link[u]),
             Unspent'
      PROVE  LinkInv'
  <2>1. Spares(c) /\ console_pc'[c] = "idle"
    BY <1>8 DEF Console!Finish, Console!TypeOK
  <2>2. console_minted \in Nat /\ \A v \in Users :
          console_link'[v] = console_link[v] \/ console_link'[v] = 0
    BY <1>8 DEF Console!TypeOK
  <2>3. LinksMinted' /\ OneHolder'
    BY <1>8, <2>2 DEF LinksMinted, OneHolder
  <2>4. MailOwner' /\ MailMinted'
    <3>1. \A v \in Users : <<v, 0>> \notin console_mailed
      BY DEF Console!TypeOK, Console!Links
    <3> QED BY <1>8, <2>2, <3>1 DEF MailOwner, MailMinted
  <2>5. HeldMinted' /\ HasSubject'
    BY <1>8, <2>1 DEF HeldMinted, HasSubject
  <2>6. CallOwner'
    <3>1. \A d \in Calls : console_pc[d] \in {"mail", "accept"} => console_held[d] # 0
      BY DEF HeldMinted
    <3> QED BY <2>1, <2>2, <3>1 DEF CallOwner
  <2>7. Console!WithdrawnHoldsNoLink'
    BY <1>8, <2>2 DEF Console!WithdrawnHoldsNoLink
  <2>8. ASSUME NEW d \in Calls, d \notin console_stale', console_pc'[d] # "idle"
        PROVE  /\ d \notin console_stale /\ console_pc'[d] = console_pc[d]
               /\ console_subject'[d] = console_subject[d] /\ console_held'[d] = console_held[d]
               /\ console_subject[d] \in Users /\ console_subject[d] # u
    BY <1>8, <2>1, <2>8 DEF Console!Others, HasSubject
  <2>9. IssuesActive' /\ Console!AcceptsCurrentLink'
    BY <1>8, <2>8 DEF IssuesActive, Console!AcceptsCurrentLink
  <2> QED BY <1>8, <2>3, <2>4, <2>5, <2>6, <2>7, <2>9
<1>9. ASSUME NEW c \in Calls, Console!Deactivate(c) \/ Console!Delete(c) \/
               Console!Reactivate(c) PROVE LinkInv'
  <2>1. /\ console_pc[c] # "idle" /\ Console!Finish(c)
        /\ console_stale' = (console_stale \cup Console!Others(c)) \ {c}
        /\ UNCHANGED Console!linkVars
    BY <1>9 DEF Console!Deactivate, Console!Delete, Console!Reactivate, Console!Withdraw,
       Console!OvertakeAndForget
  <2>2. PICK u \in Users : u = console_subject[c]
    BY <2>1 DEF HasSubject
  <2>3. /\ \A v \in Users :
             v # u => console_account'[v] = console_account[v] /\ console_link'[v] = console_link[v]
        /\ console_link'[u] = 0 \/
             (console_account'[u] = "active" /\ console_link'[u] = console_link[u])
    BY <1>9, <2>2 DEF Console!Deactivate, Console!Delete, Console!Reactivate, Console!TypeOK
  <2>4. Unspent'
    <3>1. \A t \in Console!Links, v \in Users : console_link'[v] = t => console_link[v] = t
      BY <2>3 DEF Console!Links
    <3> QED BY <2>1, <3>1 DEF Unspent, Console!linkVars
  <2> QED BY <1>8, <2>1, <2>2, <2>3, <2>4 DEF Console!linkVars
<1>10. ASSUME NEW c \in Calls, Console!Accept(c) PROVE LinkInv'
  <2>1. /\ console_pc[c] = "accept" /\ Console!Finish(c)
        /\ console_stale' = (console_stale \cup Console!Others(c)) \ {c}
        /\ UNCHANGED <<console_account, console_minted, console_mailed, console_late>>
        /\ console_link' = [console_link EXCEPT ![console_subject[c]] = 0]
        /\ console_uses' = [console_uses EXCEPT ![console_held[c]] = @ + 1]
    BY <1>10 DEF Console!Accept, Console!OvertakeAndForget
  <2>2. PICK u \in Users : u = console_subject[c]
    BY <2>1 DEF HasSubject
  <2>3. /\ \A v \in Users :
             v # u => console_account'[v] = console_account[v] /\ console_link'[v] = console_link[v]
        /\ console_link'[u] = 0
    BY <2>1, <2>2 DEF Console!TypeOK
  <2>4. Unspent'
    <3> SUFFICES ASSUME NEW t \in Console!Links, t > console_minted \/ \E v \in Users :
                   console_link'[v] = t
                 PROVE  console_uses'[t] = 0
      BY <2>1 DEF Unspent
    <3>1. t > console_minted \/ \E v \in Users : console_link[v] = t /\ v # u
      BY <2>3 DEF Console!Links
    <3>2. console_held[c] # t
      <4>1. console_held[c] \in 1 .. console_minted /\ console_minted \in Nat
        BY <2>1 DEF HeldMinted, Console!TypeOK
      <4>2. \A v \in Users : console_link[v] = console_held[c] => v = u
        BY <2>1, <2>2 DEF CallOwner
      <4> QED BY <3>1, <4>1, <4>2 DEF Console!Links
    <3>3. console_uses[t] = 0
      BY <3>1 DEF Unspent
    <3> QED BY <2>1, <3>2, <3>3 DEF Console!TypeOK
  <2> QED BY <1>8, <2>1, <2>2, <2>3, <2>4
<1>11. ASSUME NEW c \in Calls, Console!Issue(c) PROVE LinkInv'
  <2>1. /\ console_pc[c] = "issue" /\ console_account' = console_account
        /\ console_mailed' = console_mailed /\ console_uses' = console_uses
        /\ console_subject' = console_subject
        /\ console_minted' = console_minted + 1
        /\ console_link' = [console_link EXCEPT ![console_subject[c]] = console_minted + 1]
        /\ console_held' = [console_held EXCEPT ![c] = console_minted + 1]
        /\ console_pc' = [console_pc EXCEPT ![c] = "mail"]
        /\ console_late' = IF c \in console_stale THEN console_late \cup {console_minted + 1} ELSE console_late
        /\ console_stale' = console_stale \cup Console!Others(c)
        /\ Console!Exists(console_subject[c])
    BY <1>11 DEF Console!Issue, Console!Overtake
  <2>2. PICK u \in Users : u = console_subject[c]
    BY <2>1 DEF HasSubject
  <2>3. /\ console_link'[u] = console_minted + 1 /\ \A v \in Users :
             v # u => console_link'[v] = console_link[v]
        /\ console_held'[c] = console_minted + 1 /\ console_pc'[c] = "mail"
        /\ \A d \in Calls :
             d # c => console_pc'[d] = console_pc[d] /\ console_held'[d] = console_held[d]
    BY <2>1, <2>2 DEF Console!TypeOK
  <2>4. console_minted \in Nat /\ console_minted + 1 # 0 /\ \A v \in Users :
          console_link[v] \in Nat /\ console_link[v] < console_minted + 1
    BY DEF LinksMinted, Console!TypeOK
  <2>5. LinksMinted' /\ OneHolder'
    BY <2>1, <2>3, <2>4 DEF LinksMinted, OneHolder
  <2>6. MailMinted'
    <3>1. \A invitation \in console_mailed : invitation[2] \in Nat
      BY DEF Console!TypeOK, Console!Links
    <3> QED BY <2>1, <2>4, <3>1 DEF MailMinted
  <2>7. MailOwner'
    <3>1. \A v \in Users : <<v, console_minted + 1>> \notin console_mailed
      <4>1. ASSUME NEW v \in Users, <<v, console_minted + 1>> \in console_mailed PROVE FALSE
        <5>1. <<v, console_minted + 1>>[2] <= console_minted
          BY <4>1 DEF MailMinted
        <5> QED BY <2>4, <5>1
      <4> QED BY <4>1
    <3> QED BY <2>1, <2>3, <3>1 DEF MailOwner
  <2>8. HeldMinted' /\ HasSubject'
    BY <2>1, <2>3, <2>4 DEF HeldMinted, HasSubject
  <2>9. CallOwner'
    <3>1. \A d \in Calls :
            d # c /\ console_pc[d] \in {"mail", "accept"} => console_held[d] # console_minted + 1
      BY <2>4 DEF HeldMinted
    <3>2. \A v \in Users : v # u => console_link'[v] # console_minted + 1
      BY <2>3, <2>4
    <3> QED BY <2>1, <2>2, <2>3, <3>1, <3>2 DEF CallOwner
  <2>10. Unspent'
    <3> SUFFICES ASSUME NEW t \in Console!Links, t > console_minted + 1 \/ \E v \in Users :
                   console_link'[v] = t
                 PROVE  console_uses[t] = 0
      BY <2>1 DEF Unspent
    <3>1. t > console_minted \/ \E v \in Users : console_link[v] = t
      BY <2>3, <2>4 DEF Console!Links
    <3> QED BY <3>1 DEF Unspent
  <2>11. Console!WithdrawnHoldsNoLink'
    <3>1. c \notin console_stale => console_account[u] = "active"
      BY <2>1, <2>2 DEF IssuesActive
    <3> QED BY <2>1, <2>3, <3>1 DEF Console!WithdrawnHoldsNoLink
  <2>12. ASSUME NEW d \in Calls, d \notin console_stale', console_pc'[d] \in {"issue", "accept"}
         PROVE  d # c /\ d \notin console_stale /\ console_pc'[d] = console_pc[d] /\
                  console_held'[d] = console_held[d]
                /\ console_subject[d] \in Users /\ console_subject[d] # u
    BY <2>1, <2>2, <2>3, <2>12 DEF Console!Others, HasSubject
  <2>13. IssuesActive' /\ Console!AcceptsCurrentLink'
    BY <2>1, <2>3, <2>12 DEF IssuesActive, Console!AcceptsCurrentLink
  <2> QED BY <2>5, <2>6, <2>7, <2>8, <2>9, <2>10, <2>11, <2>13
<1> QED BY <1>2, <1>3, <1>4, <1>5, <1>6, <1>7, <1>9, <1>10, <1>11 DEF Console!Next, Console!Call

-----------------------------------------------------------------------------
(* Counting *)

\* A set of calls is finite, and so is any part of the administrators.
LEMMA PartsFinite ==
  ASSUME Console!ConsoleAccountsAssumption
  PROVE  /\ \A S \in SUBSET Calls : /\ IsFiniteSet(S) /\ Cardinality(S) \in Nat
                                    /\ Cardinality(S) <= Cardinality(Calls)
         /\ \A S \in SUBSET Admins : IsFiniteSet(S) /\ Cardinality(S) \in Nat
         /\ Cardinality(Calls) \in Nat
BY Counted, FS_Subset, FS_CardinalityType DEF Console!ConsoleAccountsAssumption

\* Room for a link is taken before its call begins, and used when it is minted.
LEMMA RoomLeftNext ==
  ASSUME Console!ConsoleAccountsAssumption, Console!TypeOK, Console!TypeOK', RoomLeft,
           [Console!Next]_(Console!vars)
  PROVE  RoomLeft'
<1> USE PartsFinite
<1>0. /\ console_minted \in Nat /\ MaxLinks \in Nat /\ Issuing \in SUBSET Calls
      /\ Issuing' \in SUBSET Calls
      /\ Cardinality(Issuing) \in Nat /\ IsFiniteSet(Issuing)
      /\ Cardinality(Issuing') \in Nat /\ IsFiniteSet(Issuing')
  BY DEF Console!TypeOK, Issuing, Console!ConsoleAccountsAssumption
<1>1. ASSUME console_minted' = console_minted, Issuing' \subseteq Issuing PROVE RoomLeft'
  <2>1. Cardinality(Issuing') <= Cardinality(Issuing)
    BY <1>0, <1>1, FS_Subset
  <2> QED BY <1>0, <1>1, <2>1 DEF RoomLeft
<1>2. CASE UNCHANGED Console!vars
  BY <1>1, <1>2 DEF Console!vars, Issuing
<1>3. ASSUME NEW c \in Calls, NEW u \in Users, Console!Request(c, u) PROVE RoomLeft'
  <2>1. CASE Console!Create(c, u) \/ Console!SendConsoleInvite(c, u)
    <3>1. /\ console_minted' = console_minted /\ Issuing' = Issuing \cup {c}
          /\ console_minted + Cardinality(Issuing) < MaxLinks
      BY Counted, <2>1 DEF Console!Create, Console!SendConsoleInvite, Console!RoomToIssue, Issuing,
         Console!Begin, Console!linkVars, Console!TypeOK
    <3>2. Cardinality(Issuing') <= Cardinality(Issuing) + 1
      BY <1>0, <3>1, FS_AddElement
    <3> QED BY <1>0, <3>1, <3>2 DEF RoomLeft
  <2>2. CASE Console!ReactivateFind(c, u) \/ \E actor \in Outsiders \cup Console!ActiveAdmins :
               Console!Remove(c, u, actor)
    <3>1. console_minted' = console_minted /\ Issuing' \subseteq Issuing
      BY <2>2 DEF Console!ReactivateFind, Console!Remove, Issuing, Console!Begin, Console!linkVars,
         Console!TypeOK
    <3> QED BY <1>1, <3>1
  <2> QED BY <1>3, <2>1, <2>2 DEF Console!Request
<1>4. ASSUME NEW c \in Calls, Console!Issue(c) PROVE RoomLeft'
  <2>1. console_minted' = console_minted + 1 /\ c \in Issuing /\ Issuing' = Issuing \ {c}
    BY <1>4 DEF Console!Issue, Issuing, Console!TypeOK
  <2>2. Cardinality(Issuing') = Cardinality(Issuing) - 1
    BY <1>0, <2>1, FS_RemoveElement
  <2> QED BY <1>0, <2>1, <2>2 DEF RoomLeft
<1>5. ASSUME NEW c \in Calls,
             \/ Console!FindByToken(c) \/ Console!Accept(c) \/ Console!Mail(c)
             \/ Console!AssertNotLastActiveAdmin(c) \/ Console!Deactivate(c)
             \/ Console!Delete(c) \/ Console!Reactivate(c) \/ Console!RowGone(c)
             \/ Console!CallDies(c)
      PROVE  RoomLeft'
  <2>1. console_minted' = console_minted /\ Issuing' \subseteq Issuing
    BY <1>5 DEF Console!FindByToken, Console!Accept, Console!Mail, Console!AssertNotLastActiveAdmin,
       Console!Deactivate, Console!Delete, Console!Reactivate, 
                Console!RowGone, Console!CallDies, Console!Begin, Console!Finish, Issuing,
                  Console!linkVars, Console!TypeOK
  <2> QED BY <1>1, <2>1
<1> QED BY <1>2, <1>3, <1>4, <1>5 DEF Console!Next, Console!Call

\* A link is set down for as many passwords as calls found it: once it is used
\* no further call can find it.
LEMMA UsesBoundedNext ==
  ASSUME Console!ConsoleAccountsAssumption, Console!TypeOK, Console!TypeOK', LinkInv,
           Console!UsesBounded, [Console!Next]_(Console!vars)
  PROVE  Console!UsesBounded'
<1> SUFFICES ASSUME NEW t \in Console!Links
             PROVE  console_uses'[t] + Cardinality(Console!Accepting(t)') <= Cardinality(Calls)
  BY Counted DEF Console!UsesBounded
<1>0. /\ console_uses[t] \in Nat /\ Cardinality(Calls) \in Nat
      /\ Console!Accepting(t) \in SUBSET Calls /\ Console!Accepting(t)' \in SUBSET Calls
      /\ Cardinality(Console!Accepting(t)) \in Nat /\ IsFiniteSet(Console!Accepting(t))
      /\ Cardinality(Console!Accepting(t)') \in Nat /\ IsFiniteSet(Console!Accepting(t)')
      /\ Cardinality(Console!Accepting(t)') <= Cardinality(Calls)
  BY Counted, PartsFinite DEF Console!TypeOK, Console!Accepting
<1>1. console_uses[t] + Cardinality(Console!Accepting(t)) <= Cardinality(Calls)
  BY Counted DEF Console!UsesBounded
<1>2. ASSUME console_uses' = console_uses, Console!Accepting(t)' \subseteq Console!Accepting(t)
      PROVE  console_uses'[t] + Cardinality(Console!Accepting(t)') <= Cardinality(Calls)
  <2>1. Cardinality(Console!Accepting(t)') <= Cardinality(Console!Accepting(t))
    BY <1>0, <1>2, FS_Subset
  <2> QED BY <1>0, <1>1, <1>2, <2>1
<1>3. CASE UNCHANGED Console!vars
  BY <1>2, <1>3 DEF Console!vars, Console!Accepting
<1>4. ASSUME NEW c \in Calls, Console!FindByToken(c)
      PROVE  console_uses'[t] + Cardinality(Console!Accepting(t)') <= Cardinality(Calls)
  <2>1. /\ console_uses' = console_uses /\ console_pc[c] = "idle"
        /\ console_held'[c] \in {console_link[u] : u \in Users}
        /\ \A d \in Calls :
             d # c => console_pc'[d] = console_pc[d] /\ console_held'[d] = console_held[d]
    BY <1>4 DEF Console!FindByToken, Console!Begin, Console!linkVars, Console!TypeOK
  <2>2. CASE console_held'[c] = t
    <3>1. console_uses[t] = 0
      BY <2>1, <2>2 DEF LinkInv, Unspent
    <3> QED BY <1>0, <2>1, <3>1
  <2>3. CASE console_held'[c] # t
    <3>1. Console!Accepting(t)' \subseteq Console!Accepting(t)
      BY <2>1, <2>3 DEF Console!Accepting
    <3> QED BY <1>2, <2>1, <3>1
  <2> QED BY <2>2, <2>3
<1>5. ASSUME NEW c \in Calls, Console!Accept(c)
      PROVE  console_uses'[t] + Cardinality(Console!Accepting(t)') <= Cardinality(Calls)
  <2>1. /\ console_pc[c] = "accept" /\ console_pc'[c] = "idle"
        /\ console_uses' = [console_uses EXCEPT ![console_held[c]] = @ + 1]
        /\ \A d \in Calls :
             d # c => console_pc'[d] = console_pc[d] /\ console_held'[d] = console_held[d]
    BY <1>5 DEF Console!Accept, Console!Finish, Console!TypeOK
  <2>2. CASE console_held[c] = t
    <3>1. c \in Console!Accepting(t) /\ Console!Accepting(t)' = Console!Accepting(t) \ {c}
      BY <2>1, <2>2 DEF Console!Accepting
    <3>2. Cardinality(Console!Accepting(t)') = Cardinality(Console!Accepting(t)) - 1
      BY <1>0, <3>1, FS_RemoveElement
    <3>3. console_uses'[t] = console_uses[t] + 1
      BY <2>1, <2>2 DEF Console!TypeOK
    <3> QED BY <1>0, <1>1, <3>2, <3>3
  <2>3. CASE console_held[c] # t
    <3>1. Console!Accepting(t)' = Console!Accepting(t)
      BY <2>1, <2>3 DEF Console!Accepting
    <3>2. console_uses'[t] = console_uses[t]
      BY <2>1, <2>3 DEF Console!TypeOK
    <3> QED BY <1>1, <3>1, <3>2
  <2> QED BY <2>2, <2>3
<1>6. ASSUME NEW c \in Calls,
             \/ \E u \in Users : Console!Request(c, u)
             \/ Console!Issue(c) \/ Console!Mail(c) \/ Console!AssertNotLastActiveAdmin(c)
             \/ Console!Deactivate(c)
             \/ Console!Delete(c) \/ Console!Reactivate(c) \/ Console!RowGone(c)
             \/ Console!CallDies(c)
      PROVE  console_uses'[t] + Cardinality(Console!Accepting(t)') <= Cardinality(Calls)
  <2>1. console_uses' = console_uses
    BY <1>6 DEF Console!Request, Console!Create, Console!SendConsoleInvite, Console!ReactivateFind,
       Console!Remove, Console!Issue, Console!Mail, Console!linkVars, 
                Console!AssertNotLastActiveAdmin, Console!Deactivate, Console!Delete,
                  Console!Reactivate, Console!RowGone, Console!CallDies
  <2>2. /\ console_pc'[c] # "accept"
        /\ \A d \in Calls :
             d # c => console_pc'[d] = console_pc[d] /\ console_held'[d] = console_held[d]
    BY <1>6 DEF Console!Request, Console!Create, Console!SendConsoleInvite, Console!ReactivateFind,
       Console!Remove, Console!Issue, Console!Mail, 
                Console!AssertNotLastActiveAdmin, Console!Deactivate, Console!Delete,
                  Console!Reactivate, Console!RowGone, Console!CallDies,
                Console!Begin, Console!Finish, Console!TypeOK
  <2>3. Console!Accepting(t)' \subseteq Console!Accepting(t)
    BY <2>2 DEF Console!Accepting
  <2> QED BY <1>2, <2>1, <2>3
<1> QED BY <1>3, <1>4, <1>5, <1>6 DEF Console!Next, Console!Call

-----------------------------------------------------------------------------
(* Administrators *)

\* What a removal does to the team: nothing, or it takes one administrator.
LEMMA RemovalTakesOne ==
  ASSUME Console!ConsoleAccountsAssumption, Console!TypeOK, HasSubject, NEW c \in Calls,
           Console!Deactivate(c) \/ Console!Delete(c)
  PROVE  /\ Console!ActiveAdmins' = Console!ActiveAdmins \ {console_subject[c]}
         /\ console_pc[c] \in Console!Removals /\ console_pc'[c] = "idle" /\ Console!Withdraw(c)
         /\ \A d \in Calls :
              d # c => console_pc'[d] = console_pc[d] /\ console_subject'[d] = console_subject[d]
<1>1. /\ \E s \in {"inactive", "deleted"} :
           console_account' = [console_account EXCEPT ![console_subject[c]] = s]
      /\ console_pc[c] \in Console!Removals /\ Console!Withdraw(c) /\ Console!Finish(c)
  BY DEF Console!Deactivate, Console!Delete, Console!Removals
<1>2. console_subject[c] \in Users
  BY <1>1 DEF HasSubject, Console!Removals
<1>3. Console!ActiveAdmins' = Console!ActiveAdmins \ {console_subject[c]}
  <2>1. \A u \in Users :
          console_account'[u] = "active" <=> console_account[u] = "active" /\ u # console_subject[c]
    BY <1>1, <1>2 DEF Console!TypeOK
  <2> QED BY <2>1 DEF Console!ActiveAdmins, Console!ConsoleAccountsAssumption
<1> QED BY <1>1, <1>3 DEF Console!Finish, Console!TypeOK

\* Every other step leaves the team's active administrators there.
LEMMA OthersTakeNone ==
  ASSUME Console!ConsoleAccountsAssumption, Console!TypeOK, HasSubject, NEW c \in Calls,
         \/ \E u \in Users : Console!Request(c, u)
         \/ Console!FindByToken(c) \/ Console!Accept(c) \/ Console!Issue(c) \/ Console!Mail(c)
         \/ Console!AssertNotLastActiveAdmin(c)
         \/ Console!Reactivate(c) \/ Console!RowGone(c) \/ Console!CallDies(c)
  PROVE  /\ Console!ActiveAdmins \subseteq Console!ActiveAdmins'
         /\ console_miscounted \ {c} \subseteq console_miscounted'
         /\ \A d \in Calls :
              d # c => console_pc'[d] = console_pc[d] /\ console_subject'[d] = console_subject[d]
<1>1. console_account' = console_account \/ \E u \in Users :
        console_account' = [console_account EXCEPT ![u] = "active"]
  BY DEF Console!Request, Console!Create, Console!SendConsoleInvite, Console!ReactivateFind,
     Console!Remove, Console!FindByToken, Console!Accept, Console!Issue, Console!Mail, 
         Console!AssertNotLastActiveAdmin, Console!Reactivate, Console!RowGone, Console!CallDies,
           HasSubject
<1>2. Console!ActiveAdmins \subseteq Console!ActiveAdmins'
  BY <1>1 DEF Console!ActiveAdmins, Console!TypeOK, Console!ConsoleAccountsAssumption
<1>3. console_miscounted \ {c} \subseteq console_miscounted'
  BY DEF Console!Request, Console!Create, Console!SendConsoleInvite, Console!ReactivateFind,
     Console!Remove, Console!FindByToken, Console!Accept, Console!Issue, Console!Mail, 
         Console!AssertNotLastActiveAdmin, Console!Reactivate, Console!RowGone, Console!CallDies,
           Console!Forget, Console!OvertakeAndForget, Console!readVars
<1>4. \A d \in Calls :
        d # c => console_pc'[d] = console_pc[d] /\ console_subject'[d] = console_subject[d]
  BY DEF Console!Request, Console!Create, Console!SendConsoleInvite, Console!ReactivateFind,
     Console!Remove, Console!FindByToken, Console!Accept, Console!Issue, Console!Mail, 
         Console!AssertNotLastActiveAdmin, Console!Reactivate, Console!RowGone, Console!CallDies,
           Console!Begin, Console!Finish, Console!TypeOK
<1> QED BY <1>2, <1>3, <1>4

\* A removal that nothing miscounted still leaves another administrator.
LEMMA CountHoldsNext ==
  ASSUME Console!ConsoleAccountsAssumption, Console!TypeOK, HasSubject, CountHolds,
           [Console!Next]_(Console!vars)
  PROVE  CountHolds'
<1>0. /\ IsFiniteSet(Console!ActiveAdmins) /\ Cardinality(Console!ActiveAdmins) \in Nat
      /\ IsFiniteSet(Console!ActiveAdmins') /\ Cardinality(Console!ActiveAdmins') \in Nat
  BY PartsFinite DEF Console!ActiveAdmins
<1>1. CASE UNCHANGED Console!vars
  BY <1>1 DEF Console!vars, CountHolds, Console!ActiveAdmins
<1>2. ASSUME NEW c \in Calls, Console!Deactivate(c) \/ Console!Delete(c) PROVE CountHolds'
  <2>1. CASE console_subject[c] \in Console!ActiveAdmins
    <3>1. \A d \in Calls : console_pc'[d] \in Console!Removals => d \in console_miscounted'
      BY <1>2, <2>1, RemovalTakesOne DEF Console!Withdraw, Console!Removals
    <3> QED BY <3>1 DEF CountHolds
  <2>2. CASE console_subject[c] \notin Console!ActiveAdmins
    <3>1. Console!ActiveAdmins' = Console!ActiveAdmins /\
            console_miscounted' = console_miscounted \ {c}
      BY <1>2, <2>2, RemovalTakesOne DEF Console!Withdraw
    <3> QED BY <1>2, <3>1, RemovalTakesOne DEF CountHolds, Console!Removals
  <2> QED BY <2>1, <2>2
<1>3. ASSUME NEW c \in Calls,
             Console!ActiveAdmins \subseteq Console!ActiveAdmins',
               console_miscounted \ {c} \subseteq console_miscounted',
             \A d \in Calls :
               d # c => console_pc'[d] = console_pc[d] /\ console_subject'[d] = console_subject[d],
             console_pc'[c] \in Console!Removals /\ console_subject'[c] \in Admins =>
               Cardinality(Console!ActiveAdmins) >= 2
      PROVE  CountHolds'
  <2>1. Cardinality(Console!ActiveAdmins) <= Cardinality(Console!ActiveAdmins')
    BY <1>0, <1>3, FS_Subset
  <2>2. ASSUME NEW d \in Calls, d \notin console_miscounted', console_pc'[d] \in Console!Removals,
                 console_subject'[d] \in Admins
        PROVE  Cardinality(Console!ActiveAdmins) >= 2
    <3>1. CASE d = c
      BY <1>3, <2>2, <3>1
    <3>2. CASE d # c
      BY <1>3, <2>2, <3>2 DEF CountHolds
    <3> QED BY <3>1, <3>2
  <2>3. ASSUME NEW d \in Calls, d \notin console_miscounted', console_pc'[d] \in Console!Removals,
                 console_subject'[d] \in Admins
        PROVE  Cardinality(Console!ActiveAdmins') >= 2
    BY <1>0, <2>1, <2>2, <2>3
  <2> QED BY <2>3 DEF CountHolds
<1>4. ASSUME NEW c \in Calls, Console!AssertNotLastActiveAdmin(c) PROVE CountHolds'
  <2>1. console_pc'[c] \in Console!Removals /\ console_subject'[c] \in Admins =>
          Cardinality(Console!ActiveAdmins) >= 2
    BY Counted, <1>0, <1>4 DEF Console!AssertNotLastActiveAdmin, Console!LastActiveAdmin, Console!Finish,
       Console!Removals, Console!TypeOK
  <2> QED BY <1>3, <1>4, <2>1, OthersTakeNone
<1>5. ASSUME NEW c \in Calls,
             \/ \E u \in Users : Console!Request(c, u)
             \/ Console!FindByToken(c) \/ Console!Accept(c) \/ Console!Issue(c) \/ Console!Mail(c)
             \/ Console!Reactivate(c) \/ Console!RowGone(c) \/ Console!CallDies(c)
      PROVE  CountHolds'
  <2>1. console_pc'[c] \notin Console!Removals
    BY <1>5 DEF Console!Request, Console!Create, Console!SendConsoleInvite, Console!ReactivateFind,
       Console!Remove, Console!FindByToken, Console!Accept, Console!Issue, 
                Console!Mail, Console!Reactivate, Console!RowGone, Console!CallDies, Console!Begin,
                  Console!Finish, Console!Removals, Console!TypeOK
  <2> QED BY <1>3, <1>5, <2>1, OthersTakeNone
<1> QED BY <1>1, <1>2, <1>4, <1>5 DEF Console!Next, Console!Call

\* Only a removal that miscounted can take the last administrator.
LEMMA LastAdminKeptNext ==
  ASSUME Console!ConsoleAccountsAssumption, Console!TypeOK, HasSubject, CountHolds, Console!Next
  PROVE  Console!LastAdminKept
<1> SUFFICES ASSUME Console!ActiveAdmins # {}, Console!ActiveAdmins' = {}
             PROVE  \E c \in console_miscounted :
                      console_pc[c] \in Console!Removals /\ console_pc'[c] = "idle"
  BY DEF Console!LastAdminKept
<1>1. PICK c \in Calls : Console!Call(c)
  BY DEF Console!Next
<1>2. Console!Deactivate(c) \/ Console!Delete(c)
  BY <1>1, OthersTakeNone DEF Console!Call
<1>3. c \in console_miscounted
  <2> SUFFICES ASSUME c \notin console_miscounted PROVE FALSE
    OBVIOUS
  <2>1. Console!ActiveAdmins' = Console!ActiveAdmins \ {console_subject[c]} /\
          console_pc[c] \in Console!Removals
    BY <1>2, RemovalTakesOne
  <2>2. console_subject[c] \in Console!ActiveAdmins
    BY <2>1
  <2>3. Cardinality(Console!ActiveAdmins) >= 2
    BY <2>1, <2>2 DEF CountHolds, Console!ActiveAdmins
  <2>4. IsFiniteSet(Console!ActiveAdmins) /\ Cardinality(Console!ActiveAdmins) \in Nat
    BY PartsFinite DEF Console!ActiveAdmins
  <2>5. Cardinality(Console!ActiveAdmins') = Cardinality(Console!ActiveAdmins) - 1
    BY <2>1, <2>2, <2>4, FS_RemoveElement
  <2>6. Cardinality(Console!ActiveAdmins') = 0
    BY FS_EmptySet
  <2> QED BY <2>3, <2>4, <2>5, <2>6
<1> QED BY <1>2, <1>3, RemovalTakesOne

\* Only a link that was never minted is stored.
LEMMA LinksNeverReturnNext ==
  ASSUME Console!TypeOK, HasSubject, Console!Next
  PROVE  Console!LinksNeverReturn
<1> SUFFICES ASSUME NEW t \in Console!Links, t <= console_minted, NEW u \in Users,
               console_link'[u] = t
             PROVE  \E v \in Users : console_link[v] = t
  BY DEF Console!LinksNeverReturn
<1>1. PICK c \in Calls : Console!Call(c)
  BY DEF Console!Next
<1>2. CASE Console!Issue(c)
  BY <1>2 DEF Console!Issue, Console!TypeOK, Console!Links
<1>3. CASE Console!Accept(c) \/ Console!Deactivate(c) \/ Console!Delete(c)
  <2>1. console_link' = [console_link EXCEPT ![console_subject[c]] = 0]
    BY <1>3 DEF Console!Accept, Console!Deactivate, Console!Delete
  <2> QED BY <2>1 DEF Console!TypeOK, Console!Links
<1>4. CASE \/ \E v \in Users : Console!Request(c, v)
           \/ Console!FindByToken(c) \/ Console!Mail(c) \/ Console!AssertNotLastActiveAdmin(c)
           \/ Console!Reactivate(c) \/ Console!RowGone(c) \/ Console!CallDies(c)
  BY <1>4 DEF Console!Request, Console!Create, Console!SendConsoleInvite, Console!ReactivateFind,
     Console!Remove, Console!FindByToken, Console!Mail, 
              Console!AssertNotLastActiveAdmin, Console!Reactivate, Console!RowGone,
                Console!CallDies
<1> QED BY <1>1, <1>2, <1>3, <1>4 DEF Console!Call

-----------------------------------------------------------------------------
(* A whole step *)

\* The inductive invariant of a team's accounts: whose link is whose, how often
\* each was used, and what the removals counted.
LEMMA LinksIInvNext ==
  ASSUME Console!ConsoleAccountsAssumption, LinksIInv, [Console!Next]_(Console!vars)
  PROVE  LinksIInv'
BY ConsoleTypeNext, LinkInvNext, UsesBoundedNext, CountHoldsNext, RoomLeftNext DEF LinksIInv,
   LinkInv

\* No call has begun, and no link is minted.
LEMMA LinksIInvInit ==
  ASSUME Console!ConsoleAccountsAssumption, Console!Init
  PROVE  LinksIInv
<1>0. MaxLinks \in Nat /\ 0 \in 0 .. MaxLinks
  BY DEF Console!ConsoleAccountsAssumption
<1>1. Console!TypeOK
  BY <1>0 DEF Console!Init, Console!TypeOK, Console!Steps
<1>2. \A c \in Calls : console_pc[c] = "idle"
  BY DEF Console!Init
<1>3. CallOwner /\ HeldMinted /\ HasSubject /\ IssuesActive /\ Console!AcceptsCurrentLink /\
        CountHolds
  BY <1>2 DEF CallOwner, HeldMinted, HasSubject, IssuesActive, Console!AcceptsCurrentLink,
     CountHolds, Console!Removals
<1>4. LinksMinted /\ OneHolder /\ MailOwner /\ MailMinted /\ Console!WithdrawnHoldsNoLink /\ Unspent
  BY DEF Console!Init, LinksMinted, OneHolder, MailOwner, MailMinted, Console!WithdrawnHoldsNoLink,
     Unspent
<1>5. \A t \in Console!Links : Console!Accepting(t) = {}
  BY <1>2 DEF Console!Accepting
<1>6. Issuing = {}
  BY <1>2 DEF Issuing
<1>7. Console!UsesBounded /\ RoomLeft
  BY Counted, <1>0, <1>5, <1>6, PartsFinite, FS_EmptySet DEF Console!Init, Console!UsesBounded, RoomLeft
<1> QED BY <1>1, <1>3, <1>4, <1>7 DEF LinksIInv, LinkInv

\* What a step of a team may not do.
LEMMA TeamStepNext ==
  ASSUME Console!ConsoleAccountsAssumption, LinksIInv, Console!Next
  PROVE  Console!TeamStep
BY LastAdminKeptNext, LinksNeverReturnNext DEF LinksIInv, LinkInv, Console!TeamStep

\* Whose link is whose, how often each was used and what removals counted stay true.
THEOREM LinksInductive == AccountsSpec => [](focus = "console" => LinksIInv)
<1> DEFINE I == focus = "console" => LinksIInv
<1>1. AccountsInit => I
  BY AccountsAssumption, Begun, LinksIInvInit DEF AccountsAssumption
<1>2. I /\ [AccountsNext]_allVars => I'
  BY AccountsAssumption, Focused, LinksIInvNext DEF AccountsAssumption
<1> QED BY <1>1, <1>2, PTL DEF AccountsSpec

\* An invitation opens the account of whom it was mailed to, and no other.
LEMMA OpensOwnAccount ==
  ASSUME LinksIInv
  PROVE  Links!OpensOwnOnly
<1>1. ASSUME NEW invitation \in console_mailed, NEW u \in Users, console_link[u] = invitation[2]
      PROVE  u = invitation[1]
  <2>1. PICK v \in Users, t \in Console!Links : invitation = <<v, t>>
    BY DEF LinksIInv, Console!TypeOK
  <2>2. <<v, console_link[u]>> \in console_mailed
    BY <1>1, <2>1
  <2> QED BY <2>1, <2>2 DEF LinksIInv, LinkInv, MailOwner
<1> QED BY <1>1 DEF Links!OpensOwnOnly, LinksIInv, LinkInv, OneHolder

\* To mint, to mail and to use up or withdraw an invitation is all that calls on accounts do
\* to links.
LEMMA InvitationsNext ==
  ASSUME LinksIInv, [Console!Next]_(Console!vars)
  PROVE  [Links!Next]_(Links!vars)
<1> USE DEF Links!vars
<1>1. CASE UNCHANGED Console!vars
  BY <1>1 DEF Console!vars
<1>2. ASSUME NEW c \in Calls, Console!Call(c) PROVE [Links!Next]_(Links!vars)
  <2>1. CASE Console!Issue(c)
    <3>1. console_subject[c] \in Users
      BY <2>1 DEF Console!Issue, LinksIInv, LinkInv, HasSubject
    <3>2. Links!Mint(console_subject[c])
      BY <2>1 DEF Console!Issue, Links!Mint
    <3> QED BY <3>1, <3>2 DEF Links!Next
  <2>2. CASE Console!Mail(c)
    <3>1. CASE console_mailed' = console_mailed
      BY <2>2, <3>1 DEF Console!Mail
    <3>2. CASE console_mailed' = console_mailed \cup {<<console_subject[c], console_held[c]>>}
      <4>1. console_subject[c] \in Users /\ console_held[c] \in 1 .. console_minted
        BY <2>2 DEF Console!Mail, LinksIInv, LinkInv, HasSubject, HeldMinted
      <4>2. \A u \in Users \ {console_subject[c]} : console_link[u] # console_held[c]
        BY <2>2 DEF Console!Mail, LinksIInv, LinkInv, CallOwner
      <4>3. Links!Mail(console_subject[c], console_held[c])
        BY <2>2, <3>2, <4>1, <4>2 DEF Console!Mail, Links!Mail
      <4> QED BY <4>1, <4>3 DEF Links!Next
    <3> QED BY <2>2, <3>1, <3>2 DEF Console!Mail
  <2>3. CASE Console!Accept(c) \/ Console!Deactivate(c) \/ Console!Delete(c)
    <3>1. /\ console_link' = [console_link EXCEPT ![console_subject[c]] = 0]
          /\ UNCHANGED <<console_minted, console_mailed>>
      BY <2>3 DEF Console!Accept, Console!Deactivate, Console!Delete, Console!linkVars
    <3>2. console_link' = [u \in Users |-> IF u \in {console_subject[c]} THEN 0 ELSE console_link[u]]
      BY <3>1 DEF LinksIInv, Console!TypeOK
    <3>3. Links!Revoke({console_subject[c]} \cap Users)
      BY <3>1, <3>2 DEF Links!Revoke
    <3> QED BY <3>3 DEF Links!Next
  <2>4. CASE \/ \E u \in Users : Console!Request(c, u)
             \/ Console!FindByToken(c) \/ Console!AssertNotLastActiveAdmin(c)
             \/ Console!Reactivate(c) \/ Console!RowGone(c) \/ Console!CallDies(c)
    BY <2>4 DEF Console!Request, Console!Create, Console!SendConsoleInvite,
       Console!ReactivateFind, Console!Remove, Console!FindByToken,
       Console!AssertNotLastActiveAdmin, Console!Reactivate, Console!RowGone,
       Console!CallDies, Console!linkVars
  <2> QED BY <1>2, <2>1, <2>2, <2>3, <2>4 DEF Console!Call
<1> QED BY <1>1, <1>2 DEF Console!Next

\* A withdrawn account holds no link but a late one, a link sets no more passwords than
\* calls found it together, an acceptance that nothing overtook acts on the account's
\* current, mailed link, and no link opens another's account.
THEOREM LinksKept == AccountsSpec => []LinksHold
<1>1. (focus = "console" => LinksIInv) => LinksHold
  BY OpensOwnAccount DEF LinksHold, LinksIInv, LinkInv, Console!LinksHold
<1> QED BY <1>1, LinksInductive, PTL

\* Invitations to the console implement the contract of links: a behaviour of console accounts is
\* one of LinkContract, where every step mints, mails, ends links or leaves them alone.
THEOREM ConsoleImplementsLinks == AccountsSpec => (focus = "console" => Links!Spec)
<1>1. AccountsInit => (focus = "console" => Links!Init)
  BY Begun DEF Console!Init, Links!Init
<1>2. (focus = "console" => LinksIInv) /\ [AccountsNext]_allVars =>
        /\ focus = "console" => (focus = "console")'
        /\ focus = "console" => [Links!Next]_(Links!vars)
  BY Focused, InvitationsNext
<1> QED BY <1>1, <1>2, LinksInductive, PTL DEF AccountsSpec, Links!Spec

\* A team loses its last active administrator only to a removal whose count another removal
\* had overtaken, a link that is gone never comes back, and links keep their contract.
THEOREM TeamStepsKept == AccountsSpec => TeamSteps
<1>1. (focus = "console" => LinksIInv) /\ [AccountsNext]_allVars => [focus = "console" => Console!TeamStep]_allVars
  BY AccountsAssumption, StepsOfOne, TeamStepNext DEF AccountsAssumption
<1>2. AccountsInit => (focus = "console" => Links!Init)
  BY Begun DEF Console!Init, Links!Init
<1>3. (focus = "console" => LinksIInv) /\ [AccountsNext]_allVars =>
        [focus = "console" => [Links!Next]_(Links!vars)]_allVars
  BY Focused, InvitationsNext
<1> QED BY <1>1, <1>2, <1>3, LinksInductive, PTL DEF AccountsSpec, TeamSteps

-----------------------------------------------------------------------------
(* Sign-up *)

\* A sign-up about to add its administrator made the workspace, with its address; and one
\* that nobody has beaten found its address free wherever it has looked.
SigningHolds ==
  \A c \in Calls :
    /\ signup_pc[c] # "idle" => signup_mail[c] \in Emails
    /\ signup_pc[c] = "admin" =>
         signup_workspace[c] \in Workspaces /\ signup_tenants[signup_workspace[c]] = signup_mail[c]
    /\ c \notin signup_beaten =>
         /\ signup_pc[c] \in Joining!LookedAtStaff => signup_mail[c] \notin signup_staff
         /\ signup_pc[c] \in Joining!LookedAtClients => ~Joining!HasAccount(signup_mail[c])

\* The invariant of sign-ups.
SignUpIInv == Joining!TypeOK /\ SigningHolds /\ Joining!SignedUpHasAdmin

\* The next step of a sign-up changes no other.
LEMMA GoesOn ==
  ASSUME Joining!TypeOK, NEW c \in Calls, NEW step, Joining!Goes(c, step)
  PROVE  signup_pc'[c] = step /\ \A e \in Calls : e # c => signup_pc'[e] = signup_pc[e]
BY DEF Joining!Goes, Joining!TypeOK

\* Every step of a sign-up, of staff and of administrators keeps it.
LEMMA SignUpIInvNext ==
  ASSUME Joining!SignUpAssumption, SignUpIInv, [Joining!Next]_(Joining!vars)
  PROVE  SignUpIInv'
<1> USE DEF SignUpIInv, Joining!LookedAtStaff, Joining!LookedAtClients
<1>1. CASE UNCHANGED Joining!vars
  BY <1>1 DEF Joining!vars, Joining!TypeOK, SigningHolds, Joining!SignedUpHasAdmin,
     Joining!HasAccount
<1>2. ASSUME NEW c \in Calls, Joining!CheckStaff(c) PROVE SignUpIInv'
  <2>1. PICK e \in Emails : /\ signup_mail' = [signup_mail EXCEPT ![c] = e]
                            /\ Joining!Goes(c, IF e \in signup_staff THEN "idle" ELSE "clients")
    BY <1>2 DEF Joining!CheckStaff
  <2>2. /\ signup_pc'[c] = (IF e \in signup_staff THEN "idle" ELSE "clients") /\ signup_mail'[c] = e
        /\ \A d \in Calls :
             d # c => signup_pc'[d] = signup_pc[d] /\ signup_mail'[d] = signup_mail[d]
        /\ signup_beaten' = signup_beaten \ {c}
        /\ UNCHANGED <<signup_staff, signup_users, signup_tenants, signup_workspace, signup_abandoned>>
        /\ signup_pc[c] = "idle"
    BY <1>2, <2>1, GoesOn DEF Joining!CheckStaff, Joining!TypeOK
  <2>3. Joining!TypeOK'
    BY <2>1, <2>2 DEF Joining!TypeOK, Joining!Goes
  <2>4. SigningHolds' /\ Joining!SignedUpHasAdmin'
    BY <2>2 DEF SigningHolds, Joining!SignedUpHasAdmin, Joining!HasAccount
  <2> QED BY <2>3, <2>4
<1>3. ASSUME NEW c \in Calls, Joining!CheckClients(c) PROVE SignUpIInv'
  <2>1. /\ signup_pc[c] = "clients"
        /\ signup_pc'[c] = (IF Joining!HasAccount(signup_mail[c]) THEN "idle" ELSE "create")
        /\ \A d \in Calls : d # c => signup_pc'[d] = signup_pc[d]
        /\ UNCHANGED <<signup_staff, signup_users, signup_tenants, signup_mail, signup_workspace, signup_abandoned, signup_beaten>>
    BY <1>3, GoesOn DEF Joining!CheckClients, Joining!CheckClientsThat
  <2>2. Joining!TypeOK'
    BY <1>3 DEF Joining!CheckClients, Joining!CheckClientsThat, Joining!Goes, Joining!TypeOK
  <2>3. SigningHolds' /\ Joining!SignedUpHasAdmin'
    BY <2>1 DEF SigningHolds, Joining!SignedUpHasAdmin, Joining!HasAccount
  <2> QED BY <2>2, <2>3
<1>4. ASSUME NEW c \in Calls, Joining!CreateTenant(c) PROVE SignUpIInv'
  <2>1. PICK w \in Workspaces : /\ signup_tenants[w] = "absent"
                                /\ signup_tenants' = [signup_tenants EXCEPT ![w] = signup_mail[c]]
                                /\ signup_workspace' = [signup_workspace EXCEPT ![c] = w]
    BY <1>4 DEF Joining!CreateTenant, Joining!There
  <2>2. /\ signup_pc[c] = "create" /\ signup_pc'[c] = "admin" /\ \A d \in Calls :
             d # c => signup_pc'[d] = signup_pc[d]
        /\ signup_mail[c] \in Emails
        /\ UNCHANGED <<signup_staff, signup_users, signup_mail, signup_abandoned, signup_beaten>>
    BY <1>4, GoesOn DEF Joining!CreateTenant, SigningHolds
  <2>3. Joining!TypeOK'
    BY <1>4, <2>1, <2>2 DEF Joining!CreateTenant, Joining!Goes, Joining!TypeOK
  <2>4. /\ signup_workspace'[c] = w /\ signup_tenants'[w] = signup_mail[c]
        /\ \A d \in Calls : d # c => signup_workspace'[d] = signup_workspace[d]
        /\ \A v \in Workspaces : v # w => signup_tenants'[v] = signup_tenants[v]
    BY <2>1 DEF Joining!TypeOK
  <2>5. \A d \in Calls : signup_pc[d] = "admin" => signup_workspace[d] # w
    BY <2>1 DEF SigningHolds, Joining!SignUpAssumption
  <2>6. SigningHolds' /\ Joining!SignedUpHasAdmin'
    BY <2>2, <2>4, <2>5 DEF SigningHolds, Joining!SignedUpHasAdmin, Joining!HasAccount
  <2> QED BY <2>3, <2>6
<1>5. ASSUME NEW c \in Calls, Joining!CreateAdmin(c) PROVE SignUpIInv'
  <2>1. /\ signup_pc[c] = "admin" /\ signup_pc'[c] = "idle" /\ \A d \in Calls :
             d # c => signup_pc'[d] = signup_pc[d]
        /\ signup_users' = signup_users \cup {<<signup_workspace[c], signup_mail[c]>>}
        /\ signup_beaten' = signup_beaten \cup (Joining!Beaten(signup_mail[c], Joining!LookedAtClients) \ {c})
        /\ UNCHANGED <<signup_staff, signup_tenants, signup_mail, signup_workspace, signup_abandoned>>
        /\ signup_workspace[c] \in Workspaces
        /\ signup_tenants[signup_workspace[c]] = signup_mail[c] /\ signup_mail[c] \in Emails
    BY <1>5, GoesOn DEF Joining!CreateAdmin, SigningHolds
  <2>2. Joining!TypeOK'
    BY <1>5, <2>1 DEF Joining!CreateAdmin, Joining!Goes, Joining!TypeOK, Joining!Beaten
  <2>3. Joining!SignedUpHasAdmin'
    BY <2>1 DEF Joining!SignedUpHasAdmin
  <2>4. \A d \in Calls :
          d # c /\ d \notin signup_beaten' /\ signup_pc[d] \in Joining!LookedAtClients =>
            signup_mail[d] # signup_mail[c]
    BY <2>1 DEF Joining!Beaten
  <2>5. \A e \in Emails : e # signup_mail[c] => (Joining!HasAccount(e)' <=> Joining!HasAccount(e))
    BY <2>1 DEF Joining!HasAccount
  <2>6. SigningHolds'
    BY <2>1, <2>4, <2>5 DEF SigningHolds
  <2> QED BY <2>2, <2>3, <2>6
<1>6. ASSUME NEW c \in Calls, Joining!Dies(c) PROVE SignUpIInv'
  <2>1. /\ signup_pc'[c] = "idle" /\ \A d \in Calls : d # c => signup_pc'[d] = signup_pc[d]
        /\ signup_abandoned' = IF signup_pc[c] = "admin" THEN signup_abandoned \cup {signup_workspace[c]} ELSE signup_abandoned
        /\ UNCHANGED <<signup_staff, signup_users, signup_tenants, signup_mail, signup_workspace, signup_beaten>>
    BY <1>6, GoesOn DEF Joining!Dies
  <2>2. Joining!TypeOK'
    BY <1>6, <2>1 DEF Joining!Dies, Joining!Goes, Joining!TypeOK, SigningHolds
  <2>3. SigningHolds' /\ Joining!SignedUpHasAdmin'
    BY <2>1 DEF SigningHolds, Joining!SignedUpHasAdmin, Joining!HasAccount
  <2> QED BY <2>2, <2>3
<1>7. CASE Joining!CreateStaff
  <2>1. PICK e \in Emails \ signup_staff :
               signup_staff' = signup_staff \cup {e} /\
                 signup_beaten' = signup_beaten \cup Joining!Beaten(e, Joining!LookedAtStaff)
    BY <1>7 DEF Joining!CreateStaff
  <2>2. UNCHANGED <<signup_users, signup_tenants, signup_pc, signup_mail, signup_workspace, signup_abandoned>>
    BY <1>7 DEF Joining!CreateStaff, Joining!callVars
  <2>3. Joining!TypeOK'
    BY <2>1, <2>2 DEF Joining!TypeOK, Joining!Beaten
  <2>4. SigningHolds' /\ Joining!SignedUpHasAdmin'
    BY <2>1, <2>2 DEF SigningHolds, Joining!SignedUpHasAdmin, Joining!HasAccount, Joining!Beaten
  <2> QED BY <2>3, <2>4
<1>8. CASE Joining!CreateClient
  <2>1. PICK w \in Workspaces :
               signup_tenants[w] = "absent" /\
                 signup_tenants' = [signup_tenants EXCEPT ![w] = "staff"]
    BY <1>8 DEF Joining!CreateClient, Joining!There
  <2>2. UNCHANGED <<signup_staff, signup_users, signup_pc, signup_mail, signup_workspace, signup_abandoned, signup_beaten>>
    BY <1>8 DEF Joining!CreateClient, Joining!callVars
  <2>3. Joining!TypeOK'
    BY <2>1, <2>2 DEF Joining!TypeOK
  <2>4. /\ signup_tenants'[w] = "staff" /\ "staff" \notin Emails /\ "absent" \notin Emails
        /\ \A v \in Workspaces : v # w => signup_tenants'[v] = signup_tenants[v]
    BY <2>1 DEF Joining!TypeOK, Joining!SignUpAssumption
  <2>5. \A d \in Calls : signup_pc[d] = "admin" => signup_workspace[d] # w
    BY <2>1, <2>4 DEF SigningHolds
  <2>6. \A d \in Calls :
          signup_pc[d] = "admin" =>
            signup_tenants'[signup_workspace[d]] = signup_tenants[signup_workspace[d]]
    BY <2>4, <2>5 DEF SigningHolds
  <2>7. SigningHolds'
    BY <2>2, <2>6 DEF SigningHolds, Joining!HasAccount
  <2>8. Joining!SignedUpHasAdmin'
    BY <2>2, <2>4 DEF Joining!SignedUpHasAdmin
  <2> QED BY <2>3, <2>7, <2>8
<1>9. CASE Joining!CreateTenantUser
  <2>1. PICK w \in Workspaces, e \in Emails : /\ signup_users' = signup_users \cup {<<w, e>>}
                                              /\ signup_beaten' = signup_beaten \cup Joining!Beaten(e, Joining!LookedAtClients)
    BY <1>9 DEF Joining!CreateTenantUser
  <2>2. UNCHANGED <<signup_staff, signup_tenants, signup_pc, signup_mail, signup_workspace, signup_abandoned>>
    BY <1>9 DEF Joining!CreateTenantUser, Joining!callVars
  <2>3. Joining!TypeOK'
    BY <2>1, <2>2 DEF Joining!TypeOK, Joining!Beaten
  <2>4. \A f \in Emails : f # e => (Joining!HasAccount(f)' <=> Joining!HasAccount(f))
    BY <2>1 DEF Joining!HasAccount
  <2>5. SigningHolds' /\ Joining!SignedUpHasAdmin'
    BY <2>1, <2>2, <2>4 DEF SigningHolds, Joining!SignedUpHasAdmin, Joining!Beaten
  <2> QED BY <2>3, <2>5
<1> QED BY <1>1, <1>2, <1>3, <1>4, <1>5, <1>6, <1>7, <1>8, <1>9 DEF Joining!Next

\* Only the sign-up itself adds its administrator.
LEMMA SignsUpNew ==
  ASSUME SignUpIInv, Joining!Next
  PROVE  Joining!SignsUpNewAddress
<1> SUFFICES ASSUME NEW c \in Calls \ signup_beaten, signup_pc[c] = "admin",
               signup_users' # signup_users, signup_pc'[c] = "idle"
             PROVE  signup_mail[c] \notin signup_staff /\ ~Joining!HasAccount(signup_mail[c])
  BY DEF Joining!SignsUpNewAddress
<1> QED BY DEF SignUpIInv, SigningHolds, Joining!LookedAtStaff, Joining!LookedAtClients

\* Nobody has signed up.
LEMMA SignUpIInvInit ==
  ASSUME Joining!SignUpAssumption, Joining!Init
  PROVE  SignUpIInv
<1>1. Joining!TypeOK
  BY DEF Joining!Init, Joining!TypeOK
<1>2. SigningHolds /\ Joining!SignedUpHasAdmin
  BY DEF Joining!Init, SigningHolds, Joining!SignedUpHasAdmin, Joining!LookedAtStaff,
     Joining!LookedAtClients, Joining!SignUpAssumption
<1> QED BY <1>1, <1>2 DEF SignUpIInv

\* What sign-ups know of their address, and who their administrators are, stays true.
THEOREM SignUpInductive == AccountsSpec => [](focus = "signup" => SignUpIInv)
<1> DEFINE I == focus = "signup" => SignUpIInv
<1>1. AccountsInit => I
  BY AccountsAssumption, Begun, SignUpIInvInit DEF AccountsAssumption
<1>2. I /\ [AccountsNext]_allVars => I'
  BY AccountsAssumption, Focused, SignUpIInvNext DEF AccountsAssumption
<1> QED BY <1>1, <1>2, PTL DEF AccountsSpec

\* A sign-up adds an administrator only for an address that nobody has, unless it was overtaken,
\* and a workspace that somebody signed up for has its administrator, or its sign-up goes on or died.
THEOREM SignUpKept == AccountsSpec => SignUpHolds
<1>1. (focus = "signup" => SignUpIInv) /\ [AccountsNext]_allVars => [focus = "signup" => Joining!SignsUpNewAddress]_allVars
  BY AccountsAssumption, StepsOfOne, SignsUpNew DEF AccountsAssumption
<1>2. (focus = "signup" => SignUpIInv) => (focus = "signup" => Joining!SignUpInv)
  BY DEF Joining!SignUpInv, SignUpIInv
<1> QED BY <1>1, <1>2, SignUpInductive, PTL DEF AccountsSpec, SignUpHolds

-----------------------------------------------------------------------------
(* The rate limiter *)

\* A request that was let through was one of its counter's window, and windows of
\* a counter do not overlap; the counter still counts the last of them.
PassCounted == \A i \in DOMAIN limiter_passed : LET e == limiter_passed[i] IN
  /\ e.store \in Limiter!Stores /\ e.number <= Limit
  /\ e.at <= limiter_now /\ e.at < e.expires /\ e.expires <= e.at + Window
  /\ limiter_counter[e.store].count > 0
  /\ e.expires <= limiter_counter[e.store].expires
  /\ e.expires < limiter_counter[e.store].expires =>
       e.expires + Window <= limiter_counter[e.store].expires
  /\ e.expires = limiter_counter[e.store].expires =>
       e.number <= limiter_counter[e.store].count
PassesApart == \A i, j \in DOMAIN limiter_passed :
  LET e == limiter_passed[i]
      f == limiter_passed[j] IN
  e.store = f.store =>
    /\ e.expires < f.expires => e.expires + Window <= f.expires
    /\ e.expires = f.expires /\ e.number = f.number => i = j

LimiterIInv ==
  /\ Limiter!TypeOK /\ Limiter!RefusalEnds
  /\ ~limiter_forgot => PassCounted /\ PassesApart

\* RateLimit's cardinalities are those of the facts about finite sets.
LEMMA SameCardinality ==
  \A S : /\ Limiter!Cardinality(S) = Cardinality(S)
         /\ Limiter!IsFiniteSet(S) <=> IsFiniteSet(S)
BY DEF Limiter!Cardinality, Cardinality, Limiter!IsFiniteSet, IsFiniteSet

\* What is let through in a stretch as long as a window expires in the next two, and a
\* counter has one expiry at most in each: the requests are told apart by their
\* counter, which of the two it is, and their number.
LEMMA TwoWindows ==
  ASSUME Limiter!RateLimitAssumption, LimiterIInv, ~limiter_forgot,
         NEW t \in Limiter!Times
  PROVE  Cardinality(Limiter!InWindow(t)) <= 2 * Limit * Cardinality(Limiter!Stores)
<1> DEFINE S == Limiter!InWindow(t)
           half(i) == IF limiter_passed[i].expires <= t + Window THEN 1 ELSE 2
           T == (Limiter!Stores \X (1 .. 2)) \X (1 .. Limit)
           slot == [i \in S |-> <<<<limiter_passed[i].store, half(i)>>, limiter_passed[i].number>>]
<1>1. /\ Limit \in Nat /\ Window \in Nat /\ Window > 0 /\ t \in Nat
      /\ IsFiniteSet(Runners)
  <2>1. IsFiniteSet(Runners)
    BY SameCardinality DEF Limiter!RateLimitAssumption
  <2>2. Limit \in Nat \ {0} /\ Window \in Nat \ {0}
    BY DEF Limiter!RateLimitAssumption
  <2>3. t \in Nat
    BY DEF Limiter!Times
  <2> QED BY <2>1, <2>2, <2>3
<1>2. limiter_passed \in Seq(Limiter!Pass)
  BY DEF LimiterIInv, Limiter!TypeOK
<1>3. \A i \in S :
        /\ i \in DOMAIN limiter_passed
        /\ limiter_passed[i] \in Limiter!Pass
        /\ limiter_passed[i].store \in Limiter!Stores
        /\ limiter_passed[i].number \in 1 .. Limit
        /\ limiter_passed[i].expires \in Nat
        /\ t < limiter_passed[i].expires
        /\ limiter_passed[i].expires < t + 2 * Window
  <2> SUFFICES ASSUME NEW i \in S
               PROVE  /\ i \in DOMAIN limiter_passed
                      /\ limiter_passed[i] \in Limiter!Pass
                      /\ limiter_passed[i].store \in Limiter!Stores
                      /\ limiter_passed[i].number \in 1 .. Limit
                      /\ limiter_passed[i].expires \in Nat
                      /\ t < limiter_passed[i].expires
                      /\ limiter_passed[i].expires < t + 2 * Window
    OBVIOUS
  <2>1. i \in DOMAIN limiter_passed /\ t <= limiter_passed[i].at
          /\ limiter_passed[i].at < t + Window
    BY DEF Limiter!InWindow
  <2>2. limiter_passed[i] \in Limiter!Pass
    BY <1>2, <2>1
  <2>3. /\ limiter_passed[i].at \in Nat /\ limiter_passed[i].expires \in Nat
        /\ limiter_passed[i].number \in Nat /\ limiter_passed[i].number >= 1
    BY <2>2 DEF Limiter!Pass, Limiter!Times
  <2>4. /\ limiter_passed[i].store \in Limiter!Stores /\ limiter_passed[i].number <= Limit
        /\ limiter_passed[i].at < limiter_passed[i].expires
        /\ limiter_passed[i].expires <= limiter_passed[i].at + Window
    BY <2>1 DEF LimiterIInv, PassCounted
  <2> QED BY <1>1, <2>1, <2>2, <2>3, <2>4
<1>4. slot \in [S -> T]
  <2>1. \A i \in S : half(i) \in 1 .. 2
    OBVIOUS
  <2> QED BY <1>3, <2>1
<1>5. ASSUME NEW i \in S, NEW j \in S, slot[i] = slot[j]
      PROVE  i = j
  <2> DEFINE e == limiter_passed[i]
             f == limiter_passed[j]
  <2>1. e.store = f.store /\ half(i) = half(j) /\ e.number = f.number
    BY <1>5
  <2>2. ~(e.expires + Window <= f.expires) /\ ~(f.expires + Window <= e.expires)
    BY <1>1, <1>3, <2>1
  <2>3. /\ i \in DOMAIN limiter_passed /\ j \in DOMAIN limiter_passed
        /\ e.expires \in Nat /\ f.expires \in Nat
    BY <1>3
  <2>4. ~(e.expires < f.expires) /\ ~(f.expires < e.expires)
    BY <2>1, <2>2, <2>3 DEF LimiterIInv, PassesApart
  <2>5. e.expires = f.expires
    BY <2>3, <2>4
  <2> QED BY <2>1, <2>3, <2>5 DEF LimiterIInv, PassesApart
<1>6. slot \in Injection(S, T)
  BY <1>4, <1>5 DEF Injection, IsInjective
<1>7. IsFiniteSet(T) /\ Cardinality(T) = (Cardinality(Limiter!Stores) * 2) * Limit
  <2>1. IsFiniteSet(Limiter!Stores)
    BY <1>1, FS_Singleton DEF Limiter!Stores
  <2>2. IsFiniteSet(1 .. 2) /\ Cardinality(1 .. 2) = 2
    <3>1. /\ IsFiniteSet(1 .. 2)
          /\ Cardinality(1 .. 2) = IF 1 > 2 THEN 0 ELSE 2 - 1 + 1
      BY ONLY FS_Interval, 1 \in Int, 2 \in Int
    <3> QED BY <3>1
  <2>3. IsFiniteSet(1 .. Limit) /\ Cardinality(1 .. Limit) = Limit
    BY <1>1, FS_Interval
  <2>4. /\ IsFiniteSet(Limiter!Stores \X (1 .. 2))
        /\ Cardinality(Limiter!Stores \X (1 .. 2)) = Cardinality(Limiter!Stores) * 2
    BY <2>1, <2>2, FS_Product
  <2>5. /\ IsFiniteSet(T)
        /\ Cardinality(T) = Cardinality(Limiter!Stores \X (1 .. 2)) * Cardinality(1 .. Limit)
    BY <2>3, <2>4, FS_Product
  <2> QED BY <2>3, <2>4, <2>5
<1>8. Cardinality(S) <= Cardinality(T)
  BY <1>6, <1>7, FS_Injection
<1>9. Cardinality(Limiter!Stores) \in Nat
  BY <1>1, FS_Singleton, FS_CardinalityType DEF Limiter!Stores
<1>10. \A n \in Nat : (n * 2) * Limit = 2 * Limit * n
  BY <1>1
<1> QED BY <1>7, <1>8, <1>9, <1>10

\* Counting begins a window with its expiry, or goes on in the one that is there.
LEMMA CountedIn ==
  ASSUME Limiter!RateLimitAssumption, LimiterIInv, NEW p \in Runners, Limiter!Admit(p)
  PROVE  LET k == Limiter!StoreOf(p)
             n == Limiter!Counted(k)
             x == Limiter!Expires(k) IN
         /\ k \in Limiter!Stores /\ k \in Limiter!Counters
         /\ n \in 1 .. MaxHits /\ x \in Nat
         /\ limiter_now < x /\ x <= limiter_now + Window
         /\ \/ /\ n = 1 /\ x = limiter_now + Window
               /\ \/ limiter_counter[k].count = 0
                  \/ limiter_counter[k].expires <= limiter_now
            \/ /\ n = limiter_counter[k].count + 1 /\ n > 1
               /\ x = limiter_counter[k].expires
<1> DEFINE k == Limiter!StoreOf(p)
           n == Limiter!Counted(k)
           x == Limiter!Expires(k)
<1>1. k \in Limiter!Stores /\ k \in Limiter!Counters
  BY DEF Limiter!StoreOf, Limiter!Stores, Limiter!Counters
<1>2. /\ limiter_counter[k].count \in Nat
      /\ limiter_counter[k].expires \in Nat \cup {None}
      /\ limiter_now \in Nat /\ Window \in Nat /\ Window > 0
      /\ MaxHits \in Nat
      /\ None \notin Nat
  BY <1>1 DEF LimiterIInv, Limiter!TypeOK, Limiter!Counter, Limiter!Times,
              Limiter!RateLimitAssumption
<1>3. n <= MaxHits
  BY DEF Limiter!Admit, Limiter!AdmitThat
<1>4. CASE limiter_counter[k].count = 0
  BY <1>1, <1>2, <1>3, <1>4 DEF Limiter!Counted, Limiter!Expires
<1>5. CASE limiter_counter[k].count > 0
  <2>1. /\ limiter_counter[k].expires \in Nat
        /\ limiter_counter[k].expires <= limiter_now + Window
    BY <1>1, <1>2, <1>5 DEF LimiterIInv, Limiter!RefusalEnds
  <2>2. CASE limiter_counter[k].expires <= limiter_now
    BY <1>1, <1>2, <1>3, <2>1, <2>2 DEF Limiter!Counted, Limiter!Expires, Limiter!Expired
  <2>3. CASE limiter_counter[k].expires > limiter_now
    BY <1>1, <1>2, <1>3, <1>5, <2>1, <2>3
       DEF Limiter!Counted, Limiter!Expires, Limiter!Expired
  <2> QED BY <1>2, <2>1, <2>2, <2>3
<1> QED BY <1>2, <1>4, <1>5

\* A request that is counted is told apart from the others of its counter.
LEMMA AdmitKeeps ==
  ASSUME Limiter!RateLimitAssumption, LimiterIInv, NEW p \in Runners, Limiter!Admit(p)
  PROVE  LimiterIInv'
<1> DEFINE k == Limiter!StoreOf(p)
           n == Limiter!Counted(k)
           x == Limiter!Expires(k)
           e == [at |-> limiter_now, store |-> k, expires |-> x, number |-> n]
<1>1. /\ k \in Limiter!Stores /\ k \in Limiter!Counters
      /\ n \in 1 .. MaxHits /\ x \in Nat
      /\ limiter_now < x /\ x <= limiter_now + Window
      /\ \/ /\ n = 1 /\ x = limiter_now + Window
            /\ \/ limiter_counter[k].count = 0
               \/ limiter_counter[k].expires <= limiter_now
         \/ /\ n = limiter_counter[k].count + 1 /\ n > 1
            /\ x = limiter_counter[k].expires
  BY CountedIn
<1>2. /\ limiter_counter' = [limiter_counter EXCEPT ![k] = [count |-> n, expires |-> x]]
      /\ limiter_passed' = IF n > Limit \/ limiter_forgot THEN limiter_passed
                           ELSE Append(limiter_passed, e)
      /\ UNCHANGED <<limiter_now, limiter_shared, limiter_up, limiter_failed, limiter_forgot>>
  BY DEF Limiter!Admit, Limiter!AdmitThat
<1>3. /\ limiter_now \in Limiter!Times /\ limiter_now \in Nat
      /\ limiter_counter \in [Limiter!Counters -> Limiter!Counter]
      /\ limiter_passed \in Seq(Limiter!Pass)
      /\ Limit \in Nat /\ Window \in Nat /\ Window > 0 /\ MaxHits \in Nat
      /\ None \notin Nat
  BY DEF LimiterIInv, Limiter!TypeOK, Limiter!Times, Limiter!RateLimitAssumption
<1>4. /\ limiter_counter'[k] = [count |-> n, expires |-> x]
      /\ \A j \in Limiter!Counters : j # k => limiter_counter'[j] = limiter_counter[j]
  BY <1>1, <1>2, <1>3
<1>5. Limiter!TypeOK'
  <2>1. e \in Limiter!Pass
    BY <1>1, <1>3 DEF Limiter!Pass
  <2>2. limiter_passed' \in Seq(Limiter!Pass)
    BY <1>2, <1>3, <2>1
  <2>3. [count |-> n, expires |-> x] \in Limiter!Counter
    BY <1>1, <1>3 DEF Limiter!Counter
  <2>4. limiter_counter' \in [Limiter!Counters -> Limiter!Counter]
    BY <1>2, <1>3, <2>3
  <2> QED BY <1>2, <2>2, <2>4 DEF LimiterIInv, Limiter!TypeOK
<1>6. Limiter!RefusalEnds'
  <2> SUFFICES ASSUME NEW j \in Limiter!Counters, limiter_counter'[j].count > 0
               PROVE  /\ limiter_counter'[j].expires # None
                      /\ limiter_counter'[j].expires <= limiter_now + Window
    BY <1>2 DEF Limiter!RefusalEnds
  <2>1. CASE j = k
    BY <1>1, <1>3, <1>4, <2>1
  <2>2. CASE j # k
    BY <1>4, <2>2 DEF LimiterIInv, Limiter!RefusalEnds
  <2> QED BY <2>1, <2>2
<1>7. ASSUME ~limiter_forgot
      PROVE  PassCounted' /\ PassesApart'
  <2>1. PassCounted /\ PassesApart
    BY <1>7 DEF LimiterIInv
  <2>2. ASSUME NEW i \in DOMAIN limiter_passed
        PROVE  LET f == limiter_passed[i] IN
               /\ f.store \in Limiter!Stores /\ f.number <= Limit
               /\ f.at <= limiter_now /\ f.at < f.expires /\ f.expires <= f.at + Window
               /\ f.expires \in Nat /\ f.number \in Nat /\ f.store \in Limiter!Counters
               /\ limiter_counter'[f.store].count > 0
               /\ f.expires <= limiter_counter'[f.store].expires
               /\ f.expires < limiter_counter'[f.store].expires =>
                    f.expires + Window <= limiter_counter'[f.store].expires
               /\ f.expires = limiter_counter'[f.store].expires =>
                    f.number <= limiter_counter'[f.store].count
               /\ f.store = k => /\ f.expires < x => f.expires + Window <= x
                                 /\ f.expires <= x
                                 /\ f.expires = x => f.number < n
    <3> DEFINE f == limiter_passed[i]
    <3>1. /\ f.store \in Limiter!Stores /\ f.number <= Limit
          /\ f.at <= limiter_now /\ f.at < f.expires /\ f.expires <= f.at + Window
          /\ limiter_counter[f.store].count > 0
          /\ f.expires <= limiter_counter[f.store].expires
          /\ f.expires < limiter_counter[f.store].expires =>
               f.expires + Window <= limiter_counter[f.store].expires
          /\ f.expires = limiter_counter[f.store].expires =>
               f.number <= limiter_counter[f.store].count
      BY <2>1 DEF PassCounted
    <3>2. f \in Limiter!Pass
      BY <1>3
    <3>3. /\ f.store \in Limiter!Counters /\ f.expires \in Nat /\ f.number \in Nat
          /\ f.at \in Nat
      BY <3>2 DEF Limiter!Pass, Limiter!Times
    <3>4. CASE f.store # k
      BY <1>4, <3>1, <3>3, <3>4
    <3>5. CASE f.store = k
      <4>1. limiter_counter[k].count \in Nat /\ limiter_counter[k].expires \in Nat
        BY <1>1, <1>3, <3>1, <3>5 DEF Limiter!Counter, LimiterIInv, Limiter!RefusalEnds
      <4>2. /\ limiter_counter'[f.store].count = n /\ n > 0
            /\ limiter_counter'[f.store].expires = x
        BY <1>1, <1>4, <3>5
      <4>3. CASE n = 1 /\ x = limiter_now + Window /\ limiter_counter[k].expires <= limiter_now
        <5>1. f.expires <= limiter_now
          BY <1>3, <3>1, <3>3, <3>5, <4>1, <4>3
        <5>2. f.expires + Window <= x /\ f.expires <= x /\ f.expires # x
          BY <1>3, <3>3, <4>3, <5>1
        <5> QED BY <3>1, <3>3, <3>5, <4>2, <5>2
      <4>4. CASE n = limiter_counter[k].count + 1 /\ n > 1 /\ x = limiter_counter[k].expires
        <5>1. /\ f.expires <= x /\ (f.expires = x => f.number < n)
              /\ f.expires < x => f.expires + Window <= x
          BY <3>1, <3>3, <3>5, <4>1, <4>4
        <5>2. f.expires = x => f.number <= n
          BY <1>1, <3>3, <5>1
        <5> QED BY <3>1, <3>3, <3>5, <4>2, <5>1, <5>2
      <4> QED BY <1>1, <3>1, <3>5, <4>1, <4>3, <4>4
    <3> QED BY <3>4, <3>5
  <2>3. CASE n > Limit
    <3>1. limiter_passed' = limiter_passed
      BY <1>2, <2>3
    <3>2. PassCounted'
      BY <1>2, <2>2, <3>1 DEF PassCounted, Limiter!Stores
    <3> QED BY <2>1, <3>1, <3>2 DEF PassesApart
  <2>4. CASE n <= Limit
    <3>1. limiter_passed' = Append(limiter_passed, e)
      BY <1>1, <1>2, <1>3, <1>7, <2>4
    <3>2. /\ DOMAIN limiter_passed' = DOMAIN limiter_passed \cup {Len(limiter_passed) + 1}
          /\ limiter_passed'[Len(limiter_passed) + 1] = e
          /\ \A i \in DOMAIN limiter_passed : limiter_passed'[i] = limiter_passed[i]
                                              /\ i # Len(limiter_passed) + 1
      BY <1>3, <3>1
    <3>3. PassCounted'
      <4> SUFFICES ASSUME NEW i \in DOMAIN limiter_passed'
                   PROVE  LET f == limiter_passed'[i] IN
                          /\ f.store \in Limiter!Stores' /\ f.number <= Limit
                          /\ f.at <= limiter_now' /\ f.at < f.expires
                          /\ f.expires <= f.at + Window
                          /\ limiter_counter'[f.store].count > 0
                          /\ f.expires <= limiter_counter'[f.store].expires
                          /\ f.expires < limiter_counter'[f.store].expires =>
                               f.expires + Window <= limiter_counter'[f.store].expires
                          /\ f.expires = limiter_counter'[f.store].expires =>
                               f.number <= limiter_counter'[f.store].count
        BY DEF PassCounted
      <4>1. CASE i \in DOMAIN limiter_passed
        BY <1>2, <2>2, <3>2, <4>1 DEF Limiter!Stores
      <4>2. CASE i = Len(limiter_passed) + 1
        <5>1. limiter_passed'[i] = e
          BY <3>2, <4>2
        <5> QED BY <1>1, <1>2, <1>3, <1>4, <2>4, <5>1 DEF Limiter!Stores
      <4> QED BY <3>2, <4>1, <4>2
    <3>4. PassesApart'
      <4> SUFFICES ASSUME NEW i \in DOMAIN limiter_passed', NEW j \in DOMAIN limiter_passed',
                          limiter_passed'[i].store = limiter_passed'[j].store
                   PROVE  LET f == limiter_passed'[i]
                              g == limiter_passed'[j] IN
                          /\ f.expires < g.expires => f.expires + Window <= g.expires
                          /\ f.expires = g.expires /\ f.number = g.number => i = j
        BY DEF PassesApart
      <4>1. CASE i \in DOMAIN limiter_passed /\ j \in DOMAIN limiter_passed
        BY <2>1, <3>2, <4>1 DEF PassesApart
      <4>2. CASE i \in DOMAIN limiter_passed /\ j = Len(limiter_passed) + 1
        <5>1. limiter_passed'[i] = limiter_passed[i] /\ limiter_passed'[j] = e
          BY <3>2, <4>2
        <5> QED BY <1>1, <2>2, <4>2, <5>1
      <4>3. CASE i = Len(limiter_passed) + 1 /\ j \in DOMAIN limiter_passed
        <5>1. limiter_passed'[j] = limiter_passed[j] /\ limiter_passed'[i] = e
          BY <3>2, <4>3
        <5> QED BY <1>1, <2>2, <4>3, <5>1
      <4>4. CASE i = Len(limiter_passed) + 1 /\ j = Len(limiter_passed) + 1
        <5>1. limiter_passed'[i] = e /\ limiter_passed'[j] = e
          BY <3>2, <4>4
        <5> QED BY <1>1, <4>4, <5>1
      <4> QED BY <3>2, <4>1, <4>2, <4>3, <4>4
    <3> QED BY <3>3, <3>4
  <2> QED BY <1>1, <1>3, <2>3, <2>4
<1> QED BY <1>2, <1>5, <1>6, <1>7 DEF LimiterIInv

\* A counter that is forgotten says so if it counted: nothing is promised from then on.
LEMMA ForgetKeeps ==
  ASSUME Limiter!RateLimitAssumption, LimiterIInv, NEW k \in Limiter!Counters, Limiter!Forget(k),
         UNCHANGED <<limiter_now, limiter_shared, limiter_passed>>,
         limiter_up' \in BOOLEAN, limiter_failed' \in [Runners -> 0 .. Attempts + 1]
  PROVE  LimiterIInv'
<1>1. /\ limiter_counter' = [limiter_counter EXCEPT ![k] = Limiter!Empty]
      /\ limiter_forgot' = (limiter_forgot \/ limiter_counter[k].count > 0)
  BY DEF Limiter!Forget
<1>2. limiter_counter \in [Limiter!Counters -> Limiter!Counter] /\ MaxHits \in Nat
  BY DEF LimiterIInv, Limiter!TypeOK, Limiter!RateLimitAssumption
<1>3. /\ limiter_counter'[k] = Limiter!Empty
      /\ \A j \in Limiter!Counters : j # k => limiter_counter'[j] = limiter_counter[j]
  BY <1>1, <1>2
<1>4. Limiter!TypeOK'
  <2>1. Limiter!Empty \in Limiter!Counter
    BY <1>2 DEF Limiter!Empty, Limiter!Counter
  <2>2. limiter_counter' \in [Limiter!Counters -> Limiter!Counter]
    BY <1>1, <1>2, <2>1
  <2>3. limiter_forgot' \in BOOLEAN
    BY <1>1 DEF LimiterIInv, Limiter!TypeOK
  <2> QED BY <2>2, <2>3 DEF LimiterIInv, Limiter!TypeOK
<1>5. Limiter!RefusalEnds'
  BY <1>3 DEF LimiterIInv, Limiter!RefusalEnds, Limiter!Empty
<1>6. ASSUME ~limiter_forgot'
      PROVE  PassCounted' /\ PassesApart'
  <2>1. ~limiter_forgot /\ ~(limiter_counter[k].count > 0)
    BY <1>1, <1>6
  <2>2. PassCounted /\ PassesApart
    BY <2>1 DEF LimiterIInv
  <2>3. \A i \in DOMAIN limiter_passed : limiter_passed[i] \in Limiter!Pass
    BY DEF LimiterIInv, Limiter!TypeOK
  <2>4. \A i \in DOMAIN limiter_passed :
          /\ limiter_passed[i].store \in Limiter!Counters
          /\ limiter_passed[i].store # k
    BY <2>1, <2>2, <2>3 DEF PassCounted, Limiter!Pass
  <2>5. \A i \in DOMAIN limiter_passed :
          limiter_counter'[limiter_passed[i].store] = limiter_counter[limiter_passed[i].store]
    BY <1>3, <2>4
  <2>6. PassCounted'
    BY <2>2, <2>5 DEF PassCounted, Limiter!Stores
  <2> QED BY <2>2, <2>6 DEF PassesApart
<1> QED BY <1>4, <1>5, <1>6 DEF LimiterIInv

\* Whatever happens, with the clock or a store.
LEMMA LimiterIInvNext ==
  ASSUME Limiter!RateLimitAssumption, LimiterIInv, [Limiter!Next]_(Limiter!vars)
  PROVE  LimiterIInv'
<1>1. /\ limiter_failed \in [Runners -> 0 .. Attempts + 1] /\ Attempts \in Nat
      /\ limiter_now \in Nat /\ Window \in Nat
  BY DEF LimiterIInv, Limiter!TypeOK, Limiter!Times, Limiter!RateLimitAssumption
<1>2. ASSUME UNCHANGED <<limiter_now, limiter_shared, limiter_counter, limiter_passed,
                         limiter_forgot>>,
             limiter_up' \in BOOLEAN, limiter_failed' \in [Runners -> 0 .. Attempts + 1]
      PROVE  LimiterIInv'
  BY <1>2 DEF LimiterIInv, Limiter!TypeOK, Limiter!RefusalEnds, PassCounted, PassesApart,
              Limiter!Stores
<1>3. ASSUME NEW p \in Runners, Limiter!Admit(p)
      PROVE  LimiterIInv'
  BY <1>3, AdmitKeeps
<1>4. ASSUME NEW p \in Runners, Limiter!FailOpen(p) \/ Limiter!Reconnect(p)
      PROVE  LimiterIInv'
  <2>1. CASE Limiter!FailOpen(p)
    BY <1>1, <1>2, <2>1 DEF Limiter!FailOpen, Limiter!vars, LimiterIInv, Limiter!TypeOK
  <2>2. CASE Limiter!Reconnect(p)
    <3>1. limiter_failed[p] \in 0 .. Attempts
      BY <1>1, <2>2 DEF Limiter!Reconnect, Limiter!Ended
    <3>2. limiter_failed' \in [Runners -> 0 .. Attempts + 1]
      BY <1>1, <2>2, <3>1 DEF Limiter!Reconnect
    <3> QED BY <1>2, <2>2, <3>2 DEF Limiter!Reconnect, LimiterIInv, Limiter!TypeOK
  <2> QED BY <1>4, <2>1, <2>2
<1>5. ASSUME NEW p \in Runners, Limiter!Restart(p)
      PROVE  LimiterIInv'
  <2>1. limiter_failed' \in [Runners -> 0 .. Attempts + 1]
    BY <1>1, <1>5 DEF Limiter!Restart
  <2>2. p \in Limiter!Counters
    BY DEF Limiter!Counters
  <2> QED BY <1>5, <2>1, <2>2, ForgetKeeps DEF Limiter!Restart, LimiterIInv, Limiter!TypeOK
<1>6. ASSUME Limiter!Lost
      PROVE  LimiterIInv'
  <2>1. limiter_failed' \in [Runners -> 0 .. Attempts + 1] /\ limiter_up' \in BOOLEAN
    <3>1. 1 \in 0 .. Attempts + 1
      BY <1>1
    <3> QED BY <1>1, <1>6, <3>1 DEF Limiter!Lost
  <2>2. Limiter!Redis \in Limiter!Counters
    BY DEF Limiter!Counters
  <2> QED BY <1>2, <1>6, <2>1, <2>2, ForgetKeeps DEF Limiter!Lost
<1>7. ASSUME Limiter!Back
      PROVE  LimiterIInv'
  BY <1>1, <1>2, <1>7 DEF Limiter!Back
<1>8. ASSUME Limiter!Tick
      PROVE  LimiterIInv'
  <2>1. /\ limiter_now' = limiter_now + 1 /\ limiter_now' \in Limiter!Times
        /\ UNCHANGED <<limiter_shared, limiter_counter, limiter_up, limiter_failed,
                       limiter_passed, limiter_forgot>>
    BY <1>1, <1>8 DEF Limiter!Tick, Limiter!Times, LimiterIInv, Limiter!TypeOK,
                      Limiter!RateLimitAssumption
  <2>2. Limiter!TypeOK'
    BY <2>1 DEF LimiterIInv, Limiter!TypeOK
  <2>3. Limiter!RefusalEnds'
    <3> SUFFICES ASSUME NEW k \in Limiter!Counters, limiter_counter[k].count > 0
                 PROVE  /\ limiter_counter[k].expires # None
                        /\ limiter_counter[k].expires <= limiter_now' + Window
      BY <2>1 DEF Limiter!RefusalEnds
    <3>1. /\ limiter_counter[k].expires # None
          /\ limiter_counter[k].expires <= limiter_now + Window
      BY DEF LimiterIInv, Limiter!RefusalEnds
    <3>2. limiter_counter[k].expires \in Nat
      BY <3>1 DEF LimiterIInv, Limiter!TypeOK, Limiter!Counter
    <3> QED BY <1>1, <2>1, <3>1, <3>2
  <2>4. ASSUME ~limiter_forgot
        PROVE  PassCounted' /\ PassesApart'
    <3>1. PassCounted /\ PassesApart
      BY <2>4 DEF LimiterIInv
    <3>2. \A i \in DOMAIN limiter_passed : limiter_passed[i].at \in Nat
      <4>1. \A i \in DOMAIN limiter_passed : limiter_passed[i] \in Limiter!Pass
        BY DEF LimiterIInv, Limiter!TypeOK
      <4> QED BY <4>1 DEF Limiter!Pass, Limiter!Times
    <3>3. \A i \in DOMAIN limiter_passed :
            limiter_passed[i].at <= limiter_now => limiter_passed[i].at <= limiter_now'
      BY <1>1, <2>1, <3>2
    <3>4. PassCounted'
      BY <2>1, <3>1, <3>3 DEF PassCounted, Limiter!Stores
    <3> QED BY <2>1, <3>1, <3>4 DEF PassesApart
  <2> QED BY <2>1, <2>2, <2>3, <2>4 DEF LimiterIInv
<1>9. CASE UNCHANGED Limiter!vars
  BY <1>1, <1>2, <1>9 DEF Limiter!vars, LimiterIInv, Limiter!TypeOK
<1> QED BY <1>3, <1>4, <1>5, <1>6, <1>7, <1>8, <1>9 DEF Limiter!Next

\* At first nothing was let through.
LEMMA LimiterIInvInit ==
  ASSUME Limiter!RateLimitAssumption, Limiter!Init
  PROVE  LimiterIInv
<1>1. /\ MaxTime \in Nat /\ MaxHits \in Nat /\ Attempts \in Nat
  BY DEF Limiter!RateLimitAssumption
<1>2. Limiter!TypeOK
  <2>1. Limiter!Empty \in Limiter!Counter /\ 0 \in Limiter!Times /\ 0 \in 0 .. Attempts + 1
    BY <1>1 DEF Limiter!Empty, Limiter!Counter, Limiter!Times
  <2>2. <<>> \in Seq(Limiter!Pass)
    OBVIOUS
  <2>3. /\ limiter_counter \in [Limiter!Counters -> Limiter!Counter]
        /\ limiter_failed \in [Runners -> 0 .. Attempts + 1]
    BY <2>1 DEF Limiter!Init
  <2> QED BY <2>1, <2>2, <2>3 DEF Limiter!Init, Limiter!TypeOK
<1>3. Limiter!RefusalEnds
  BY DEF Limiter!Init, Limiter!RefusalEnds, Limiter!Empty
<1>4. PassCounted /\ PassesApart
  BY DEF Limiter!Init, PassCounted, PassesApart
<1> QED BY <1>2, <1>3, <1>4 DEF LimiterIInv

\* What was let through is told apart by counter, window and number.
THEOREM LimiterInductive == AccountsSpec => [](focus = "limiter" => LimiterIInv)
<1> DEFINE I == focus = "limiter" => LimiterIInv
<1>1. AccountsInit => I
  BY AccountsAssumption, Begun, LimiterIInvInit DEF AccountsAssumption
<1>2. I /\ [AccountsNext]_allVars => I'
  BY AccountsAssumption, Focused, LimiterIInvNext DEF AccountsAssumption
<1> QED BY <1>1, <1>2, PTL DEF AccountsSpec

\* No refusal is for ever, and unless a counter is lost no stretch of time as long as a window lets more
\* than two limits through for each store, however many processes there are.
THEOREM LimiterKept == AccountsSpec => []LimiterHolds
<1>1. LimiterIInv => Limiter!LimitHolds
  BY AccountsAssumption, TwoWindows, SameCardinality DEF AccountsAssumption, Limiter!LimitHolds
<1>2. (focus = "limiter" => LimiterIInv) => LimiterHolds
  BY <1>1 DEF LimiterHolds, LimiterIInv, Limiter!RateLimitInv
<1> QED BY <1>2, LimiterInductive, PTL

-----------------------------------------------------------------------------
(* The weekly digest *)

\* Only a run that has begun lists clients or has mailed one, and the client it has
\* mailed counts as served by it.
RunsHold ==
  \A w \in Runners :
    /\ digest_started[w] = None => digest_due[w] = {} /\ digest_mailing[w] = None
    /\ digest_mailing[w] # None => digest_started[w] \in digest_served[digest_mailing[w]]

\* A client that was served at all was served by a last run.
HasLast ==
  \A t \in Tenants : digest_served[t] # {} => \E m \in digest_served[t] :
    \A a \in digest_served[t] : a <= m

\* A client is on the list of one run at most, which began an interval after each of the
\* runs that served it; the torn ones excepted.
DueInTime ==
  \A t \in Tenants \ digest_torn : \A w \in Runners : t \in digest_due[w] =>
    /\ \A a \in digest_served[t] : a + Interval <= digest_started[w]
    /\ \A v \in Runners : t \in digest_due[v] => v = w

\* The invariant of the digest.
DigestIInv ==
  Weekly!TypeOK /\ RunsHold /\ HasLast /\ DueInTime /\ Weekly!DigestsSpaced /\
    Weekly!StampsAreServed

\* The absence of a stamp is no time and no client.
LEMMA NoneIsNothing ==
  ASSUME Weekly!DigestAssumption
  PROVE  None \notin Tenants /\ None \notin Nat /\ \A a \in Weekly!Time : a \in Nat /\ a # None
BY DEF Weekly!DigestAssumption, Weekly!Time

\* Every step keeps the types.
LEMMA DigestTypeNext ==
  ASSUME Weekly!DigestAssumption, Weekly!TypeOK, RunsHold, [Weekly!Next]_(Weekly!vars)
  PROVE  Weekly!TypeOK'
<1>1. CASE UNCHANGED Weekly!vars
  BY <1>1 DEF Weekly!vars, Weekly!TypeOK
<1>2. ASSUME NEW w \in Runners, Weekly!Begin(w) PROVE Weekly!TypeOK'
  BY <1>2 DEF Weekly!Begin, Weekly!TypeOK
<1>3. ASSUME NEW w \in Runners, Weekly!Mail(w) PROVE Weekly!TypeOK'
  <2>1. PICK t \in digest_due[w] :
          /\ digest_due' = [digest_due EXCEPT ![w] = @ \ {t}] /\ digest_stamp' = digest_stamp
          /\ \/ /\ digest_served' = [digest_served EXCEPT ![t] = @ \cup {digest_started[w]}]
                /\ digest_mailing' = [digest_mailing EXCEPT ![w] = t]
                /\ UNCHANGED digest_faults
             \/ Weekly!Fails /\ UNCHANGED <<digest_served, digest_mailing>>
          /\ UNCHANGED <<digest_now, digest_enabled, digest_queued, digest_started, digest_torn>>
    BY <1>3 DEF Weekly!Mail, Weekly!MailThen
  <2>2. t \in Tenants /\ digest_started[w] \in Weekly!Time
    BY <2>1 DEF Weekly!TypeOK, RunsHold
  <2>3. digest_faults' \in 0 .. MaxFaults
    BY <2>1 DEF Weekly!TypeOK, Weekly!Fails, Weekly!DigestAssumption
  <2>4. digest_served' \in [Tenants -> SUBSET Weekly!Time] /\
          digest_mailing' \in [Runners -> Tenants \cup {None}]
    BY <2>1, <2>2 DEF Weekly!TypeOK
  <2>5. digest_due' \in [Runners -> SUBSET Tenants]
    BY <2>1 DEF Weekly!TypeOK
  <2> QED BY <2>1, <2>3, <2>4, <2>5 DEF Weekly!TypeOK
<1>4. ASSUME NEW w \in Runners, Weekly!Stamp(w) PROVE Weekly!TypeOK'
  BY <1>4 DEF Weekly!Stamp, Weekly!Fails, Weekly!TypeOK, Weekly!DigestAssumption
<1>5. ASSUME NEW w \in Runners, Weekly!End(w) \/ Weekly!Dies(w) PROVE Weekly!TypeOK'
  <2>1. /\ digest_started' = [digest_started EXCEPT ![w] = None]
        /\ digest_due' = [digest_due EXCEPT ![w] = {}]
        /\ digest_mailing' = [digest_mailing EXCEPT ![w] = None]
        /\ UNCHANGED <<digest_now, digest_enabled, digest_stamp, digest_served, digest_torn>>
    BY <1>5 DEF Weekly!End, Weekly!Dies, Weekly!Stops
  <2>2. digest_queued' \in BOOLEAN
    BY <1>5 DEF Weekly!End, Weekly!Dies, Weekly!TypeOK
  <2>3. digest_faults' \in 0 .. MaxFaults
    BY <1>5 DEF Weekly!End, Weekly!Dies, Weekly!Fails, Weekly!TypeOK, Weekly!DigestAssumption
  <2> QED BY <2>1, <2>2, <2>3 DEF Weekly!TypeOK
<1>6. CASE Weekly!SetDigest \/ Weekly!Enqueue \/ Weekly!Tick
  <2>1. digest_now' \in Weekly!Time
    BY <1>6 DEF Weekly!SetDigest, Weekly!Enqueue, Weekly!Tick, Weekly!TypeOK, Weekly!Time,
       Weekly!DigestAssumption
  <2>2. digest_enabled' \subseteq Tenants /\ digest_queued' \in BOOLEAN
    BY <1>6 DEF Weekly!SetDigest, Weekly!Enqueue, Weekly!Tick, Weekly!TypeOK
  <2> QED BY <1>6, <2>1, <2>2 DEF Weekly!SetDigest, Weekly!Enqueue, Weekly!Tick, Weekly!runVars,
      Weekly!TypeOK
<1> QED BY <1>1, <1>2, <1>3, <1>4, <1>5, <1>6 DEF Weekly!Next

\* Every step of a run, of the clock and of the queue keeps the invariant.
LEMMA DigestIInvNext ==
  ASSUME Weekly!DigestAssumption, DigestIInv, [Weekly!Next]_(Weekly!vars)
  PROVE  DigestIInv'
<1> USE NoneIsNothing DEF DigestIInv
<1>0. Weekly!TypeOK'
  BY DigestTypeNext
<1>1. CASE UNCHANGED Weekly!vars
  BY <1>1 DEF Weekly!vars, Weekly!TypeOK, RunsHold, HasLast, DueInTime, Weekly!DigestsSpaced,
     Weekly!StampsAreServed
<1>2. ASSUME NEW w \in Runners, Weekly!Begin(w) PROVE DigestIInv'
  <2>1. /\ digest_started' = [digest_started EXCEPT ![w] = digest_now]
        /\ digest_due' = [digest_due EXCEPT ![w] = {t \in digest_enabled : Weekly!IsDue(t)}]
        /\ digest_torn \subseteq digest_torn' /\ \A t \in digest_due'[w] :
             Weekly!Unstamped(t) => t \in digest_torn'
        /\ UNCHANGED <<digest_now, digest_stamp, digest_mailing, digest_served>>
        /\ digest_started[w] = None
    BY <1>2 DEF Weekly!Begin
  <2>2. RunsHold'
    BY <2>1 DEF RunsHold, Weekly!TypeOK
  <2>3. HasLast' /\ Weekly!DigestsSpaced' /\ Weekly!StampsAreServed'
    BY <2>1 DEF HasLast, Weekly!DigestsSpaced, Weekly!StampsAreServed
  <2>4. ASSUME NEW t \in Tenants \ digest_torn', t \in digest_due'[w]
        PROVE  /\ \A a \in digest_served[t] : a + Interval <= digest_now
               /\ \A v \in Runners : t \notin digest_due[v]
    <3>1. ~Weekly!Unstamped(t) /\ Weekly!IsDue(t)
      BY <2>1, <2>4 DEF Weekly!TypeOK
    <3>2. ASSUME NEW a \in digest_served[t] PROVE a + Interval <= digest_now
      <4>1. PICK m \in digest_served[t] : \A b \in digest_served[t] : b <= m
        BY <3>2 DEF HasLast
      <4>2. m \in Weekly!Time /\ \A b \in digest_served[t] : b \in Weekly!Time
        BY DEF Weekly!TypeOK
      <4>3. Weekly!Max(digest_served[t]) \in digest_served[t] /\ a <= Weekly!Max(digest_served[t])
        BY <3>2, <4>1, <4>2 DEF Weekly!Max, Weekly!Time
      <4>4. digest_stamp[t] = Weekly!Max(digest_served[t]) /\ digest_stamp[t] # None
        BY <3>1, <3>2, <4>2, <4>3 DEF Weekly!Unstamped
      <4> QED BY <3>1, <4>2, <4>3, <4>4 DEF Weekly!IsDue, Weekly!TypeOK, Weekly!Time,
          Weekly!DigestAssumption
    <3> QED BY <3>1, <3>2 DEF Weekly!Unstamped
  <2>5. DueInTime'
    <3> SUFFICES ASSUME NEW t \in Tenants \ digest_torn', NEW v \in Runners, t \in digest_due'[v]
                 PROVE  /\ \A a \in digest_served'[t] : a + Interval <= digest_started'[v]
                        /\ \A u \in Runners : t \in digest_due'[u] => u = v
      BY DEF DueInTime
    <3>1. CASE v = w
      BY <2>1, <2>4, <3>1 DEF Weekly!TypeOK
    <3>2. CASE v # w
      <4>1. t \in digest_due[v] /\ digest_started'[v] = digest_started[v] /\
              t \in Tenants \ digest_torn
        BY <2>1, <3>2 DEF Weekly!TypeOK
      <4>2. t \notin digest_due'[w]
        BY <2>4, <4>1
      <4> QED BY <2>1, <3>2, <4>1, <4>2 DEF DueInTime, Weekly!TypeOK
    <3> QED BY <3>1, <3>2
  <2> QED BY <1>0, <2>2, <2>3, <2>5
<1>3. ASSUME NEW w \in Runners, Weekly!Mail(w) PROVE DigestIInv'
  <2>1. PICK t \in digest_due[w] :
          /\ digest_mailing[w] = None /\ digest_due' = [digest_due EXCEPT ![w] = @ \ {t}]
          /\ digest_stamp' = digest_stamp
          /\ \/ /\ digest_served' = [digest_served EXCEPT ![t] = @ \cup {digest_started[w]}]
                /\ digest_mailing' = [digest_mailing EXCEPT ![w] = t]
             \/ UNCHANGED <<digest_served, digest_mailing>>
          /\ UNCHANGED <<digest_now, digest_started, digest_torn>>
    BY <1>3 DEF Weekly!Mail, Weekly!MailThen
  <2>2. t \in Tenants /\ digest_started[w] \in Weekly!Time /\ digest_started[w] # None
    BY <2>1 DEF Weekly!TypeOK, RunsHold
  <2>3. CASE UNCHANGED <<digest_served, digest_mailing>>
    BY <1>0, <2>1, <2>2, <2>3 DEF RunsHold, HasLast, DueInTime, Weekly!DigestsSpaced,
       Weekly!StampsAreServed, Weekly!TypeOK
  <2>4. CASE /\ digest_served' = [digest_served EXCEPT ![t] = @ \cup {digest_started[w]}]
             /\ digest_mailing' = [digest_mailing EXCEPT ![w] = t]
    <3>0. \A u \in Tenants :
            digest_served'[u] = IF u = t THEN digest_served[t] \cup {digest_started[w]} ELSE digest_served[u]
      BY <2>2, <2>4 DEF Weekly!TypeOK
    <3>1. RunsHold'
      BY <2>1, <2>2, <2>4, <3>0 DEF RunsHold, Weekly!TypeOK
    <3>2. Weekly!StampsAreServed'
      BY <2>1, <3>0 DEF Weekly!StampsAreServed
    <3>3. Weekly!DigestsSpaced'
      BY <2>1, <2>2, <3>0 DEF Weekly!DigestsSpaced, DueInTime, Weekly!TypeOK, Weekly!Time,
         Weekly!DigestAssumption
    <3>4. DueInTime'
      BY <2>1, <2>2, <3>0 DEF DueInTime, Weekly!TypeOK
    <3>5. HasLast'
      BY <2>1, <2>2, <3>0 DEF HasLast, Weekly!TypeOK
    <3> QED BY <1>0, <3>1, <3>2, <3>3, <3>4, <3>5
  <2> QED BY <2>1, <2>3, <2>4
<1>4. ASSUME NEW w \in Runners, Weekly!Stamp(w) PROVE DigestIInv'
  BY <1>0, <1>4 DEF Weekly!Stamp, RunsHold, HasLast, DueInTime, Weekly!DigestsSpaced,
     Weekly!StampsAreServed, Weekly!TypeOK
<1>5. ASSUME NEW w \in Runners, Weekly!End(w) \/ Weekly!Dies(w) PROVE DigestIInv'
  <2>1. /\ digest_started' = [digest_started EXCEPT ![w] = None]
        /\ digest_due' = [digest_due EXCEPT ![w] = {}]
        /\ digest_mailing' = [digest_mailing EXCEPT ![w] = None]
        /\ UNCHANGED <<digest_now, digest_stamp, digest_served, digest_torn>>
    BY <1>5 DEF Weekly!End, Weekly!Dies, Weekly!Stops
  <2> QED BY <1>0, <2>1 DEF RunsHold, HasLast, DueInTime, Weekly!DigestsSpaced,
      Weekly!StampsAreServed, Weekly!TypeOK
<1>6. CASE Weekly!SetDigest \/ Weekly!Enqueue \/ Weekly!Tick
  <2>1. UNCHANGED <<digest_stamp, digest_started, digest_due, digest_mailing, digest_served, digest_torn>>
    BY <1>6 DEF Weekly!SetDigest, Weekly!Enqueue, Weekly!Tick, Weekly!runVars
  <2> QED BY <1>0, <2>1 DEF RunsHold, HasLast, DueInTime, Weekly!DigestsSpaced,
      Weekly!StampsAreServed, Weekly!TypeOK
<1> QED BY <1>1, <1>2, <1>3, <1>4, <1>5, <1>6 DEF Weekly!Next

\* No digest was sent.
LEMMA DigestIInvInit ==
  ASSUME Weekly!DigestAssumption, Weekly!Init
  PROVE  DigestIInv
<1>1. Weekly!TypeOK
  <2>1. 0 \in Weekly!Time /\ 0 \in 0 .. MaxFaults
    BY DEF Weekly!Time, Weekly!DigestAssumption
  <2>2. digest_stamp \in [Tenants -> Weekly!Time \cup {None}] /\
          digest_served \in [Tenants -> SUBSET Weekly!Time]
    BY DEF Weekly!Init
  <2>3. /\ digest_started \in [Runners -> Weekly!Time \cup {None}]
        /\ digest_due \in [Runners -> SUBSET Tenants]
        /\ digest_mailing \in [Runners -> Tenants \cup {None}]
    BY DEF Weekly!Init
  <2> QED BY <2>1, <2>2, <2>3 DEF Weekly!Init, Weekly!TypeOK
<1>2. RunsHold /\ HasLast /\ DueInTime /\ Weekly!DigestsSpaced /\ Weekly!StampsAreServed
  BY DEF Weekly!Init, RunsHold, HasLast, DueInTime, Weekly!DigestsSpaced, Weekly!StampsAreServed
<1> QED BY <1>1, <1>2 DEF DigestIInv

\* What a run of the digest may stamp, and when, stays true.
THEOREM DigestInductive == AccountsSpec => [](focus = "digest" => DigestIInv)
<1> DEFINE I == focus = "digest" => DigestIInv
<1>1. AccountsInit => I
  BY AccountsAssumption, Begun, DigestIInvInit DEF AccountsAssumption
<1>2. I /\ [AccountsNext]_allVars => I'
  BY AccountsAssumption, Focused, DigestIInvNext DEF AccountsAssumption
<1> QED BY <1>1, <1>2, PTL DEF AccountsSpec

\* The runs that mail a client begin an interval apart, unless one listed it before the mail of another
\* was stamped or a stamp was lost, and every stamp stands for a mail.
THEOREM DigestKept == AccountsSpec => []DigestHolds
<1>1. (focus = "digest" => DigestIInv) => DigestHolds
  BY DEF DigestHolds, DigestIInv, Weekly!DigestInv
<1> QED BY <1>1, DigestInductive, PTL

-----------------------------------------------------------------------------
(* Processes that start *)

(* That a process serves says nothing of what it knew: migrations are only  *)
(* ever added, so the check that let it serve stays true.  And a failure is *)
(* on record as a migration that is begun for as long as it is unresolved. *)

\* While a migration is begun the database is short of the newest image.
BegunIsShipped == startup_begun => startup_applied < Starting!Newest

\* The invariant of processes that start.
StartupIInv ==
  /\ Starting!TypeOK
  /\ (startup_broken => startup_begun)
  /\ BegunIsShipped
  /\ Starting!ServesCurrentSchema

\* No image ships more migrations than the newest.
LEMMA NewestShips ==
  ASSUME Starting!StartupAssumption
  PROVE  Starting!Newest \in Nat \ {0} /\ \A i \in Starting!Processes :
           Shipped[i] \in Nat \ {0} /\ Shipped[i] <= Starting!Newest
<1>1. \A i \in Starting!Processes : Shipped[i] \in Nat \ {0}
  BY DEF Starting!StartupAssumption, Starting!Processes
<1>2. \E n \in {Shipped[i] : i \in Starting!Processes} : \A i \in Starting!Processes :
        Shipped[i] <= n
  <2>1. PICK k \in Starting!Processes : \A j \in Starting!Processes : Shipped[j] <= Shipped[k]
    BY DEF Starting!StartupAssumption, Starting!Processes
  <2>2. Shipped[k] \in {Shipped[i] : i \in Starting!Processes}
    OBVIOUS
  <2> QED BY <2>1, <2>2, Zenon
<1>3. Starting!Newest \in {Shipped[i] : i \in Starting!Processes} /\ \A i \in Starting!Processes :
        Shipped[i] <= Starting!Newest
  BY <1>2 DEF Starting!Newest
<1> QED BY <1>1, <1>3

\* Who starts to serve has just found every migration of its image finished.
LEMMA ServingChecked ==
  ASSUME StartupIInv, Starting!Next
  PROVE  \A i \in Starting!Processes : startup_pc'[i] = "serving" =>
           \/ startup_pc[i] = "serving"
           \/ ~startup_begun /\ startup_applied >= Shipped[i] /\ startup_applied' = startup_applied
<1> USE DEF StartupIInv, Starting!TypeOK
<1>1. CASE Starting!Resolve
  BY <1>1 DEF Starting!Resolve
<1>2. ASSUME NEW i \in Starting!Processes, Starting!Check(i)
      PROVE  \A j \in Starting!Processes : startup_pc'[j] = "serving" =>
               startup_pc[j] = "serving" \/
                 (~startup_begun /\ startup_applied >= Shipped[j] /\ startup_applied' = startup_applied)
  BY <1>2 DEF Starting!Check, Starting!CheckThat, Starting!Refuse, Starting!dbVars
<1>3. ASSUME NEW i \in Starting!Processes,
             Starting!Boot(i) \/ Starting!Migrate(i) \/ Starting!MigrateClosed(i) \/
               Starting!TimesOut(i) \/ Starting!TakeLock(i) \/ Starting!Apply(i)
      PROVE  \A j \in Starting!Processes : startup_pc'[j] = "serving" => startup_pc[j] = "serving"
  BY <1>3 DEF Starting!Boot, Starting!Migrate, Starting!MigrateClosed, Starting!MigrateExits,
     Starting!TimesOut, Starting!Refuse, Starting!TakeLock, Starting!Apply
<1> QED BY <1>1, <1>2, <1>3 DEF Starting!Next

\* Migrations are added one at a time and never while one has failed; a failure
\* is one of a migration that is begun.
LEMMA FailureIsBegun ==
  ASSUME StartupIInv, Starting!Next
  PROVE  /\ startup_applied' = startup_applied \/
              (startup_applied' = startup_applied + 1 /\ ~startup_broken)
         /\ startup_broken' \in BOOLEAN /\ (startup_broken' => startup_begun')
<1> USE DEF StartupIInv, Starting!TypeOK
<1>1. CASE Starting!Resolve
  BY <1>1 DEF Starting!Resolve
<1>2. ASSUME NEW i \in Starting!Processes, Starting!TimesOut(i)
      PROVE  startup_applied' = startup_applied /\ startup_broken' \in BOOLEAN /\
               (startup_broken' => startup_begun')
  <2>1. UNCHANGED <<startup_applied, startup_begun>> /\
          (startup_broken' = startup_broken \/ startup_broken' = (startup_broken \/ (startup_lock = i /\ startup_begun)))
    BY <1>2 DEF Starting!TimesOut
  <2>2. CASE startup_broken' = startup_broken
    BY <2>1, <2>2
  <2>3. CASE startup_broken' = (startup_broken \/ (startup_lock = i /\ startup_begun))
    <3>1. startup_broken' \in BOOLEAN /\ (startup_broken' => startup_broken \/ startup_begun)
      BY <2>3, Zenon
    <3> QED BY <2>1, <3>1
  <2> QED BY <2>1, <2>2, <2>3
<1>3. ASSUME NEW i \in Starting!Processes, Starting!Apply(i)
      PROVE  /\ startup_applied' = startup_applied \/
                  (startup_applied' = startup_applied + 1 /\ ~startup_broken)
             /\ startup_broken' \in BOOLEAN /\ (startup_broken' => startup_begun')
  <2>1. \/ startup_applied' = startup_applied /\ startup_broken' = startup_broken /\
             startup_begun' = TRUE
        \/ startup_applied' = startup_applied + 1 /\ startup_broken' = startup_broken /\
             ~startup_broken
        \/ startup_applied' = startup_applied /\ startup_broken' = TRUE /\ startup_begun /\
             startup_begun' = startup_begun
        \/ UNCHANGED Starting!dbVars
    <3>1. CASE startup_begun /\ startup_broken' = TRUE /\
                 UNCHANGED <<startup_applied, startup_begun>>
      BY <3>1, Zenon
    <3>2. CASE ~(startup_begun /\ startup_broken' = TRUE /\ UNCHANGED <<startup_applied, startup_begun>>)
      BY <1>3, <3>2 DEF Starting!Apply, Starting!dbVars
    <3> QED BY <3>1, <3>2
  <2>2. CASE startup_applied' = startup_applied /\ startup_broken' = TRUE /\ startup_begun /\
               startup_begun' = startup_begun
    BY <2>2, Zenon
  <2>3. CASE startup_applied' = startup_applied /\ startup_broken' = startup_broken /\
               startup_begun' = TRUE
    BY <2>3, Zenon
  <2>4. CASE startup_applied' = startup_applied + 1 /\ startup_broken' = startup_broken /\
               ~startup_broken
    BY <2>4, Zenon
  <2>5. CASE UNCHANGED Starting!dbVars
    BY <2>5 DEF Starting!dbVars
  <2> QED BY <2>1, <2>2, <2>3, <2>4, <2>5, Zenon
<1>4. ASSUME NEW i \in Starting!Processes,
             Starting!Boot(i) \/ Starting!Migrate(i) \/ Starting!MigrateClosed(i) \/
               Starting!Check(i) \/ Starting!TakeLock(i)
      PROVE  UNCHANGED Starting!dbVars
  BY <1>4 DEF Starting!Boot, Starting!Migrate, Starting!MigrateClosed, Starting!MigrateExits,
     Starting!Check, Starting!CheckThat, Starting!TakeLock
<1> QED BY <1>1, <1>2, <1>3, <1>4 DEF Starting!Next, Starting!dbVars

\* Every step keeps the types, and an engine applies no more than its image ships.
LEMMA StartupTypes ==
  ASSUME Starting!StartupAssumption, StartupIInv, Starting!Next
  PROVE  Starting!TypeOK' /\ BegunIsShipped'
<1> USE DEF StartupIInv
<1>0. /\ Starting!Newest \in Nat \ {0} /\ \A i \in Starting!Processes :
           Shipped[i] \in Nat \ {0} /\ Shipped[i] <= Starting!Newest
      /\ startup_applied \in 1 .. Starting!Newest /\ Retries \in Nat
  BY NewestShips DEF Starting!TypeOK, Starting!StartupAssumption
<1>1. CASE Starting!Resolve
  BY <1>1 DEF Starting!Resolve, Starting!TypeOK, BegunIsShipped
<1>2. ASSUME NEW i \in Starting!Processes, Starting!Boot(i) PROVE Starting!TypeOK' /\
               BegunIsShipped'
  BY <1>2 DEF Starting!Boot, Starting!TypeOK, BegunIsShipped, Starting!dbVars
<1>3. ASSUME NEW i \in Starting!Processes, Starting!Migrate(i) PROVE Starting!TypeOK' /\
               BegunIsShipped'
  BY <1>3 DEF Starting!Migrate, Starting!TypeOK, BegunIsShipped, Starting!dbVars
<1>4. ASSUME NEW i \in Starting!Processes, Starting!MigrateClosed(i) PROVE Starting!TypeOK' /\
               BegunIsShipped'
  BY <1>4 DEF Starting!MigrateClosed, Starting!MigrateExits, Starting!Refuse, Starting!TypeOK,
     BegunIsShipped, Starting!dbVars
<1>5. ASSUME NEW i \in Starting!Processes, Starting!TimesOut(i) PROVE Starting!TypeOK' /\
               BegunIsShipped'
  <2>1. /\ Starting!Refuse(i, "timeout")
        /\ UNCHANGED <<startup_applied, startup_begun, startup_onBoot, startup_tries>>
        /\ startup_engine' = startup_engine \/
             startup_engine' = [startup_engine EXCEPT ![i] = "failed"]
        /\ startup_lock' = startup_lock \/ startup_lock' = None
    BY <1>5 DEF Starting!TimesOut
  <2>2. startup_broken' \in BOOLEAN
    BY <1>5, FailureIsBegun DEF Starting!Next
  <2> QED BY <2>1, <2>2 DEF Starting!Refuse, Starting!TypeOK, BegunIsShipped, Starting!Exits
<1>6. ASSUME NEW i \in Starting!Processes, Starting!Check(i) PROVE Starting!TypeOK' /\
               BegunIsShipped'
  <2>1. UNCHANGED <<Starting!dbVars, startup_lock, startup_engine, startup_onBoot>>
    BY <1>6 DEF Starting!Check, Starting!CheckThat
  <2>2. /\ startup_pc' \in [Starting!Processes -> {"off", "migrate", "running", "check", "serving", "dead"}]
        /\ startup_working' \subseteq Starting!Processes
        /\ startup_tries' \in [Starting!Processes -> 0 .. Retries]
        /\ startup_refused' \in [Starting!Processes -> {None, "exit", "timeout", "begun", "behind"}]
    BY <1>0, <1>6 DEF Starting!Check, Starting!CheckThat, Starting!Refuse, Starting!TypeOK
  <2> QED BY <2>1, <2>2 DEF Starting!TypeOK, BegunIsShipped, Starting!dbVars
<1>7. ASSUME NEW i \in Starting!Processes, Starting!TakeLock(i) PROVE Starting!TypeOK' /\
               BegunIsShipped'
  BY <1>7 DEF Starting!TakeLock, Starting!TypeOK, BegunIsShipped, Starting!dbVars
<1>8. ASSUME NEW i \in Starting!Processes, Starting!Apply(i) PROVE Starting!TypeOK' /\
               BegunIsShipped'
  <2>1. /\ UNCHANGED <<startup_pc, startup_onBoot, startup_tries, startup_working, startup_refused>>
        /\ startup_lock' \in Starting!Processes \cup {None}
        /\ startup_engine' \in [Starting!Processes -> {"none", "waiting", "holding"} \cup Starting!Exits]
        /\ startup_begun' \in BOOLEAN
    BY <1>8 DEF Starting!Apply, Starting!Ends, Starting!TypeOK, Starting!Exits, Starting!dbVars
  <2>2. startup_applied' \in 1 .. Starting!Newest /\ BegunIsShipped'
    BY <1>0, <1>8 DEF Starting!Apply, BegunIsShipped, Starting!dbVars
  <2>3. startup_broken' \in BOOLEAN
    BY <1>8, FailureIsBegun DEF Starting!Next
  <2> QED BY <2>1, <2>2, <2>3 DEF Starting!TypeOK
<1> QED BY <1>1, <1>2, <1>3, <1>4, <1>5, <1>6, <1>7, <1>8 DEF Starting!Next

\* The migrations that a process found finished stay finished.
LEMMA StartupIInvNext ==
  ASSUME Starting!StartupAssumption, StartupIInv, [Starting!Next]_(Starting!vars)
  PROVE  StartupIInv'
<1>1. CASE UNCHANGED Starting!vars
  BY <1>1 DEF Starting!vars, StartupIInv, Starting!TypeOK, BegunIsShipped,
     Starting!ServesCurrentSchema
<1>2. CASE Starting!Next
  <2>1. startup_applied \in Nat /\ startup_applied' \in Nat /\
          startup_applied' >= startup_applied /\ (startup_broken' => startup_begun')
    BY <1>2, FailureIsBegun, NewestShips DEF StartupIInv, Starting!TypeOK
  <2>2. \A i \in Starting!Processes : Shipped[i] \in Nat
    BY NewestShips
  <2>3. Starting!ServesCurrentSchema'
    BY <1>2, <2>1, <2>2, ServingChecked DEF StartupIInv, Starting!ServesCurrentSchema
  <2> QED BY <1>2, <2>1, <2>3, StartupTypes DEF StartupIInv
<1> QED BY <1>1, <1>2

\* Nothing is begun, and nobody serves.
LEMMA StartupIInvInit ==
  ASSUME Starting!StartupAssumption, Starting!Init
  PROVE  StartupIInv
<1>1. Starting!TypeOK
  <2>1. Retries \in Nat /\ 0 \in 0 .. Retries
    BY DEF Starting!StartupAssumption
  <2> QED BY <2>1 DEF Starting!Init, Starting!TypeOK
<1>2. (startup_broken => startup_begun) /\ BegunIsShipped /\ Starting!ServesCurrentSchema
  BY DEF Starting!Init, BegunIsShipped, Starting!ServesCurrentSchema
<1> QED BY <1>1, <1>2 DEF StartupIInv

\* While a failed migration is on record none is applied and nobody begins to serve.
LEMMA FailureStops ==
  ASSUME StartupIInv, Starting!Next
  PROVE  Starting!FailureBlocks
BY ServingChecked, FailureIsBegun DEF Starting!FailureBlocks, StartupIInv

\* The migrations that a process found finished stay finished.
THEOREM StartupInductive == AccountsSpec => [](focus = "startup" => StartupIInv)
<1> DEFINE I == focus = "startup" => StartupIInv
<1>1. AccountsInit => I
  BY AccountsAssumption, Begun, StartupIInvInit DEF AccountsAssumption
<1>2. I /\ [AccountsNext]_allVars => I'
  BY AccountsAssumption, Focused, StartupIInvNext DEF AccountsAssumption
<1> QED BY <1>1, <1>2, PTL DEF AccountsSpec

\* "Schema first, then traffic": a process that serves has its image's migrations, whatever others
\* apply, break or time out of, and a failed migration on record stops every start.
THEOREM StartKept == AccountsSpec => StartHolds
<1>1. (focus = "startup" => StartupIInv) /\ [AccountsNext]_allVars => [focus = "startup" => Starting!FailureBlocks]_allVars
  BY AccountsAssumption, StepsOfOne, FailureStops DEF AccountsAssumption
<1>2. (focus = "startup" => StartupIInv) => (focus = "startup" => Starting!StartupInv)
  BY DEF Starting!StartupInv, StartupIInv
<1> QED BY <1>1, <1>2, StartupInductive, PTL DEF AccountsSpec, StartHolds
=============================================================================
