----------------------------- MODULE LinkContract -----------------------------
(***************************************************************************)
(* What the product promises about the links it mails, with no request, no *)
(* calls that overlap and no mail server: the invitations to the console,  *)
(* the links to the employees' dashboard and those to their courses.  An   *)
(* owner (an account, an employee, an assignment) has one link or none; a  *)
(* new one ends the last one for good; and what is mailed to an owner      *)
(* never opens what is another's.                                          *)
(***************************************************************************)
EXTENDS Naturals

CONSTANT Owners

VARIABLES
  current, \* each owner's link, 0 when it has none
  minted,  \* links so far, numbered in the order in which they were minted
  mailed   \* owner and link of each mail that was delivered

vars == <<current, minted, mailed>>

Init ==
  /\ current = [o \in Owners |-> 0]
  /\ minted = 0
  /\ mailed = {}

\* A link nobody ever had, in the place of the owner's last one.
Mint(o) ==
  /\ minted' = minted + 1
  /\ current' = [current EXCEPT ![o] = minted + 1]
  /\ UNCHANGED mailed

\* The owner's link, or one that is dead: never what is somebody else's.
Mail(o, t) ==
  /\ t \in 1 .. minted
  /\ \A other \in Owners \ {o} : current[other] # t
  /\ mailed' = mailed \cup {<<o, t>>}
  /\ UNCHANGED <<current, minted>>

\* The links of these owners are used up or withdrawn.
Revoke(S) ==
  /\ current' = [o \in Owners |-> IF o \in S THEN 0 ELSE current[o]]
  /\ UNCHANGED <<minted, mailed>>

Next ==
  \/ \E o \in Owners : Mint(o) \/ \E t \in 1 .. minted : Mail(o, t)
  \/ \E S \in SUBSET Owners : Revoke(S)

Spec == Init /\ [][Next]_vars

-----------------------------------------------------------------------------
(* Properties *)

\* A mail that was delivered to one owner opens nothing of another's, whatever was
\* minted, used up and withdrawn since; and no two owners share a link.
OpensOwnOnly ==
  /\ \A link \in mailed, o \in Owners : current[o] = link[2] => o = link[1]
  /\ \A o, p \in Owners : current[o] = current[p] /\ current[o] # 0 => o = p
=============================================================================
