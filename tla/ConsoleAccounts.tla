--------------------------- MODULE ConsoleAccounts ---------------------------
(***************************************************************************)
(* The accounts of one tenant's console users, or of the platform's staff: *)
(* created by an administrator, entered through a one-time link, withdrawn *)
(* and restored.  Every awaited query is a step and calls interleave: each *)
(* operation reads the row first and updates it by id afterwards, so what  *)
(* it checked may no longer hold when it writes.                           *)
(***************************************************************************)
EXTENDS Naturals, FiniteSets

CONSTANTS
  Users,     \* accounts that can exist
  Admins,    \* those with the administrator role; a role never changes
  Outsiders, \* actors without an account here: staff, for a tenant's users
  Calls,     \* calls that may be in progress at once
  MaxLinks,  \* bound: links minted
  None       \* the account of a call that is idle

ConsoleAccountsAssumption ==
  /\ Admins \subseteq Users /\ Users \cap Outsiders = {}
  /\ None \notin Users
  /\ IsFiniteSet(Admins) /\ IsFiniteSet(Calls) /\ Calls # {}
  /\ MaxLinks \in Nat

VARIABLES
  account,      \* absent, active, inactive (deactivated) or deleted
  link,         \* the link whose hash the row holds, 0 when null
  minted,       \* links minted so far
  mailed,       \* account and link of each invitation that was sent
  uses,         \* how often each link has set a password
  pc, subject, held, \* calls: next step, account, link
  stale,        \* calls that read their account before a later write to it
  miscounted,   \* removals that counted an administrator since withdrawn
  late          \* links stored by a stale call

vars == <<account, link, minted, mailed, uses, pc, subject, held,
          stale, miscounted, late>>
linkVars == <<minted, mailed, uses, late>>
readVars == <<stale, miscounted>>

Links == 1 .. MaxLinks
Steps == {"idle", "issue", "mail", "accept", "countDeactivate", "countDelete",
          "deactivate", "delete", "reactivate"}
Removals == {"deactivate", "delete"}

TypeOK ==
  /\ account \in [Users -> {"absent", "active", "inactive", "deleted"}]
  /\ link \in [Users -> 0 .. MaxLinks]
  /\ minted \in 0 .. MaxLinks
  /\ mailed \subseteq Users \X Links
  /\ uses \in [Links -> Nat]
  /\ pc \in [Calls -> Steps]
  /\ subject \in [Calls -> Users \cup {None}]
  /\ held \in [Calls -> 0 .. MaxLinks]
  /\ stale \subseteq Calls /\ miscounted \subseteq Calls
  /\ late \subseteq Links

\* Some accounts are there already, their first links long used.
Init ==
  /\ account \in [Users -> {"absent", "active"}]
  /\ link = [u \in Users |-> 0]
  /\ minted = 0 /\ mailed = {} /\ uses = [t \in Links |-> 0]
  /\ pc = [c \in Calls |-> "idle"]
  /\ subject = [c \in Calls |-> None]
  /\ held = [c \in Calls |-> 0]
  /\ stale = {} /\ miscounted = {} /\ late = {}

ActiveAdmins == {u \in Admins : account[u] = "active"}
Exists(u) == account[u] \in {"active", "inactive"}

-----------------------------------------------------------------------------
(* Steps of a call.  A definition named like the next one with a suffix is
   that definition with one mistake in it, to show which property notices. *)

\* A call on account u reads it and goes on to its next step.
Begin(c, u, step, t) ==
  /\ pc[c] = "idle"
  /\ pc' = [pc EXCEPT ![c] = step]
  /\ subject' = [subject EXCEPT ![c] = u]
  /\ held' = [held EXCEPT ![c] = t]

\* The call writes to its account: whoever else read that account, or counted
\* it among the administrators before it went, now works from old values.
Others(c) == {d \in Calls \ {c} : pc[d] # "idle" /\ subject[d] = subject[c]}
Overtake(c) == stale' = stale \cup Others(c)
Withdraw(c) ==
  LET counters == {d \in Calls : pc[d] \in Removals} IN
  /\ stale' = (stale \cup Others(c)) \ {c}
  /\ miscounted' =
       (IF subject[c] \in ActiveAdmins THEN miscounted \cup counters ELSE miscounted) \ {c}

\* The call is over, having written to its account or not.
Forget(c) == stale' = stale \ {c} /\ miscounted' = miscounted \ {c}
OvertakeAndForget(c) ==
  stale' = (stale \cup Others(c)) \ {c} /\ miscounted' = miscounted \ {c}

\* The call returns or throws: its locals are gone.
Finish(c) ==
  /\ pc' = [pc EXCEPT ![c] = "idle"]
  /\ subject' = [subject EXCEPT ![c] = None]
  /\ held' = [held EXCEPT ![c] = 0]

\* An update by id throws when the row is gone.
RowGone(c) ==
  /\ ~Exists(subject[c])
  /\ Finish(c)
  /\ Forget(c)
  /\ UNCHANGED <<account, link, linkVars>>

CallDies(c) ==
  /\ pc[c] # "idle"
  /\ Finish(c)
  /\ Forget(c)
  /\ UNCHANGED <<account, link, linkVars>>

-----------------------------------------------------------------------------
(* Invitations *)

RoomToIssue == minted + Cardinality({c \in Calls : pc[c] = "issue"}) < MaxLinks

\* The row is created with a hash nobody knows; the link comes after it.
Create(c, u) ==
  /\ RoomToIssue
  /\ account[u] = "absent"
  /\ account' = [account EXCEPT ![u] = "active"]
  /\ Begin(c, u, "issue", 0)
  /\ UNCHANGED <<link, linkVars, readVars>>

SendConsoleInvite(c, u) ==
  /\ RoomToIssue
  /\ account[u] = "active"
  /\ Begin(c, u, "issue", 0)
  /\ UNCHANGED <<account, link, linkVars, readVars>>

\* Any earlier link is overwritten, and so dead.
Issue(c) ==
  /\ pc[c] = "issue" /\ Exists(subject[c])
  /\ minted' = minted + 1
  /\ link' = [link EXCEPT ![subject[c]] = minted + 1]
  /\ held' = [held EXCEPT ![c] = minted + 1]
  /\ pc' = [pc EXCEPT ![c] = "mail"]
  /\ late' = IF c \in stale THEN late \cup {minted + 1} ELSE late
  /\ Overtake(c)
  /\ UNCHANGED <<account, mailed, uses, subject, miscounted>>

\* A refused mail is logged, not thrown.
Mail(c) ==
  /\ pc[c] = "mail"
  /\ mailed' \in {mailed, mailed \cup {<<subject[c], held[c]>>}}
  /\ Finish(c)
  /\ Forget(c)
  /\ UNCHANGED <<account, link, minted, uses, late>>

\* findByToken: an expired link or a short password only ends the call.
FindByToken(c) ==
  \E invitation \in mailed :
    /\ link[invitation[1]] = invitation[2]
    /\ account[invitation[1]] = "active"
    /\ Begin(c, invitation[1], "accept", invitation[2])
    /\ UNCHANGED <<account, link, linkVars, readVars>>

\* The update is by id: it clears whatever link the row holds by now.
Accept(c) ==
  /\ pc[c] = "accept" /\ Exists(subject[c])
  /\ link' = [link EXCEPT ![subject[c]] = 0]
  /\ uses' = [uses EXCEPT ![held[c]] = @ + 1]
  /\ Finish(c)
  /\ OvertakeAndForget(c)
  /\ UNCHANGED <<account, minted, mailed, late>>

-----------------------------------------------------------------------------
(* Withdrawing and restoring an account *)

\* Nobody removes their own account; only outsiders destroy the row.
Remove(c, u, actor) ==
  /\ actor # u
  /\ \/ /\ account[u] = "active"
        /\ Begin(c, u, "countDeactivate", 0)
     \/ /\ Exists(u) /\ actor \in Outsiders
        /\ Begin(c, u, "countDelete", 0)
  /\ UNCHANGED <<account, link, linkVars, readVars>>

LastActiveAdminOff(u) == u \in Admins /\ Cardinality(ActiveAdmins) < 1
LastActiveAdmin(u) == u \in Admins /\ Cardinality(ActiveAdmins) <= 1

AssertNotLastActiveAdmin(c) ==
  /\ pc[c] \in {"countDeactivate", "countDelete"}
  /\ IF LastActiveAdmin(subject[c])
     THEN Finish(c) /\ Forget(c)
     ELSE /\ pc' = [pc EXCEPT ![c] =
               IF pc[c] = "countDelete" THEN "delete" ELSE "deactivate"]
          /\ UNCHANGED <<subject, held, readVars>>
  /\ UNCHANGED <<account, link, linkVars>>

DeactivateKeepsLink(c) ==
  /\ pc[c] = "deactivate" /\ Exists(subject[c])
  /\ account' = [account EXCEPT ![subject[c]] = "inactive"]
  /\ Finish(c)
  /\ Withdraw(c)
  /\ UNCHANGED <<link, linkVars>>

Deactivate(c) ==
  /\ pc[c] = "deactivate" /\ Exists(subject[c])
  /\ account' = [account EXCEPT ![subject[c]] = "inactive"]
  /\ link' = [link EXCEPT ![subject[c]] = 0]
  /\ Finish(c)
  /\ Withdraw(c)
  /\ UNCHANGED linkVars

Delete(c) ==
  /\ pc[c] = "delete" /\ Exists(subject[c])
  /\ account' = [account EXCEPT ![subject[c]] = "deleted"]
  /\ link' = [link EXCEPT ![subject[c]] = 0]
  /\ Finish(c)
  /\ Withdraw(c)
  /\ UNCHANGED linkVars

ReactivateFind(c, u) ==
  /\ Exists(u)
  /\ Begin(c, u, "reactivate", 0)
  /\ UNCHANGED <<account, link, linkVars, readVars>>

Reactivate(c) ==
  /\ pc[c] = "reactivate" /\ Exists(subject[c])
  /\ account' = [account EXCEPT ![subject[c]] = "active"]
  /\ Finish(c)
  /\ OvertakeAndForget(c)
  /\ UNCHANGED <<link, linkVars>>

Writing == {"issue", "accept", "deactivate", "delete", "reactivate"}

\* Administrators' requests are admitted on an account that is active now.
Request(c, u) ==
  \E actor \in Outsiders \cup ActiveAdmins :
    Create(c, u) \/ SendConsoleInvite(c, u) \/ ReactivateFind(c, u) \/ Remove(c, u, actor)

Call(c) ==
  \/ \E u \in Users : Request(c, u)
  \/ FindByToken(c) \/ Accept(c)
  \/ Issue(c) \/ Mail(c)
  \/ AssertNotLastActiveAdmin(c) \/ Deactivate(c) \/ Delete(c) \/ Reactivate(c)
  \/ pc[c] \in Writing /\ RowGone(c)
  \/ CallDies(c)

Next == \E c \in Calls : Call(c)

Spec == Init /\ [][Next]_vars

-----------------------------------------------------------------------------
(* Properties *)

\* A team never loses its last active administrator except through a removal
\* that counted the administrators before another removal took one away:
\* whatever else overlaps, one removal at a time cannot do it.
LastAdminKept ==
  ActiveAdmins # {} /\ ActiveAdmins' = {} =>
    \E c \in miscounted : pc[c] \in Removals /\ pc'[c] = "idle"

\* Withdrawing an account withdraws its link for good: while it is inactive it
\* holds none, so restoring it revives none, except one that a call which had
\* found the account active stored only after it was withdrawn.
WithdrawnHoldsNoLink ==
  \A u \in Users : account[u] \in {"inactive", "deleted"} => link[u] \in {0} \cup late

\* "The link is for one use only": accepting it kills it, so it sets as many
\* passwords as calls had found it together, and not one more later.
Accepting(t) == {c \in Calls : pc[c] = "accept" /\ held[c] = t}
UsesBounded ==
  \A t \in Links : uses[t] + Cardinality(Accepting(t)) <= Cardinality(Calls)

\* An acceptance that nothing overtook sets the password of an active account
\* through the link that account holds, and the one that was mailed to it.
AcceptsCurrentLink ==
  \A c \in Calls \ stale : pc[c] = "accept" =>
    /\ account[subject[c]] = "active"
    /\ link[subject[c]] = held[c]
    /\ <<subject[c], held[c]>> \in mailed

\* A link that is used up, overwritten or withdrawn is never stored again, on
\* this account or another.
LinksNeverReturn ==
  \A t \in Links : t <= minted /\ (\A u \in Users : link[u] # t) =>
    \A u \in Users : link'[u] # t

\* What holds of the links in every state, and of the team in every step.
LinksHold == TypeOK /\ WithdrawnHoldsNoLink /\ UsesBounded /\ AcceptsCurrentLink
TeamStep == LastAdminKept /\ LinksNeverReturn
TeamSteps == [][TeamStep]_vars
=============================================================================
